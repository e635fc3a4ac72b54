------------------------------ MODULE FdManager ------------------------------
(***************************************************************************)
(* FdManager, a list of descriptors with a maximum, as functions on the    *)
(* sequence fdVec_.  Nothing keeps a descriptor from being in it twice.    *)
(***************************************************************************)
EXTENDS Naturals, SequencesExt

\* Fault: the comparison is off by one the other way.
InsertBelow(s, fd, maxSize) == IF Len(s) + 1 < maxSize THEN Append(s, fd) ELSE s

\* FdManager::Insert, which compares with <= .
Insert(s, fd, maxSize) == IF Len(s) <= maxSize THEN Append(s, fd) ELSE s

\* FdManager::Delete, of the first one that is equal.
Delete(s, fd) == RemoveFirst(s, fd)

\* FdManager::Find
Find(s, fd) == Contains(s, fd)

\* FdManager::GetTotalCount
GetTotalCount(s) == Len(s)
=============================================================================
