------------------------------ MODULE PollerOps ------------------------------
(***************************************************************************)
(* Channel and Poller as functions on their common state.  A poller is a   *)
(* record of                                                               *)
(*   fd       the descriptor of each channel (Channel::fd_),               *)
(*   events   what each channel wants to hear of (Channel::events_),       *)
(*   index    what the poller knows of each channel (Channel::index_),     *)
(*   channels Poller::channels_, the channel known for each descriptor,    *)
(*   epoll    the interest list the kernel keeps for epollfd_.             *)
(* "IN" stands for kReadEvent and "OUT" for kWriteEvent.                   *)
(***************************************************************************)

CONSTANTS
    Chans,   \* the channels
    Fds,     \* the descriptors
    None     \* no channel, or no entry

Index == {"cNew", "cAdded", "cDeleted"}

Interest == [channel : Chans, events : SUBSET {"IN", "OUT"}]

Pollers ==
    [fd : [Chans -> Fds \cup {None}],
     events : [Chans -> SUBSET {"IN", "OUT"}],
     index : [Chans -> Index],
     channels : [Fds -> Chans \cup {None}],
     epoll : [Fds -> Interest \cup {None}]]

EmptyPoller ==
    [fd |-> [c \in Chans |-> None],
     events |-> [c \in Chans |-> {}],
     index |-> [c \in Chans |-> "cNew"],
     channels |-> [fd \in Fds |-> None],
     epoll |-> [fd \in Fds |-> None]]

\* A new Channel for descriptor fd.
NewChannel(p, c, fd) ==
    [p EXCEPT !.fd[c] = fd, !.events[c] = {}, !.index[c] = "cNew"]

\* close() of the descriptors fds: the kernel takes them off its list.
CloseFds(p, fds) ==
    [p EXCEPT !.epoll = [fd \in Fds |-> IF fd \in fds THEN None ELSE @[fd]]]

-----------------------------------------------------------------------------
\* Poller::update, one epoll_ctl.  ADD of an entry that is there and MOD of
\* one that is not fail, which is only logged.
EpollCtl(p, op, c) ==
    LET fd == p.fd[c]
        entry == [channel |-> c, events |-> p.events[c]]
    IN  CASE op = "ADD" /\ p.epoll[fd] = None -> [p EXCEPT !.epoll[fd] = entry]
          [] op = "MOD" /\ p.epoll[fd] # None -> [p EXCEPT !.epoll[fd] = entry]
          [] op = "DEL" -> [p EXCEPT !.epoll[fd] = None]
          [] OTHER -> p

\* Poller::updateChannel for a channel whose index is cNew or cDeleted.  A
\* deleted channel that is still in channels_ is left alone.
AddChannel(p, c) ==
    LET fd == p.fd[c]
        known == IF p.index[c] = "cNew" /\ p.channels[fd] = None
                   THEN [p EXCEPT !.channels[fd] = c]
                   ELSE p
    IN  IF p.index[c] = "cDeleted" /\ p.channels[fd] = c
          THEN p
          ELSE EpollCtl([known EXCEPT !.index[c] = "cAdded"], "ADD", c)

\* Poller::updateChannel for a channel whose index is cAdded.
ModifyChannel(p, c) ==
    CASE p.channels[p.fd[c]] # c -> p
      [] p.events[c] = {} -> [EpollCtl(p, "DEL", c) EXCEPT !.index[c] = "cDeleted"]
      [] OTHER -> EpollCtl(p, "MOD", c)

updateChannel(p, c) ==
    IF p.index[c] = "cAdded" THEN ModifyChannel(p, c) ELSE AddChannel(p, c)

\* Poller::removeChannel, which Channel::remove calls for a disabled channel.
removeChannel(p, c) ==
    LET fd == p.fd[c]
        erased == [p EXCEPT !.channels[fd] = None]
        deleted == IF p.index[c] = "cAdded" THEN EpollCtl(erased, "DEL", c) ELSE erased
    IN  IF p.channels[fd] = c /\ p.index[c] # "cNew"
          THEN [deleted EXCEPT !.index[c] = "cNew"]
          ELSE p

-----------------------------------------------------------------------------
\* The operations of a Channel.
enableReading(p, c) == updateChannel([p EXCEPT !.events[c] = @ \cup {"IN"}], c)
enableWriting(p, c) == updateChannel([p EXCEPT !.events[c] = @ \cup {"OUT"}], c)
disableWriting(p, c) == updateChannel([p EXCEPT !.events[c] = @ \ {"OUT"}], c)
disableAll(p, c) == updateChannel([p EXCEPT !.events[c] = {}], c)
remove(p, c) == IF p.events[c] = {} THEN removeChannel(p, c) ELSE p
isWriting(p, c) == "OUT" \in p.events[c]
=============================================================================
