--------------------------------- MODULE Bmp ----------------------------------
(***************************************************************************)
(* Tools/src/bmp.cpp: reading the pixels of a .bmp file, and writing the   *)
(* grey pixels of an image as one.                                         *)
(*                                                                         *)
(* What a pixel is worth does not matter, where it is taken from does: the *)
(* result of a call holds, for each place it fills, the place that the     *)
(* value came from.  A bit of the pixels of a file is <<byte, bit>>, with  *)
(* bit 7 the leftmost; <<byte, 8>> is a whole byte.  All counts are from   *)
(* 0.                                                                      *)
(***************************************************************************)
EXTENDS Integers, Sequences

CONSTANTS
    Widths,
    Heights,
    DWORD    \* how many bytes an unsigned long has, bmp.h:11

ASSUME BmpAssumption == Widths \subseteq Nat \ {0} /\ Heights \subseteq Nat \ {0}

(***************************************************************************)
(* The build is one with longs of four bytes, like the ARM target that     *)
(* App/CMakeLists.txt:21 names in a comment.  Only there do the packed     *)
(* headers have the 14 and 40 bytes of FILEHEADSIZE and INFOHEADSIZE       *)
(* (bmp.h:36 and 76) that memcpy takes (bmp.cpp:274 and 276), and does     *)
(* reading field by field (31 - 35 and 57 - 67) find the fields of the     *)
(* format.  Longs of eight bytes, for which bmp.h:13 has another typedef   *)
(* in a comment, shift the fields: such a build is not modelled.           *)
(***************************************************************************)
ASSUME BmpBuild == DWORD = 4

FILEHEADSIZE == 14
INFOHEADSIZE == 40
ClrTableSize == 256 * 4

VARIABLE bmp  \* history: the last call, its arguments and its result

bmpVars == <<bmp>>

-----------------------------------------------------------------------------
(***************************************************************************)
(* The headers, in the order of their fields.  A file is a function from   *)
(* the offset of a field to its value.                                     *)
(***************************************************************************)
WORD == 2

BITMAPFILEHEADER ==
    <<[name |-> "bfType", size |-> WORD], [name |-> "bfSize", size |-> DWORD],
      [name |-> "bfReserved1", size |-> WORD], [name |-> "bfReserved2", size |-> WORD],
      [name |-> "bfOffBits", size |-> DWORD]>>

\* Up to the last field that is used; those after it are DWORDs too.
BITMAPINFOHEADER ==
    <<[name |-> "biSize", size |-> DWORD], [name |-> "biWidth", size |-> DWORD],
      [name |-> "biHeight", size |-> DWORD], [name |-> "biPlanes", size |-> WORD],
      [name |-> "biBitCount", size |-> WORD], [name |-> "biCompression", size |-> DWORD]>>

\* Where field i of a header that begins at base is, the structures being
\* packed.
Offset(fields, base, i) ==
    LET at[k \in 1 .. i] == IF k = 1 THEN base ELSE at[k - 1] + fields[k - 1].size
    IN  at[i]

\* memcpy of a header into the file.
Written(fields, base, header) ==
    [at \in {Offset(fields, base, i) : i \in DOMAIN fields} |->
        header[fields[CHOOSE i \in DOMAIN fields : Offset(fields, base, i) = at].name]]

\* The freads of a header, one field after the other; where the file has no
\* field the value is of no use.
Read(fields, base, file) ==
    [name \in {fields[i].name : i \in DOMAIN fields} |->
        LET at == Offset(fields, base, CHOOSE i \in DOMAIN fields : fields[i].name = name)
        IN  IF at \in DOMAIN file THEN file[at] ELSE -1]

ReadFileHeader(file) == Read(BITMAPFILEHEADER, 0, file)

\* Fault: no fseek over the file header.
ReadInfoHeaderFromStart(file) == Read(BITMAPINFOHEADER, 0, file)

ReadInfoHeader(file) == Read(BITMAPINFOHEADER, 14, file)

WriteFileHeader(width, height) ==
    [bfType |-> 19778,
     bfSize |-> FILEHEADSIZE + INFOHEADSIZE + ClrTableSize + width * height,
     bfReserved1 |-> 0, bfReserved2 |-> 0,
     bfOffBits |-> FILEHEADSIZE + INFOHEADSIZE + ClrTableSize]

WriteInfoHeader(width, height) ==
    [biSize |-> INFOHEADSIZE, biWidth |-> width, biHeight |-> height,
     biPlanes |-> 1, biBitCount |-> 8, biCompression |-> 0]

Headers(bmfh, bmih) ==
    LET first == Written(BITMAPFILEHEADER, 0, bmfh)
        second == Written(BITMAPINFOHEADER, FILEHEADSIZE, bmih)
    IN  [at \in DOMAIN first \cup DOMAIN second |->
            IF at \in DOMAIN first THEN first[at] ELSE second[at]]

-----------------------------------------------------------------------------
(***************************************************************************)
(* The pixels.                                                             *)
(***************************************************************************)
GetLineBytes(width, bitcount) ==
    IF bitcount < 8 THEN (width + 7) \div 8
                    ELSE ((width * bitcount + 31) \div 32) * 4

\* Fault: the last byte of every row is read from its left, and in full.
shiftbitsAlwaysEight(w, width) == 8

\* How many bits byte w of a row of 1-bit pixels gives.
shiftbits(w, width) ==
    LET dwLineBytes == GetLineBytes(width, 1)
    IN  IF dwLineBytes * 8 # width /\ w = dwLineBytes - 1
        THEN width - (dwLineBytes - 1) * 8
        ELSE 8

\* Fault: the rows of the file are taken from its first one.
pRowAddrDown(h, width, height, bitCount) == GetLineBytes(width, bitCount) * h

\* The rows of a file go upwards.
pRowAddr(h, width, height, bitCount) ==
    GetLineBytes(width, bitCount) * (height - 1 - h)

\* One row of raw: the bits of every byte from bit shiftbits - 1 down, or
\* one byte out of four.
RawRow(h, width, height, bitCount) ==
    LET row == pRowAddr(h, width, height, bitCount)
        Bits[w \in -1 .. GetLineBytes(width, bitCount) - 1] ==
            IF w = -1 THEN <<>>
            ELSE Bits[w - 1] \o [i \in 1 .. shiftbits(w, width) |->
                                    <<row + w, shiftbits(w, width) - i>>]
    IN  IF bitCount = 1 THEN Bits[GetLineBytes(width, bitCount) - 1]
        ELSE [w \in 1 .. width |-> <<row + 4 * (w - 1), 8>>]

\* The pixels start at bfOffBits; the rows are taken one after the other.
ReadPixelData(file) ==
    LET bmih == ReadInfoHeader(file)
        raw[h \in -1 .. bmih.biHeight - 1] ==
            IF h = -1 THEN <<>>
            ELSE raw[h - 1] \o RawRow(h, bmih.biWidth, bmih.biHeight, bmih.biBitCount)
    IN  [width |-> bmih.biWidth, height |-> bmih.biHeight,
         bitCount |-> bmih.biBitCount, start |-> ReadFileHeader(file).bfOffBits,
         raw |-> raw[bmih.biHeight - 1]]

clr_table == [i \in 0 .. 255 |-> [rgbBlue |-> i, rgbGreen |-> i, rgbRed |-> i]]

\* Fault: the rows are written from the first one.
SourceRowDown(k, width, height) == k \div width

\* The row of the image that byte k of the pixels comes from.
SourceRow(k, width, height) == height - 1 - k \div width

\* The loops that end encode_bmp and RawToBmp.
WritePixels(width, height) ==
    [k \in 0 .. width * height - 1 |->
        SourceRow(k, width, height) * width + (k % width)]

BmpInit == bmp = [call |-> "none"]

\* Either with memory of its own or with the caller's.
encode_bmp(width, height) ==
    LET bmfh == WriteFileHeader(width, height)
        bmih == WriteInfoHeader(width, height)
    IN  bmp' = [call |-> "encode", bmfh |-> bmfh, bmih |-> bmih,
                file |-> Headers(bmfh, bmih), clr |-> clr_table,
                pixels |-> WritePixels(width, height)]

\* -1 only when both pointers are NULL, and then nothing is written.
RawToBmp(width, height, bothNull) ==
    IF bothNull THEN bmp' = [call |-> "RawToBmp", size |-> -1]
                ELSE encode_bmp(width, height)

\* Of a file with these headers; NULL when it cannot be opened.
get_data(bmfh, bmih) ==
    \/ bmp' = [call |-> "get_data", bmfh |-> bmfh, bmih |-> bmih,
               got |-> ReadPixelData(Headers(bmfh, bmih))]
    \/ bmp' = [call |-> "none"]

\* The files of other programs: no colours, or two.
BmpNext ==
    \E width \in Widths, height \in Heights :
        LET bmfh == WriteFileHeader(width, height)
            bmih == WriteInfoHeader(width, height)
        IN  \/ encode_bmp(width, height)
            \/ \E bothNull \in BOOLEAN : RawToBmp(width, height, bothNull)
            \/ get_data(bmfh, bmih)
            \/ \E bitCount \in {1, 32} :
                  get_data([bmfh EXCEPT !.bfOffBits =
                               FILEHEADSIZE + INFOHEADSIZE + IF bitCount = 1 THEN 8 ELSE 0],
                           [bmih EXCEPT !.biBitCount = bitCount])

-----------------------------------------------------------------------------
\* The format: rows upwards, each of a multiple of four bytes.
Stride(width, bitCount) == ((width * bitCount + 31) \div 32) * 4

PlaceInFile(row, col, width, height, bitCount) ==
    LET line == Stride(width, bitCount) * (height - 1 - row)
    IN  IF bitCount = 1 THEN <<line + col \div 8, 7 - (col % 8)>>
                        ELSE <<line + col * (bitCount \div 8), 8>>

(***************************************************************************)
(* Whatever the width, raw is filled exactly, with width * height values,  *)
(* and nothing is read past the rows that were allocated and read: the     *)
(* bytes and bits of every row add up to its pixels, the last byte that is *)
(* not full included.  (ReadPixelData, bmp.cpp:127, 145 and 146 - 187; not *)
(* for files of 8 bits per pixel, which are read like those of 32.)        *)
(***************************************************************************)
FillsRaw ==
    bmp.call = "get_data" /\ bmp.bmih.biBitCount \in {1, 32} =>
        LET got == bmp.got
            size == GetLineBytes(got.width, got.bitCount) * got.height
        IN  /\ Len(got.raw) = got.width * got.height
            /\ \A n \in DOMAIN got.raw : got.raw[n][1] \in 0 .. size - 1

(***************************************************************************)
(* The sizes are those of the file's headers, and pixel (row, col) of raw  *)
(* is the one the file has there, as the format says, for files of 32 bits *)
(* per pixel and for files of 1 bit whose rows are a multiple of 32        *)
(* pixels.  (Other 1-bit files are read with rows and last bytes shifted.) *)
(* (bmp.cpp:20 - 83 and ReadPixelData, 104 - 187)                          *)
(***************************************************************************)
ReadsTheFormat ==
    bmp.call = "get_data" =>
        LET got == bmp.got
        IN  /\ got.width = bmp.bmih.biWidth /\ got.height = bmp.bmih.biHeight
            /\ got.bitCount = bmp.bmih.biBitCount /\ got.start = bmp.bmfh.bfOffBits
            /\ got.bitCount = 32 \/ (got.bitCount = 1 /\ got.width % 32 = 0) =>
                  \A row \in 0 .. got.height - 1, col \in 0 .. got.width - 1 :
                      got.raw[row * got.width + col + 1] =
                          PlaceInFile(row, col, got.width, got.height, got.bitCount)

(***************************************************************************)
(* A file that is written with a width that is a multiple of four is well  *)
(* formed: its size is that of its headers, its colours and its rows, and  *)
(* where the format looks for pixel (row, col) is the value the caller put *)
(* at row * width + col.  (Other widths lack the padding of the rows.)     *)
(* (encode_bmp and RawToBmp, bmp.cpp:211 - 291 and 293 - 341)              *)
(***************************************************************************)
WritesTheFormat ==
    bmp.call = "encode" /\ bmp.bmih.biWidth % 4 = 0 =>
        LET width == bmp.bmih.biWidth
            height == bmp.bmih.biHeight
            bits == bmp.bmih.biBitCount
        IN  /\ bmp.bmfh.bfSize = bmp.bmfh.bfOffBits + Stride(width, bits) * height
            /\ \A row \in 0 .. height - 1, col \in 0 .. width - 1 :
                  LET place == PlaceInFile(row, col, width, height, bits)[1]
                  IN  bmp.pixels[place] = row * width + col
=============================================================================
