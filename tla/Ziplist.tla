------------------------------ MODULE Ziplist ------------------------------
(***************************************************************************)
(* ziplist.c: a list kept in one allocation.  Every entry begins with the  *)
(* length of the one before it, in one byte or in five, so a change of one *)
(* entry can make its successors grow in turn.  The entries are a sequence *)
(* in the order of memory; lengths and offsets are the real ones.  A value *)
(* is a string, known by its length and a name, or an integer, the width   *)
(* of whose encodings is a constant.                                       *)
(***************************************************************************)
EXTENDS Integers, Sequences

CONSTANTS Bits,      \* bits of the 8, 16, 24, 32 and 64 bit encodings
          ImmMax,    \* 12: up to here an integer is part of its encoding
          MaxLength, \* UINT16_MAX
          Scenarios  \* [values, others, ranges, max]

VARIABLE s

HeaderSize == 10
EndSize == 1
BigPrevlen == 254

-----------------------------------------------------------------------------
(* Entries: the field for the previous length, pls bytes that hold pl; the   *)
(* encoding, ls bytes; len bytes of data.                                    *)

\* zipTryEncoding: 0 for a number kept in the encoding, else the narrowest
InRange(n, b) == n >= -(2^(b - 1)) /\ n < 2^(b - 1)
IntEncoding(n) ==
  IF n \in 0..ImmMax THEN 0
  ELSE CHOOSE e \in 1..5 : InRange(n, Bits[e]) /\ \A f \in 1..(e - 1) : ~InRange(n, Bits[f])

\* zipIntSize
IntSize(enc) == IF enc = 0 THEN 0 ELSE <<1, 2, 3, 4, 8>>[enc]

\* zipSaveInteger and zipLoadInteger
SaveInteger(n, enc) == IF enc = 0 THEN n ELSE n % (2^Bits[enc])

\* Mutated: the sign of a 24 bit number is not extended
LoadIntegerUnsigned(d, enc) ==
  IF enc \in {0, 3} \/ d < 2^(Bits[enc] - 1) THEN d ELSE d - 2^Bits[enc]

LoadInteger(d, enc) == IF enc = 0 \/ d < 2^(Bits[enc] - 1) THEN d ELSE d - 2^Bits[enc]

\* zipStoreEntryEncoding
StrLenSize(len) == IF len <= 63 THEN 1 ELSE IF len <= 16383 THEN 2 ELSE 5

Encode(v) == IF v.int THEN [int |-> TRUE, enc |-> IntEncoding(v.n), ls |-> 1, len |-> IntSize(IntEncoding(v.n)),
                            data |-> SaveInteger(v.n, IntEncoding(v.n))]
             ELSE [int |-> FALSE, enc |-> 0, ls |-> StrLenSize(v.len), len |-> v.len, data |-> v.n]

\* ziplistGet
Get(e) == IF e.int THEN [int |-> TRUE, n |-> LoadInteger(e.data, e.enc)]
          ELSE [int |-> FALSE, len |-> e.len, n |-> e.data]

\* zipStorePrevEntryLength, and an entry with its field
PrevSize(len) == IF len < BigPrevlen THEN 1 ELSE 5
Entry(pls, pl, b) == [pls |-> pls, pl |-> pl, b |-> b]

RawEntryLength(e) == e.pls + e.b.ls + e.b.len

-----------------------------------------------------------------------------
(* The list: zlbytes, zltail, zllen and the entries. *)

New == [bytes |-> HeaderSize + EndSize, tail |-> HeaderSize, count |-> 0, e |-> <<>>]

RECURSIVE Total(_, _)
Total(e, n) == IF n = 0 THEN 0 ELSE Total(e, n - 1) + RawEntryLength(e[n])

Offset(z, i) == HeaderSize + Total(z.e, i - 1)

\* The entry that begins at an offset, or 0
At(z, off) == IF \E i \in DOMAIN z.e : Offset(z, i) = off
              THEN CHOOSE i \in DOMAIN z.e : Offset(z, i) = off ELSE 0

\* ZIPLIST_INCR_LENGTH
IncrLength(n, by) == IF n < MaxLength THEN n + by ELSE n

\* __ziplistCascadeUpdate: entry i may have changed its length
\* Mutated: only the next entry is looked at
CascadeOnce(z, i) ==
  IF i >= Len(z.e) \/ z.e[i + 1].pl = RawEntryLength(z.e[i]) THEN z
  ELSE IF z.e[i + 1].pls < PrevSize(RawEntryLength(z.e[i]))
  THEN [z EXCEPT !.bytes = @ + 4,
                 !.tail = IF @ # Offset(z, i + 1) THEN @ + 4 ELSE @,
                 !.e[i + 1] = Entry(5, RawEntryLength(z.e[i]), @.b)]
  ELSE [z EXCEPT !.e[i + 1].pl = RawEntryLength(z.e[i])]

RECURSIVE CascadeUpdate(_, _)
CascadeUpdate(z, i) ==
  IF i >= Len(z.e) \/ z.e[i + 1].pl = RawEntryLength(z.e[i]) THEN z
  ELSE IF z.e[i + 1].pls < PrevSize(RawEntryLength(z.e[i]))
  THEN CascadeUpdate([z EXCEPT !.bytes = @ + 4,
                               !.tail = IF @ # Offset(z, i + 1) THEN @ + 4 ELSE @,
                               !.e[i + 1] = Entry(5, RawEntryLength(z.e[i]), @.b)], i + 1)
  ELSE [z EXCEPT !.e[i + 1].pl = RawEntryLength(z.e[i])]

CascadeIf(z, i, nextdiff) == IF nextdiff = 0 THEN z ELSE CascadeUpdate(z, i)

\* Mutated: the tail is that of a list whose last entry did not change size
DeleteTailShort(z, i, j, totlen, nextdiff) ==
  IF j > Len(z.e) THEN Offset(z, i) - z.e[i].pl ELSE z.tail - totlen

DeleteTail(z, i, j, totlen, nextdiff) ==
  IF j > Len(z.e) THEN Offset(z, i) - z.e[i].pl
  ELSE z.tail - totlen + IF j < Len(z.e) THEN nextdiff ELSE 0

\* __ziplistDelete: entries i to j - 1
DeleteTo(z, i, j, totlen, nextdiff) ==
  CascadeIf([bytes |-> z.bytes - totlen + nextdiff, tail |-> DeleteTail(z, i, j, totlen, nextdiff),
             count |-> IncrLength(z.count, i - j),
             e |-> SubSeq(z.e, 1, i - 1) \o
                   (IF j > Len(z.e) THEN <<>>
                    ELSE <<Entry(PrevSize(z.e[i].pl), z.e[i].pl, z.e[j].b)>>
                         \o SubSeq(z.e, j + 1, Len(z.e)))], i, nextdiff)

DeleteFrom(z, i, j) ==
  DeleteTo(z, i, j, Offset(z, j) - Offset(z, i),
           IF j > Len(z.e) THEN 0 ELSE PrevSize(z.e[i].pl) - z.e[j].pls)

Delete(z, i, num) == DeleteFrom(z, i, IF i + num > Len(z.e) THEN Len(z.e) + 1 ELSE i + num)

\* __ziplistInsert: before entry i, or at the end
PrevLength(z, i) ==
  IF i <= Len(z.e) THEN z.e[i].pl
  ELSE IF At(z, z.tail) # 0 THEN RawEntryLength(z.e[At(z, z.tail)]) ELSE 0

\* nextdiff, and the size of the field of the entry that follows
Diff(z, i, reqlen) == IF i > Len(z.e) THEN 0 ELSE PrevSize(reqlen) - z.e[i].pls
ForceLarge(z, i, reqlen) == Diff(z, i, reqlen) = -4 /\ reqlen < 4

InsertAt(z, i, new, nextdiff) ==
  LET reqlen == RawEntryLength(new)
  IN CascadeIf([bytes |-> z.bytes + reqlen + nextdiff,
                tail  |-> IF i > Len(z.e) THEN Offset(z, i)
                          ELSE z.tail + reqlen + IF i < Len(z.e) THEN nextdiff ELSE 0,
                count |-> IncrLength(z.count, 1),
                e |-> SubSeq(z.e, 1, i - 1) \o <<new>> \o
                      (IF i > Len(z.e) THEN <<>>
                       ELSE <<Entry(z.e[i].pls + nextdiff, reqlen, z.e[i].b)>> \o SubSeq(z.e, i + 1, Len(z.e)))],
               i + 1, nextdiff)

InsertNew(z, i, new) ==
  InsertAt(z, i, new, IF ForceLarge(z, i, RawEntryLength(new)) THEN 0 ELSE Diff(z, i, RawEntryLength(new)))

Insert(z, i, v) == InsertNew(z, i, Entry(PrevSize(PrevLength(z, i)), PrevLength(z, i), Encode(v)))

RECURSIVE Built(_, _)
Built(z, vs) == IF vs = <<>> THEN z ELSE Built(Insert(z, Len(z.e) + 1, Head(vs)), Tail(vs))

\* ziplistMerge: a, then b, neither of them empty
Merge(a, b) ==
  CascadeUpdate([bytes |-> a.bytes + b.bytes - HeaderSize - EndSize,
                 tail  |-> a.bytes - EndSize + b.tail - HeaderSize,
                 count |-> IF a.count + b.count < MaxLength THEN a.count + b.count ELSE MaxLength,
                 e     |-> a.e \o b.e], At(a, a.tail))

\* ziplistIndex: the entry, or 0
RECURSIVE Back(_, _, _)
Back(z, off, k) ==
  LET i == At(z, off)
  IN IF i = 0 \/ k = 0 THEN i
     ELSE IF z.e[i].pl = 0 THEN 0 ELSE Back(z, off - z.e[i].pl, k - 1)

Index(z, idx) == IF idx < 0 THEN Back(z, z.tail, -idx - 1)
                 ELSE IF idx < Len(z.e) THEN idx + 1 ELSE 0

DeleteRange(z, idx, num) == IF Index(z, idx) = 0 THEN z ELSE Delete(z, Index(z, idx), num)

\* ziplistLen: counts, and stores the count, when zllen is saturated
Recounted(z) == IF z.count = MaxLength /\ Len(z.e) < MaxLength THEN [z EXCEPT !.count = Len(z.e)] ELSE z
Length(z) == IF z.count < MaxLength THEN z.count ELSE Len(z.e)

\* ziplistCompare and ziplistFind
Compare(e, v) == IF e.int THEN v.int /\ LoadInteger(e.data, e.enc) = v.n
                 ELSE ~v.int /\ e.len = v.len /\ e.data = v.n

RECURSIVE Find(_, _, _, _)
Find(z, i, v, skip) == IF i > Len(z.e) THEN 0
                       ELSE IF Compare(z.e[i].b, v) THEN i ELSE Find(z, i + 1 + skip, v, skip)

-----------------------------------------------------------------------------
(* The machine: a list, and the values it should hold. *)

Becomes(z, want) == s' = [s EXCEPT !.z = z, !.want = want]

InsertStep ==
  \E v \in s.sc.values, i \in 1..(Len(s.want) + 1) :
    /\ Len(s.want) < s.sc.max
    /\ Becomes(Insert(s.z, i, v), SubSeq(s.want, 1, i - 1) \o <<v>> \o SubSeq(s.want, i, Len(s.want)))

Place(idx) == IF idx < 0 THEN Len(s.want) + idx + 1 ELSE idx + 1

DeleteStep ==
  \E r \in s.sc.ranges :
    /\ Place(r[1]) \in DOMAIN s.want
    /\ Becomes(DeleteRange(s.z, r[1], r[2]),
               SubSeq(s.want, 1, Place(r[1]) - 1) \o SubSeq(s.want, Place(r[1]) + r[2], Len(s.want)))

MergeStep ==
  \E other \in s.sc.others :
    /\ s.want # <<>> /\ Len(s.want) + Len(other) <= s.sc.max
    /\ \/ Becomes(Merge(s.z, Built(New, other)), s.want \o other)
       \/ Becomes(Merge(Built(New, other), s.z), other \o s.want)

LenStep == Becomes(Recounted(s.z), s.want)

Init == \E sc \in Scenarios : s = [sc |-> sc, z |-> New, want |-> <<>>]

Next == InsertStep \/ DeleteStep \/ MergeStep \/ LenStep

Spec == Init /\ [][Next]_s

-----------------------------------------------------------------------------
(* Properties. *)

\* Walking the entries gives the values that were put in, integers back from
\* their encodings (ziplist.c, __ziplistInsert, __ziplistDelete, zipLoadInteger).
ValuesKept == /\ Len(s.z.e) = Len(s.want)
              /\ \A i \in DOMAIN s.want : Get(s.z.e[i].b) = s.want[i]

\* Every entry holds the exact length of the one before it in a field it fits,
\* and the header has the size and the tail: the list can be walked from both
\* ends (ziplist.c, __ziplistCascadeUpdate and zipPrevLenByteDiff).
LinksExact ==
  /\ \A i \in DOMAIN s.z.e :
       /\ s.z.e[i].pl = (IF i = 1 THEN 0 ELSE RawEntryLength(s.z.e[i - 1]))
       /\ s.z.e[i].pls = 1 => s.z.e[i].pl < BigPrevlen
  /\ s.z.bytes = Offset(s.z, Len(s.z.e) + 1) + EndSize
  /\ s.z.tail = IF s.z.e = <<>> THEN HeaderSize ELSE Offset(s.z, Len(s.z.e))

\* Positions counted from either end, the length and the searches agree with
\* the values (ziplist.c, ziplistIndex, ziplistLen and ziplistFind).
QueriesExact ==
  LET n == Len(s.want)
  IN /\ Length(s.z) = n
     /\ \A idx \in (-n - 1)..n : Index(s.z, idx) = IF Place(idx) \in 1..n THEN Place(idx) ELSE 0
     /\ \A v \in s.sc.values, skip \in 0..1 :
          LET hits == {i \in 1..n : s.want[i] = v /\ (i - 1) % (skip + 1) = 0}
          IN IF hits = {} THEN Find(s.z, 1, v, skip) = 0
             ELSE Find(s.z, 1, v, skip) \in hits /\ \A i \in hits : i >= Find(s.z, 1, v, skip)
=============================================================================
