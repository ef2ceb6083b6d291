------------------------------ MODULE Listpack ------------------------------
(***************************************************************************)
(* listpack.c: the list in one allocation that streams are made of.  An    *)
(* entry is its encoding, its data and, at the end, the length of the two  *)
(* in a form that is read backwards.  The bytes of the encodings and of    *)
(* the lengths are the real ones; the bytes of a string are its length and *)
(* a name.  Integers of more than 24 bits are left out.                    *)
(***************************************************************************)
EXTENDS Integers, Sequences

CONSTANTS Unknown,   \* LP_HDR_NUMELE_UNKNOWN
          Scenarios  \* [values, max]

VARIABLE s

HdrSize == 6

-----------------------------------------------------------------------------
(* Encodings. *)

Wrap(v, bits) == IF v < 0 THEN 2^bits + v ELSE v

\* lpEncodeGetType: the bytes of an integer
EncodeInt(v) ==
  IF v \in 0..127 THEN <<v>>
  ELSE IF v \in -4096..4095 THEN <<192 + Wrap(v, 13) \div 256, Wrap(v, 13) % 256>>
  ELSE IF v \in -32768..32767 THEN <<241, Wrap(v, 16) % 256, Wrap(v, 16) \div 256>>
  ELSE <<242, Wrap(v, 24) % 256, (Wrap(v, 24) \div 256) % 256, Wrap(v, 24) \div 65536>>

\* lpEncodeString: the bytes before those of the string
EncodeLen(n) ==
  IF n < 64 THEN <<128 + n>>
  ELSE IF n < 4096 THEN <<224 + n \div 256, n % 256>>
  ELSE <<240, n % 256, (n \div 256) % 256, (n \div 65536) % 256, n \div 16777216>>

\* lpGet: a length, or a number from the unsigned one that was stored
Signed(u, negstart, negmax) == IF u >= negstart THEN -(negmax - u) - 1 ELSE u

\* Mutated: the bound for a negative number is one too high
DecodeIntLate(h) ==
  IF h[1] < 128 THEN h[1]
  ELSE IF h[1] < 224 THEN Signed((h[1] - 192) * 256 + h[2], 4097, 8191)
  ELSE IF h[1] = 241 THEN Signed(h[2] + 256 * h[3], 32768, 65535)
  ELSE Signed(h[2] + 256 * h[3] + 65536 * h[4], 8388608, 16777215)

DecodeInt(h) ==
  IF h[1] < 128 THEN h[1]
  ELSE IF h[1] < 224 THEN Signed((h[1] - 192) * 256 + h[2], 4096, 8191)
  ELSE IF h[1] = 241 THEN Signed(h[2] + 256 * h[3], 32768, 65535)
  ELSE Signed(h[2] + 256 * h[3] + 65536 * h[4], 8388608, 16777215)

DecodeLen(h) ==
  IF h[1] < 192 THEN h[1] - 128
  ELSE IF h[1] < 240 THEN (h[1] - 224) * 256 + h[2]
  ELSE h[2] + 256 * h[3] + 65536 * h[4] + 16777216 * h[5]

\* Which of the two the first byte announces
IsStr(b) == b \in 128..191 \/ b \in 224..240

\* lpCurrentEncodedSize
EncodedSize(h) == IF IsStr(h[1]) THEN Len(h) + DecodeLen(h)
                  ELSE IF h[1] < 128 THEN 1 ELSE IF h[1] < 224 THEN 2 ELSE h[1] - 238

\* lpEncodeBacklen and lpDecodeBacklen, which reads from the last byte
BacklenSize(l) == IF l <= 127 THEN 1 ELSE IF l < 16383 THEN 2 ELSE IF l < 2097151 THEN 3
                  ELSE IF l < 268435455 THEN 4 ELSE 5

EncodeBacklen(l) == [i \in 1..BacklenSize(l) |->
  ((l \div (128^(BacklenSize(l) - i))) % 128) + (IF i = 1 THEN 0 ELSE 128)]

RECURSIVE DecodeBacklen(_, _)
DecodeBacklen(b, i) == (b[i] % 128) + (IF b[i] < 128 \/ i = 1 THEN 0 ELSE 128 * DecodeBacklen(b, i - 1))

-----------------------------------------------------------------------------
(* The list: total bytes, number of elements, entries in order of memory. *)

New == [bytes |-> HdrSize + 1, num |-> 0, e |-> <<>>]

Entry(h, name) == [h |-> h, name |-> name, back |-> <<>> \o EncodeBacklen(EncodedSize(h))]
Encode(v) == IF v.int THEN Entry(EncodeInt(v.n), 0) ELSE Entry(EncodeLen(v.len), v.n)
Get(e) == IF IsStr(e.h[1]) THEN [int |-> FALSE, len |-> DecodeLen(e.h), n |-> e.name]
          ELSE [int |-> TRUE, n |-> DecodeInt(e.h)]

\* lpSkip: an entry spans its encoding, its data and the backlen of the two
Span(e) == EncodedSize(e.h) + BacklenSize(EncodedSize(e.h))

RECURSIVE Offset(_, _)
Offset(p, i) == IF i = 1 THEN HdrSize ELSE Offset(p, i - 1) + Span(p.e[i - 1])

At(p, off) == IF \E i \in DOMAIN p.e : Offset(p, i) = off
              THEN CHOOSE i \in DOMAIN p.e : Offset(p, i) = off ELSE 0

\* lpPrev of what begins at off, by the bytes that precede it: those of entry i
Before(p, off, i) == LET l == DecodeBacklen(p.e[i].back, Len(p.e[i].back)) IN off - l - BacklenSize(l)

\* lpInsert before entry i, lpInsert in place of it, and lpDelete
NumAfter(num, by) == IF num = Unknown THEN num ELSE num + by

InsertBefore(p, i, e) ==
  [bytes |-> p.bytes + Span(e), num |-> NumAfter(p.num, 1),
   e |-> SubSeq(p.e, 1, i - 1) \o <<e>> \o SubSeq(p.e, i, Len(p.e))]

Replace(p, i, e) == [p EXCEPT !.bytes = @ + Span(e) - Span(p.e[i]), !.e[i] = e]

Delete(p, i) == [bytes |-> p.bytes - Span(p.e[i]), num |-> NumAfter(p.num, -1),
                 e |-> SubSeq(p.e, 1, i - 1) \o SubSeq(p.e, i + 1, Len(p.e))]

\* lpLength, which stores a count that is small enough
Recounted(p) == IF p.num = Unknown /\ Len(p.e) < Unknown THEN [p EXCEPT !.num = Len(p.e)] ELSE p
Length(p) == IF p.num = Unknown THEN Len(p.e) ELSE p.num

\* lpSeek: from the nearer end when the number of elements is known
RECURSIVE Back(_, _, _)
Back(p, off, k) == IF At(p, off) <= 1 \/ k = 0 THEN (IF k = 0 THEN At(p, off) ELSE 0)
                   ELSE Back(p, Before(p, off, At(p, off) - 1), k - 1)

FromEnd(p, k) == IF p.e = <<>> THEN 0 ELSE Back(p, Before(p, p.bytes - 1, Len(p.e)), k - 1)
FromStart(p, k) == IF k < Len(p.e) THEN k + 1 ELSE 0

SeekKnown(p, i) ==
  IF i < 0 \/ i >= p.num THEN 0
  ELSE IF i > p.num \div 2 THEN FromEnd(p, p.num - i) ELSE FromStart(p, i)

Seek(p, index) ==
  IF p.num # Unknown THEN SeekKnown(p, IF index < 0 THEN p.num + index ELSE index)
  ELSE IF index < 0 THEN FromEnd(p, -index) ELSE FromStart(p, index)

-----------------------------------------------------------------------------
(* The machine. *)

Becomes(p, want) == s' = [s EXCEPT !.p = p, !.want = want]

InsertStep ==
  \E v \in s.sc.values, i \in 1..(Len(s.want) + 1) :
    /\ Len(s.want) < s.sc.max
    /\ Becomes(InsertBefore(s.p, i, Encode(v)),
               SubSeq(s.want, 1, i - 1) \o <<v>> \o SubSeq(s.want, i, Len(s.want)))

ReplaceStep ==
  \E v \in s.sc.values, i \in DOMAIN s.want :
    Becomes(Replace(s.p, i, Encode(v)), [s.want EXCEPT ![i] = v])

DeleteStep ==
  \E i \in DOMAIN s.want :
    Becomes(Delete(s.p, i), SubSeq(s.want, 1, i - 1) \o SubSeq(s.want, i + 1, Len(s.want)))

LengthStep == Becomes(Recounted(s.p), s.want)

Init == \E sc \in Scenarios : s = [sc |-> sc, p |-> New, want |-> <<>>]

Next == InsertStep \/ ReplaceStep \/ DeleteStep \/ LengthStep

Spec == Init /\ [][Next]_s

-----------------------------------------------------------------------------
(* Properties. *)

\* Reading the entries gives back the integers and strings that were stored,
\* at every boundary of the encodings (listpack.c, lpEncodeGetType and lpGet).
ValuesKept == /\ Len(s.p.e) = Len(s.want)
              /\ \A i \in DOMAIN s.want : Get(s.p.e[i]) = s.want[i]

\* The list can be walked backwards: every backlen gives the beginning of its
\* entry, and the header has the size (listpack.c, lpEncodeBacklen, lpPrev).
BackwardsExact ==
  /\ s.p.bytes = Offset(s.p, Len(s.p.e) + 1) + 1
  /\ \A i \in DOMAIN s.p.e : /\ Len(s.p.e[i].back) = BacklenSize(EncodedSize(s.p.e[i].h))
                             /\ Before(s.p, Offset(s.p, i + 1), i) = Offset(s.p, i)

\* A position counted from either end is found from the nearer end, also when
\* the number of elements is not known (listpack.c, lpSeek and lpLength).
SeekExact ==
  LET n == Len(s.want)
  IN /\ Length(s.p) = n
     /\ \A idx \in (-n - 1)..n :
          Seek(s.p, idx) = LET at == IF idx < 0 THEN n + idx + 1 ELSE idx + 1
                           IN IF at \in 1..n THEN at ELSE 0
=============================================================================
