--------------------------------- MODULE Rdb ---------------------------------
(***************************************************************************)
(* The format of the snapshot file: rdb.c writes lengths, integers,        *)
(* compressed and plain strings, the objects in their encodings and the    *)
(* records of a database, and reads them back; lzf_c.c and lzf_d.c         *)
(* compress.  A byte has W bits here; the short, middle and long integers  *)
(* have one, two and three bytes.  The ziplist or intset of a small        *)
(* collection is one string of (length, bytes) items.                      *)
(***************************************************************************)
EXTENDS Integers, Sequences, FiniteSets

CONSTANTS W,          \* bits of a byte: at least 5
          LitBits,    \* 5 in lzf: bits of the length of a literal run
          HashBits,   \* HLOG
          Unroll,     \* 16: the unrolled comparisons
          MinCompress,\* 20: only longer strings are compressed
          MaxIntText, \* 11: only strings as short may be integers
          Base,       \* 10
          Scenarios   \* [pure, dbs, replica, limits...]

VARIABLE s

B == 2 ^ W
Low == 2 ^ (W - 2)
From(q, i) == SubSeq(q, i, Len(q))

\* Bytes of a number, the least or the most significant one first
RECURSIVE LE(_, _), BE(_, _), FromLE(_), FromBE(_)
LE(v, n) == IF n = 0 THEN <<>> ELSE <<v % B>> \o LE(v \div B, n - 1)
BE(v, n) == IF n = 0 THEN <<>> ELSE BE(v \div B, n - 1) \o <<v % B>>
FromLE(q) == IF q = <<>> THEN 0 ELSE q[1] + (B * FromLE(Tail(q)))
FromBE(q) == IF q = <<>> THEN 0 ELSE q[Len(q)] + (B * FromBE(SubSeq(q, 1, Len(q) - 1)))
Signed(v, n) == IF v >= (B ^ n) \div 2 THEN v - (B ^ n) ELSE v

\* rioRead: what is read from position p on, or the end of the file
Read(f, p, n) == IF p + n - 1 > Len(f) THEN [ok |-> FALSE, val |-> <<>>, p |-> p]
                 ELSE [ok |-> TRUE, val |-> SubSeq(f, p, p + n - 1), p |-> p + n]
Eof(p) == [ok |-> FALSE, val |-> <<>>, p |-> p]
Got(v, p) == [ok |-> TRUE, val |-> v, p |-> p]

-----------------------------------------------------------------------------
(* Lengths and integers.                                                    *)

\* Mutated: the longest middle length is one too long
SaveLenPlus(n) ==
  IF n < Low THEN <<n>>
  ELSE IF n <= Low * B THEN <<Low + (n \div B), n % B>>
  ELSE IF n < B * B THEN <<2 * Low>> \o BE(n, 2) ELSE <<(2 * Low) + 1>> \o BE(n, 3)

\* rdbSaveLen
SaveLen(n) ==
  IF n < Low THEN <<n>>
  ELSE IF n < Low * B THEN <<Low + (n \div B), n % B>>
  ELSE IF n < B * B THEN <<2 * Low>> \o BE(n, 2) ELSE <<(2 * Low) + 1>> \o BE(n, 3)

\* rdbLoadLenByRef; enc tells that the rest of the byte names an encoding
Size(v, enc, p) == [ok |-> TRUE, val |-> v, enc |-> enc, p |-> p]
NoSize == [ok |-> FALSE, val |-> 0, enc |-> FALSE, p |-> 0]
LongSize(r) == IF r.ok THEN Size(FromBE(r.val), FALSE, r.p) ELSE NoSize
SizeFrom(f, p, b) ==
  IF b \div Low = 3 THEN Size(b % Low, TRUE, p + 1)
  ELSE IF b \div Low = 0 THEN Size(b, FALSE, p + 1)
  ELSE IF b \div Low = 1 THEN IF p + 1 > Len(f) THEN NoSize ELSE Size(((b % Low) * B) + f[p + 1], FALSE, p + 2)
  ELSE IF b = 2 * Low THEN LongSize(Read(f, p + 1, 2))
  ELSE IF b = (2 * Low) + 1 THEN LongSize(Read(f, p + 1, 3)) ELSE NoSize
LoadLen(f, p) == IF p > Len(f) THEN NoSize ELSE SizeFrom(f, p, f[p])

\* rdbEncodeInteger, rdbLoadIntegerObject
Fits(v, n) == v >= -((B ^ n) \div 2) /\ v <= ((B ^ n) \div 2) - 1
EncodeInteger(v) ==
  IF Fits(v, 1) THEN <<3 * Low>> \o LE(v % B, 1)
  ELSE IF Fits(v, 2) THEN <<(3 * Low) + 1>> \o LE(v % (B ^ 2), 2)
  ELSE IF Fits(v, 3) THEN <<(3 * Low) + 2>> \o LE(v % (B ^ 3), 3) ELSE <<>>

\* Characters: 0 is NUL, digits and the minus sign
Zero == 16
Minus == 15
RECURSIVE Numeral(_)
Numeral(v) == IF v < 0 THEN <<Minus>> \o Numeral(-v)
              ELSE IF v < Base THEN <<Zero + v>> ELSE Numeral(v \div Base) \o <<Zero + (v % Base)>>

IntegerText(r, n) == IF r.ok THEN Got(Numeral(Signed(FromLE(r.val), n)), r.p) ELSE Eof(r.p)

\* strtoll: the value of the digits at the front, and where they end
IsDigit(c) == c \in Zero..Zero + Base - 1
RECURSIVE DigitsEnd(_, _), DigitsValue(_, _)
DigitsEnd(t, i) == IF i <= Len(t) /\ IsDigit(t[i]) THEN DigitsEnd(t, i + 1) ELSE i
DigitsValue(t, v) == IF t = <<>> THEN v ELSE DigitsValue(Tail(t), (v * Base) + t[1] - Zero)
Start(t) == IF t # <<>> /\ t[1] = Minus THEN 2 ELSE 1
Parsed(t, end) == LET v == DigitsValue(SubSeq(t, Start(t), end - 1), 0) IN IF Start(t) = 2 THEN -v ELSE v

\* Mutated: what is behind a NUL is forgotten
TryIntegerEncodingText(t) ==
  LET end == DigitsEnd(t, Start(t))
  IN IF end <= Len(t) /\ t[end] # 0 THEN <<>> ELSE EncodeInteger(Parsed(t, end))

\* rdbTryIntegerEncoding: only if the number is written as the string is
TryIntegerEncoding(t) ==
  LET end == DigitsEnd(t, Start(t))
  IN IF end <= Len(t) /\ t[end] # 0 THEN <<>>
     ELSE IF Numeral(Parsed(t, end)) # t THEN <<>> ELSE EncodeInteger(Parsed(t, end))

-----------------------------------------------------------------------------
(* lzf.  z is the state of lzf_compress: position in the input, output with *)
(* a place for the control byte of the open run, its length, the table of   *)
(* positions (whatever the memory held at first).                           *)

MaxLit == 2 ^ LitBits
MaxOff == 2 ^ (LitBits + W)
LongRef == (2 ^ (W - LitBits)) - 1
MaxRef == B + LongRef + 1
HSize == 2 ^ HashBits

\* IDX of the three bytes from position i on (counted from 0)
Three(t, i) == (t[i + 1] * B * B) + (t[i + 2] * B) + t[i + 3]
Idx(h) == ((h \div (2 ^ ((3 * W) - HashBits))) - (h * 5)) % HSize

Control(z) == [z.out EXCEPT ![Len(z.out) - z.lit] = z.lit - 1]
\* op [-lit - 1] = lit - 1; op -= !lit
Close(z) == IF z.lit = 0 THEN SubSeq(z.out, 1, Len(z.out) - 1) ELSE Control(z)

Literal(t, z) ==
  LET y == [z EXCEPT !.lit = @ + 1, !.out = Append(@, t[z.ip + 1]), !.ip = @ + 1]
  IN IF y.lit = MaxLit THEN [y EXCEPT !.out = Append(Control(y), 0), !.lit = 0] ELSE y

\* The length of a match: unrolled without a look at maxlen, then bounded by it
RECURSIVE Unrolled(_, _, _, _, _), Bounded(_, _, _, _, _)
Bounded(t, ref, ip, len, maxlen) ==
  IF len + 1 < maxlen /\ t[ref + len + 2] = t[ip + len + 2] THEN Bounded(t, ref, ip, len + 1, maxlen) ELSE len + 1
Unrolled(t, ref, ip, len, maxlen) ==
  IF len = 2 + Unroll THEN Bounded(t, ref, ip, len, maxlen)
  ELSE IF t[ref + len + 2] # t[ip + len + 2] THEN len + 1 ELSE Unrolled(t, ref, ip, len + 1, maxlen)
MatchLength(t, ref, ip, maxlen) ==
  IF maxlen > Unroll THEN Unrolled(t, ref, ip, 2, maxlen) ELSE Bounded(t, ref, ip, 2, maxlen)

IsMatch(t, z, ref) ==
  /\ ref < z.ip /\ ref > 0 /\ z.ip - ref - 1 < MaxOff
  /\ Three(t, ref) = Three(t, z.ip)

RefBytes(off, len) ==
  IF len < LongRef THEN <<(off \div B) + (len * MaxLit), off % B>>
  ELSE <<(off \div B) + (LongRef * MaxLit), len - LongRef, off % B>>

\* After a match the last two positions in it are noted as well
Noted(t, z) ==
  IF z.ip >= Len(t) - 2 THEN z
  ELSE [z EXCEPT !.htab = [[@ EXCEPT ![Idx(Three(t, z.ip - 2))] = z.ip - 2] EXCEPT ![Idx(Three(t, z.ip - 1))] = z.ip - 1]]

Copied(t, z, off, len) ==
  Noted(t, [z EXCEPT !.out = Append(Close(z) \o RefBytes(off, len - 2), 0), !.lit = 0, !.ip = @ + len])

\* The loop; outLen bounds the output.  0 is a failure.
NoRoom == [ok |-> FALSE]
RECURSIVE CompressLoop(_, _, _), CompressAt(_, _, _, _), Rest(_, _)
Rest(t, z) == IF z.ip < Len(t) THEN Rest(t, Literal(t, z)) ELSE [ok |-> TRUE, out |-> Close(z)]
CompressLoop(t, z, outLen) ==
  IF z.ip >= Len(t) - 2 THEN IF Len(z.out) + 3 > outLen THEN NoRoom ELSE Rest(t, z)
  ELSE LET h == Idx(Three(t, z.ip))
       IN CompressAt(t, [z EXCEPT !.htab[h] = z.ip], z.htab[h], outLen)
CompressAt(t, z, ref, outLen) ==
  IF IsMatch(t, z, ref)
  THEN IF Len(z.out) + 4 >= outLen /\ Len(z.out) - (IF z.lit = 0 THEN 1 ELSE 0) + 4 >= outLen THEN NoRoom
       ELSE LET most == Len(t) - z.ip - 2
            IN CompressLoop(t, Copied(t, z, z.ip - ref - 1, MatchLength(t, ref, z.ip, IF most > MaxRef THEN MaxRef ELSE most)), outLen)
  ELSE IF Len(z.out) >= outLen THEN NoRoom ELSE CompressLoop(t, Literal(t, z), outLen)

Compress(t, outLen, garbage) ==
  IF t = <<>> \/ outLen = 0 THEN NoRoom
  ELSE CompressLoop(t, [ip |-> 0, out |-> <<0>>, lit |-> 0, htab |-> [h \in 0..HSize - 1 |-> garbage]], outLen)

\* lzf_decompress
RECURSIVE Decompress(_, _, _, _), CopyRef(_, _, _), DecompressRef(_, _, _, _, _, _)
CopyRef(out, ref, n) == IF n = 0 THEN out ELSE CopyRef(Append(out, out[ref]), ref + 1, n - 1)
DecompressRef(c, p, out, outLen, len, high) ==
  LET ref == Len(out) - (high * B) - c[p]
  IN IF Len(out) + len + 2 > outLen \/ ref < 1 THEN NoRoom
     ELSE Decompress(c, p + 1, CopyRef(out, ref, len + 2), outLen)
Decompress(c, p, out, outLen) ==
  IF p > Len(c) THEN [ok |-> TRUE, out |-> out]
  ELSE LET ctrl == c[p]
       IN IF ctrl < MaxLit
          THEN IF Len(out) + ctrl + 1 > outLen \/ p + ctrl + 1 > Len(c) THEN NoRoom
               ELSE Decompress(c, p + ctrl + 2, out \o SubSeq(c, p + 1, p + ctrl + 1), outLen)
          ELSE IF p + 1 > Len(c) \/ (ctrl \div MaxLit = LongRef /\ p + 2 > Len(c)) THEN NoRoom
          ELSE IF ctrl \div MaxLit = LongRef
          THEN DecompressRef(c, p + 2, out, outLen, LongRef + c[p + 1], ctrl % MaxLit)
          ELSE DecompressRef(c, p + 1, out, outLen, ctrl \div MaxLit, ctrl % MaxLit)

-----------------------------------------------------------------------------
(* Strings.                                                                 *)

LzfBlob(c, len) == <<(3 * Low) + 3>> \o SaveLen(Len(c)) \o SaveLen(len) \o c

\* rdbSaveLzfStringObject: at least four bytes must be saved
SaveLzf(t, z) == IF z.ok THEN LzfBlob(z.out, Len(t)) ELSE SaveLen(Len(t)) \o t
SaveString(t) ==
  IF Len(t) <= MaxIntText /\ TryIntegerEncoding(t) # <<>> THEN TryIntegerEncoding(t)
  ELSE IF Len(t) > MinCompress THEN SaveLzf(t, Compress(t, Len(t) - 4, s.sc.garbage))
  ELSE SaveLen(Len(t)) \o t

\* rdbSaveLongLongAsStringObject
SaveInteger(v) == IF EncodeInteger(v) # <<>> THEN EncodeInteger(v) ELSE SaveLen(Len(Numeral(v))) \o Numeral(v)

\* rdbLoadLzfStringObject
Expanded(z, p, len) == IF z.ok THEN Got(z.out, p) ELSE Eof(p)
LoadLzfBytes(r, len) == IF ~r.ok THEN r ELSE Expanded(Decompress(r.val, 1, <<>>, len), r.p, len)
LoadLzfSize(f, clen, len) == IF ~len.ok THEN Eof(0) ELSE LoadLzfBytes(Read(f, len.p, clen), len.val)
LoadLzf(f, clen) == IF ~clen.ok THEN Eof(0) ELSE LoadLzfSize(f, clen.val, LoadLen(f, clen.p))

\* rdbGenericLoadStringObject
LoadSized(f, n) ==
  IF ~n.ok THEN Eof(0)
  ELSE IF ~n.enc THEN Read(f, n.p, n.val)
  ELSE IF n.val = 3 THEN LoadLzf(f, LoadLen(f, n.p))
  ELSE IF n.val \in 0..2 THEN IntegerText(Read(f, n.p, n.val + 1), n.val + 1) ELSE Eof(0)
LoadString(f, p) == LoadSized(f, LoadLen(f, p))

RECURSIVE SaveStrings(_), LoadStrings(_, _, _, _), LoadNext(_, _, _, _)
SaveStrings(q) == IF q = <<>> THEN <<>> ELSE SaveString(q[1]) \o SaveStrings(Tail(q))
LoadStrings(f, p, n, acc) == IF n = 0 THEN Got(acc, p) ELSE LoadNext(f, LoadString(f, p), n, acc)
LoadNext(f, r, n, acc) == IF ~r.ok THEN Eof(0) ELSE LoadStrings(f, r.p, n - 1, Append(acc, r.val))

-----------------------------------------------------------------------------
(* Objects: [type, enc, val].  A list is a sequence of nodes, each a        *)
(* sequence of elements; a set a sequence without repetition, a sorted set  *)
(* or hash a sequence of pairs.                                             *)

\* A ziplist or intset as a string, and back (ziplist.c, intset.c).  A load does
\* not look into one; what a damaged one holds is of no matter, as the
\* checksum fails.
RECURSIVE Blob(_), Unblob(_), Pairs(_), Unpairs(_)
Blob(q) == IF q = <<>> THEN <<>> ELSE <<Len(q[1])>> \o q[1] \o Blob(Tail(q))
Unblob(b) == IF b = <<>> THEN <<>> ELSE IF b[1] >= Len(b) THEN <<Tail(b)>>
             ELSE <<SubSeq(b, 2, b[1] + 1)>> \o Unblob(From(b, b[1] + 2))
Pairs(q) == IF q = <<>> THEN <<>> ELSE <<q[1][1], q[1][2]>> \o Pairs(Tail(q))
Unpairs(q) == IF Len(q) < 2 THEN <<>> ELSE <<<<q[1], q[2]>>>> \o Unpairs(From(q, 3))

\* rdbSaveObjectType
TypeOf(o) ==
  CASE o.type = "string" -> 0
    [] o.type = "list" -> 14
    [] o.type = "set" -> IF o.enc = "intset" THEN 11 ELSE 2
    [] o.type = "zset" -> IF o.enc = "ziplist" THEN 12 ELSE 5
    [] o.type = "hash" -> IF o.enc = "ziplist" THEN 13 ELSE 4

\* The nodes of a list; a compressed one is stored as it is
SaveNode(node, z) == IF node.lzf /\ z.ok THEN LzfBlob(z.out, Len(Blob(node.q))) ELSE SaveString(Blob(node.q))
RECURSIVE SaveNodes(_), SaveScored(_)
SaveNodes(q) == IF q = <<>> THEN <<>>
                ELSE SaveNode(q[1], Compress(Blob(q[1].q), Len(Blob(q[1].q)), s.sc.garbage)) \o SaveNodes(Tail(q))

\* A skiplist from its tail on, each score a binary number
SaveScored(q) == IF q = <<>> THEN <<>> ELSE SaveString(q[Len(q)][1]) \o q[Len(q)][2] \o SaveScored(SubSeq(q, 1, Len(q) - 1))

\* rdbSaveObject
SaveObject(o) ==
  CASE o.type = "string" /\ o.enc = "int" -> SaveInteger(o.val)
    [] o.type = "string" /\ o.enc # "int" -> SaveString(o.val)
    [] o.type = "list" -> SaveLen(Len(o.val)) \o SaveNodes(o.val)
    [] o.type = "set" /\ o.enc = "intset" -> SaveString(Blob(o.val))
    [] o.type = "set" /\ o.enc = "ht" -> SaveLen(Len(o.val)) \o SaveStrings(o.val)
    [] o.type = "zset" /\ o.enc = "skiplist" -> SaveLen(Len(o.val)) \o SaveScored(o.val)
    [] o.type = "hash" /\ o.enc = "ht" -> SaveLen(Len(o.val)) \o SaveStrings(Pairs(o.val))
    [] o.enc = "ziplist" -> SaveString(Blob(Pairs(o.val)))

RECURSIVE LoadScored(_, _, _, _), LoadScore(_, _, _, _), Longest(_)
LoadScored(f, p, n, acc) == IF n = 0 THEN Got(acc, p) ELSE LoadScore(f, LoadString(f, p), n, acc)
LoadScore(f, r, n, acc) == IF ~r.ok \/ r.p > Len(f) THEN Eof(0)
                           ELSE LoadScored(f, r.p + 1, n - 1, <<<<r.val, <<f[r.p]>>>>>> \o acc)
Longest(q) == IF q = <<>> THEN 0 ELSE IF Len(q[1]) > Longest(Tail(q)) THEN Len(q[1]) ELSE Longest(Tail(q))

Made(r, type, enc, val) == IF r.ok THEN [ok |-> TRUE, p |-> r.p, val |-> [type |-> type, enc |-> enc, val |-> val]] ELSE Eof(0)

IsNumeral(t) == t # <<>> /\ Numeral(Parsed(t, DigitsEnd(t, Start(t)))) = t

\* tryObjectEncoding of a loaded string
LoadedString(r) == IF r.ok /\ IsNumeral(r.val) THEN Made(r, "string", "int", Parsed(r.val, Len(r.val) + 1))
                   ELSE Made(r, "string", "raw", r.val)
RECURSIVE Nodes(_)
Nodes(q) == IF q = <<>> THEN <<>> ELSE <<[lzf |-> FALSE, q |-> Unblob(q[1])]>> \o Nodes(Tail(q))
LoadedList(r) == Made(r, "list", "quicklist", IF r.ok THEN Nodes(r.val) ELSE <<>>)
LoadedSet(r, n) == Made(r, "set", IF n <= s.sc.maxEntries /\ \A i \in DOMAIN r.val : IsNumeral(r.val[i]) THEN "intset" ELSE "ht", r.val)
LoadedHash(r, n) == Made(r, "hash", IF n <= s.sc.maxEntries /\ Longest(r.val) <= s.sc.maxValue THEN "ziplist" ELSE "ht", Unpairs(r.val))
LoadedZset(r) == Made(r, "zset", IF r.ok /\ Len(r.val) <= s.sc.maxEntries /\ Longest([i \in DOMAIN r.val |-> r.val[i][1]]) <= s.sc.maxValue
                                 THEN "ziplist" ELSE "skiplist", r.val)
LoadedBlob(r, type, small, large) ==
  IF ~r.ok THEN r
  ELSE LET val == IF type = "set" THEN Unblob(r.val) ELSE Unpairs(Unblob(r.val))
       IN Made(r, type, IF Len(val) > s.sc.maxEntries THEN large ELSE small, val)

\* rdbLoadObject
LoadCounted(f, n, type) ==
  IF ~n.ok THEN Eof(0)
  ELSE CASE type = 14 -> LoadedList(LoadStrings(f, n.p, n.val, <<>>))
         [] type = 2 -> LoadedSet(LoadStrings(f, n.p, n.val, <<>>), n.val)
         [] type = 4 -> LoadedHash(LoadStrings(f, n.p, 2 * n.val, <<>>), n.val)
         [] type = 5 -> LoadedZset(LoadScored(f, n.p, n.val, <<>>))
LoadObject(f, p, type) ==
  CASE type = 0 -> LoadedString(LoadString(f, p))
    [] type \in {2, 4, 5, 14} -> LoadCounted(f, LoadLen(f, p), type)
    [] type = 11 -> LoadedBlob(LoadString(f, p), "set", "intset", "ht")
    [] type = 12 -> LoadedBlob(LoadString(f, p), "zset", "ziplist", "skiplist")
    [] type = 13 -> LoadedBlob(LoadString(f, p), "hash", "ziplist", "ht")
    [] OTHER -> Eof(0)

-----------------------------------------------------------------------------
(* The file: records of [db, key, o, expire, idle]; expire or idle may be   *)
(* none.                                                                    *)

NoTime == -1
Aux == B - 6
ResizeDb == B - 5
ExpireMs == B - 4
SelectDb == B - 2
EofCode == B - 1
Idle == B - 8

\* rdbSaveKeyValuePair
SaveRecord(r) ==
  (IF r.expire # NoTime THEN <<ExpireMs>> \o LE(r.expire, 2) ELSE <<>>) \o
  (IF r.idle # NoTime THEN <<Idle>> \o SaveLen(r.idle) ELSE <<>>) \o
  <<TypeOf(r.o)>> \o SaveString(r.key) \o SaveObject(r.o)

RECURSIVE SaveRecords(_), SaveDbs(_, _)
SaveRecords(q) == IF q = <<>> THEN <<>> ELSE SaveRecord(q[1]) \o SaveRecords(Tail(q))
Volatile(q) == Cardinality({i \in DOMAIN q : q[i].expire # NoTime})
SaveDbs(dbs, i) ==
  IF i > Len(dbs) THEN <<>>
  ELSE (IF dbs[i] = <<>> THEN <<>>
        ELSE <<SelectDb>> \o SaveLen(i - 1) \o <<ResizeDb>> \o SaveLen(Len(dbs[i])) \o SaveLen(Volatile(dbs[i])) \o SaveRecords(dbs[i]))
       \o SaveDbs(dbs, i + 1)

\* rdbSaveRio; the checksum covers what precedes it, 0 stands for none
RECURSIVE Sum(_)
Sum(f) == IF f = <<>> THEN 0 ELSE IF Len(f) = 1 THEN f[1]
          ELSE (Sum(SubSeq(f, 1, Len(f) \div 2)) + (3 * Sum(From(f, (Len(f) \div 2) + 1)))) % (B * B)
Checked(f) == f \o LE(IF s.sc.checksum THEN Sum(f) ELSE 0, 2)
Version == 9
SaveRio(dbs, replid) ==
  Checked(<<Version>> \o (IF replid = <<>> THEN <<>> ELSE <<Aux>> \o SaveString(<<1>>) \o SaveString(replid))
          \o SaveDbs(dbs, 1) \o <<EofCode>>)

\* rdbLoadRio: l is [ok, p, db, expire, idle, dbs, replid]
Fail(l) == [l EXCEPT !.ok = FALSE, !.done = TRUE]
LoadNumber(l, n, set) ==
  IF ~n.ok THEN Fail(l)
  ELSE CASE set = "idle" -> [l EXCEPT !.idle = n.val, !.p = n.p]
         [] set = "skip" -> [l EXCEPT !.p = n.p]
         [] set = "db" -> IF n.val + 1 \notin DOMAIN l.dbs THEN Fail(l) ELSE [l EXCEPT !.db = n.val + 1, !.p = n.p]
LoadExpire(l, r) == IF r.ok THEN [l EXCEPT !.expire = Signed(FromLE(r.val), 2), !.p = r.p] ELSE Fail(l)
LoadAux(l, f, k, v) == IF ~k.ok \/ ~v.ok THEN Fail(l)
                       ELSE IF k.val = <<1>> THEN [l EXCEPT !.replid = v.val, !.p = v.p] ELSE [l EXCEPT !.p = v.p]

\* A key that expired meanwhile is dropped, unless a master decides it
Dead(l) == ~s.sc.replica /\ l.expire # NoTime /\ l.expire < s.sc.now
Added(l, k, v) ==
  IF Dead(l) THEN l
  ELSE [l EXCEPT !.dbs[l.db] = Append(@, [key |-> k, o |-> v, expire |-> l.expire, idle |-> l.idle])]

\* Mutated: the expire of one key is kept for the next
LoadedPairKeeps(l, k, v) ==
  IF ~k.ok \/ ~v.ok THEN Fail(l) ELSE [Added(l, k.val, v.val) EXCEPT !.p = v.p, !.idle = NoTime]

LoadedPair(l, k, v) ==
  IF ~k.ok \/ ~v.ok THEN Fail(l) ELSE [Added(l, k.val, v.val) EXCEPT !.p = v.p, !.expire = NoTime, !.idle = NoTime]

KeyThenObject(l, f, k, type) == IF ~k.ok THEN Fail(l) ELSE LoadedPair(l, k, LoadObject(f, k.p, type))

\* Mutated: the checksum is not looked at
EndedUnchecked(l, f) == IF l.p + 1 > Len(f) THEN Fail(l) ELSE [l EXCEPT !.done = TRUE]

Ended(l, f) ==
  IF l.p + 1 > Len(f) \/ (s.sc.checksum /\ FromLE(SubSeq(f, l.p, l.p + 1)) \notin {0, Sum(SubSeq(f, 1, l.p - 1))}) THEN Fail(l)
  ELSE [l EXCEPT !.done = TRUE]

RECURSIVE LoadLoop(_, _), LoadTwo(_, _, _)
LoadTwo(l, f, n) == IF ~n.ok THEN Fail(l) ELSE LoadLoop(LoadNumber(l, LoadLen(f, n.p), "skip"), f)
LoadOpcode(l, f, type, p) ==
  CASE type = ExpireMs -> LoadLoop(LoadExpire(l, Read(f, p, 2)), f)
    [] type = Idle -> LoadLoop(LoadNumber(l, LoadLen(f, p), "idle"), f)
    [] type = SelectDb -> LoadLoop(LoadNumber(l, LoadLen(f, p), "db"), f)
    [] type = ResizeDb -> LoadTwo(l, f, LoadLen(f, p))
    [] type = Aux -> LET k == LoadString(f, p) IN LoadLoop(LoadAux(l, f, k, LoadString(f, k.p)), f)
    [] type = EofCode -> Ended([l EXCEPT !.p = p], f)
    [] OTHER -> LoadLoop(KeyThenObject(l, f, LoadString(f, p), type), f)
LoadLoop(l, f) == IF l.done THEN l ELSE IF l.p > Len(f) THEN Fail(l) ELSE LoadOpcode(l, f, f[l.p], l.p + 1)

Empty == [ok |-> TRUE, done |-> FALSE, p |-> 2, db |-> 1, expire |-> NoTime, idle |-> NoTime,
          dbs |-> [i \in 1..s.sc.dbnum |-> <<>>], replid |-> <<>>]
LoadRio(f) == IF f = <<>> \/ f[1] \notin 1..Version THEN Fail(Empty) ELSE LoadLoop(Empty, f)

-----------------------------------------------------------------------------
\* rdbSaveRio to the file; a crash may leave a part of it, or a byte of it may
\* change; rdbLoad
Save == s.phase = "run" /\ s' = [s EXCEPT !.phase = "saved", !.file = SaveRio(s.sc.dbs, s.sc.replid)]
Crash == s.phase = "saved" /\ s.fault = "none" /\ \E n \in 0..Len(s.file) - 1 :
           s' = [s EXCEPT !.fault = "cut", !.file = SubSeq(@, 1, n)]
Damage == s.phase = "saved" /\ s.fault = "none" /\ s.sc.checksum /\ \E n \in DOMAIN s.file :
            s' = [s EXCEPT !.fault = "byte", !.file[n] = (@ + 1) % B]
Outcome(l) == [ok |-> l.ok, dbs |-> l.dbs, replid |-> l.replid]
Load == s.phase = "saved" /\ s' = [s EXCEPT !.phase = "loaded", !.file = <<>>, !.loaded = Outcome(LoadRio(s.file))]

Init == \E sc \in Scenarios : s = [sc |-> sc, phase |-> "run", fault |-> "none", file |-> <<>>, loaded |-> <<>>]
Next == Save \/ Crash \/ Damage \/ Load
Spec == Init /\ [][Next]_s

-----------------------------------------------------------------------------
Range(q) == {q[i] : i \in DOMAIN q}
RECURSIVE Flat(_)
Flat(nodes) == IF nodes = <<>> THEN <<>> ELSE nodes[1].q \o Flat(Tail(nodes))
\* What a client can tell of an object
Content(o) == CASE o.type = "string" -> IF o.enc = "int" THEN Numeral(o.val) ELSE o.val
                [] o.type = "list" -> Flat(o.val)
                [] OTHER -> Range(o.val)
SameRecord(r, e) == /\ r.key = e.key /\ r.expire = e.expire /\ r.idle = e.idle
                    /\ r.o.type = e.o.type /\ Content(r.o) = Content(e.o)
Alive(r) == s.sc.replica \/ r.expire = NoTime \/ r.expire >= s.sc.now

Faithful ==
  /\ s.loaded.replid = s.sc.replid
  /\ \A i \in 1..s.sc.dbnum :
       LET was == IF i \in DOMAIN s.sc.dbs THEN SelectSeq(s.sc.dbs[i], Alive) ELSE <<>>
           is == s.loaded.dbs[i]
       IN /\ Len(is) = Len(was) /\ \A j \in DOMAIN was : \E k \in DOMAIN is : SameRecord(is[k], was[j])
          /\ \A k \in DOMAIN is : is[k].o.enc \in {"intset", "ziplist"} => Len(is[k].o.val) <= s.sc.maxEntries

\* What is loaded is what was saved, but for the keys whose time is over: the
\* same content in every database, each key with its own expire and idle time,
\* in an encoding that the limits of the loading server allow (rdbSaveRio,
\* rdbLoadRio, rdbLoadObject).
LoadsWhatWasSaved == s.phase = "loaded" /\ s.fault = "none" => s.loaded.ok /\ Faithful

\* A file that a crash cut short is not taken for a snapshot, nor is one with a
\* wrong byte, unless that byte turned the checksum off (rdbLoadRio).
DamageDetected == s.phase = "loaded" /\ s.loaded.ok => s.fault # "cut" /\ Faithful

\* Every string comes back as it was, however it was stored, whatever the table
\* of lzf_compress held (rdbSaveRawString, rdbGenericLoadStringObject, lzf).
StringsExact ==
  s.sc.strings # {} =>
    /\ \A t \in s.sc.strings : LoadString(SaveString(t), 1) = Got(t, Len(SaveString(t)) + 1)
    /\ \A n \in s.sc.numbers :
         /\ LoadString(SaveInteger(n), 1) = Got(Numeral(n), Len(SaveInteger(n)) + 1)
         /\ n >= 0 => LoadLen(SaveLen(n), 1) = Size(n, FALSE, Len(SaveLen(n)) + 1)
=============================================================================
