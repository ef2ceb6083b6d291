---------------------------- MODULE HyperLogLog ----------------------------
(***************************************************************************)
(* hyperloglog.c: PFADD, PFCOUNT and PFMERGE over the two representations  *)
(* of the registers, runs of equal registers (sparse) and six bits per     *)
(* register in an array of bytes (dense).  An element is its hash.  The    *)
(* estimate is a function of the histogram of the registers; the model     *)
(* answers with the histogram.                                             *)
(***************************************************************************)
EXTENDS Integers, Sequences, FiniteSets

CONSTANTS P, Q,        \* HLL_P and HLL_Q: bits of the index and of the pattern
          ValMax,      \* HLL_SPARSE_VAL_MAX_VALUE
          ValLen,      \* HLL_SPARSE_VAL_MAX_LEN
          ZeroLen,     \* HLL_SPARSE_ZERO_MAX_LEN
          XZeroLen,    \* HLL_SPARSE_XZERO_MAX_LEN
          MaxBytes,    \* hll_sparse_max_bytes
          Scenarios    \* [keys, db, elements]

VARIABLE s

Registers == 2^P
HdrSize == 16
Indexes == 0..(Registers - 1)
From(q, i) == SubSeq(q, i, Len(q))

\* hllPatLen: the register of a hash, and its zeros up to the first one, with a
\* one added after the last bit
RECURSIVE Zeros(_)
Zeros(h) == IF h % 2 = 1 THEN 0 ELSE 1 + Zeros(h \div 2)
IndexOf(hash) == hash % Registers
CountOf(hash) == 1 + Zeros(2^Q + hash \div Registers)

-----------------------------------------------------------------------------
(* Dense: HLL_DENSE_GET_REGISTER and HLL_DENSE_SET_REGISTER.  The last byte *)
(* is the terminator of the string.                                         *)

Byte(r) == (r * 6) \div 8
Shift(r) == (r * 6) % 8

DenseGet(d, r) == (d[Byte(r) + 1] \div 2^Shift(r) + d[Byte(r) + 2] * 2^(8 - Shift(r))) % 64

\* A byte of which the n bits from bit k on are replaced by v
Splice(byte, k, n, v) == (byte % 2^k) + (v % 2^n) * 2^k + (byte \div 2^(k + n)) * 2^(k + n)

\* Mutated: the part of a register in the next byte is not written
DenseSetHalf(d, r, v) ==
  LET low == IF 8 - Shift(r) < 6 THEN 8 - Shift(r) ELSE 6
  IN [d EXCEPT ![Byte(r) + 1] = Splice(@, Shift(r), low, v)]

DenseSet(d, r, v) ==
  LET low == IF 8 - Shift(r) < 6 THEN 8 - Shift(r) ELSE 6
  IN [d EXCEPT ![Byte(r) + 1] = Splice(@, Shift(r), low, v),
               ![Byte(r) + 2] = Splice(@, 0, 6 - low, v \div 2^low)]

NewDense == [i \in 1..((Registers * 6 + 7) \div 8 + 1) |-> 0]

-----------------------------------------------------------------------------
(* Sparse: runs of zeros, short or long, and of values. *)

Run(val, len) == [val |-> val, len |-> len, long |-> FALSE]
ZeroRun(len) == [val |-> 0, len |-> len, long |-> len > ZeroLen]
OpLen(op) == IF op.long THEN 2 ELSE 1

SizeOf(q) == LET S[i \in 0..Len(q)] == IF i = 0 THEN 0 ELSE S[i - 1] + OpLen(q[i]) IN S[Len(q)]
Span(q) == LET S[i \in 0..Len(q)] == IF i = 0 THEN 0 ELSE S[i - 1] + q[i].len IN S[Len(q)]

\* createHLLObject
RECURSIVE ZerosFor(_)
ZerosFor(n) == IF n = 0 THEN <<>>
               ELSE IF n > XZeroLen THEN <<[val |-> 0, len |-> XZeroLen, long |-> TRUE]>> \o ZerosFor(n - XZeroLen)
               ELSE <<[val |-> 0, len |-> n, long |-> TRUE]>>

Empty == Run(0, 0)                        \* a cached cardinality that is not valid
Absent == [enc |-> "none", ops |-> <<>>, bytes |-> <<>>, card |-> Empty]
CardOfNew == [v \in 0..(Q + 1) |-> IF v = 0 THEN Registers ELSE 0]
NewHll == [enc |-> "sparse", ops |-> ZerosFor(Registers), bytes |-> <<>>, card |-> CardOfNew]
IsHll(o) == o.enc \in {"sparse", "dense"}

\* The run that holds a register, and the register it begins at
RECURSIVE Locate(_, _, _, _)
Locate(q, i, first, index) == IF index <= first + q[i].len - 1 THEN [at |-> i, first |-> first]
                              ELSE Locate(q, i + 1, first + q[i].len, index)

RegisterOf(o, r) == IF o.enc = "dense" THEN DenseGet(o.bytes, r) ELSE o.ops[Locate(o.ops, 1, 0, r).at].val

\* hllSparseToDense
RECURSIVE Unroll(_, _, _)
Unroll(d, o, r) == IF r = Registers THEN d
                   ELSE Unroll(IF RegisterOf(o, r) = 0 THEN d ELSE DenseSet(d, r, RegisterOf(o, r)), o, r + 1)

ToDense(o) == IF o.enc = "dense" THEN o
              ELSE [enc |-> "dense", ops |-> <<>>, bytes |-> Unroll(<<>> \o NewDense, o, 0), card |-> o.card]

\* hllDenseSet, which leaves the cached cardinality to its callers
DensePut(o, r, count) ==
  IF count > DenseGet(o.bytes, r) THEN [o |-> [o EXCEPT !.bytes = DenseSet(@, r, count)], ret |-> 1]
  ELSE [o |-> o, ret |-> 0]

Promote(o, r, count) == DensePut(ToDense(o), r, count)

\* The run at l replaced by up to three
Part(op, len) == IF len = 0 THEN <<>> ELSE IF op.val = 0 THEN <<ZeroRun(len)>> ELSE <<Run(op.val, len)>>

Broken(op, first, r, count) == Part(op, r - first) \o <<Run(count, 1)>> \o Part(op, first + op.len - 1 - r)

\* Equal values side by side become one run, over five runs from p
RECURSIVE MergeRuns(_, _, _)
MergeRuns(q, p, scan) ==
  IF p > Len(q) \/ scan = 0 THEN q
  ELSE IF /\ p < Len(q) /\ q[p].val # 0 /\ q[p].val = q[p + 1].val
          /\ q[p].len + q[p + 1].len <= ValLen
  THEN MergeRuns(SubSeq(q, 1, p - 1) \o <<Run(q[p].val, q[p].len + q[p + 1].len)>> \o From(q, p + 2), p, scan - 1)
  ELSE MergeRuns(q, p + 1, scan - 1)

Updated(o, q, at) ==
  [o |-> [o EXCEPT !.ops = MergeRuns(q, IF at > 1 THEN at - 1 ELSE 1, 5), !.card = Empty], ret |-> 1]

\* hllSparseSet
SparseInto(o, op, l, r, count) ==
  LET new == IF op.len = 1 /\ ~op.long THEN <<Run(count, 1)>> ELSE Broken(op, l.first, r, count)
      delta == SizeOf(new) - OpLen(op)
  IN IF op.val >= count THEN [o |-> o, ret |-> 0]
     ELSE IF delta > 0 /\ HdrSize + SizeOf(o.ops) + delta > MaxBytes THEN Promote(o, r, count)
     ELSE Updated(o, SubSeq(o.ops, 1, l.at - 1) \o new \o From(o.ops, l.at + 1), l.at)

SparseAt(o, l, r, count) == SparseInto(o, o.ops[l.at], l, r, count)

SparsePut(o, r, count) == IF count > ValMax THEN Promote(o, r, count)
                          ELSE SparseAt(o, Locate(o.ops, 1, 0, r), r, count)

PutRegister(o, r, count) == IF o.enc = "dense" THEN DensePut(o, r, count) ELSE SparsePut(o, r, count)

-----------------------------------------------------------------------------
(* hllMerge, and the histogram that hllCount works from. *)

MergeMax(max, o) == [r \in Indexes |-> IF RegisterOf(o, r) > max[r] THEN RegisterOf(o, r) ELSE max[r]]

HistoOf(reg) == [v \in 0..(Q + 1) |-> Cardinality({r \in Indexes : reg[r] = v})]

\* hllSparseRegHisto adds the lengths of the runs
SparseHisto(q) ==
  [v \in 0..(Q + 1) |-> Span(SelectSeq(q, LAMBDA op : op.val = v))]

Histo(o) == IF o.enc = "sparse" THEN SparseHisto(o.ops) ELSE HistoOf([r \in Indexes |-> DenseGet(o.bytes, r)])

-----------------------------------------------------------------------------
(* Commands.  want holds the registers of the elements added to each key;   *)
(* rep those of a replica, which executes the commands that were dirty.     *)

Zero == [r \in Indexes |-> 0]
Join(a, b) == [r \in Indexes |-> IF a[r] > b[r] THEN a[r] ELSE b[r]]
Of(hash) == [r \in Indexes |-> IF r = IndexOf(hash) THEN CountOf(hash) ELSE 0]

Done(k, o, dirty, want, ok) ==
  s' = [s EXCEPT !.db[k] = o, !.want[k] = want, !.rep[k] = IF dirty THEN want ELSE @, !.ok = ok]

Refused == UNCHANGED s

\* pfaddCommand
PutHash(o, hash) == PutRegister(o, IndexOf(hash), CountOf(hash))

PfaddOne(k, new, first, ok) ==
  LET updated == new \/ first.ret = 1
  IN Done(k, IF updated THEN [first.o EXCEPT !.card = Empty] ELSE first.o, updated, ok.want, updated = ok.changed)

Pfadd ==
  \E k \in s.sc.keys, hash \in s.sc.elements :
    LET o == IF s.db[k].enc = "none" THEN NewHll ELSE s.db[k]
        want == Join(s.want[k], Of(hash))
    IN IF ~IsHll(o) THEN Refused
       ELSE PfaddOne(k, s.db[k].enc = "none", PutHash(o, hash),
                     [want |-> want, changed |-> s.db[k].enc = "none" \/ want # s.want[k]])

\* pfcountCommand of one key, which stores what it computes
Pfcount ==
  \E k \in s.sc.keys :
    LET o == s.db[k]
    IN IF ~IsHll(o) THEN Refused
       ELSE IF o.card # Empty THEN Done(k, o, FALSE, s.want[k], o.card = HistoOf(s.want[k]))
       ELSE Done(k, [o EXCEPT !.card = Histo(o)], TRUE, s.want[k], Histo(o) = HistoOf(s.want[k]))

\* pfcountCommand of several keys
Merged(a, b) == MergeMax(IF IsHll(a) THEN MergeMax(Zero, a) ELSE Zero, b)

PfcountAll ==
  \E k, l \in s.sc.keys :
    IF ~IsHll(s.db[l]) \/ s.db[k].enc = "str" THEN Refused
    ELSE Done(k, s.db[k], FALSE, s.want[k],
              HistoOf(Merged(s.db[k], s.db[l])) = HistoOf(Join(s.want[k], s.want[l])))

\* pfmergeCommand
RECURSIVE PutAll(_, _, _)
PutAll(o, max, r) == IF r = Registers THEN o
                     ELSE PutAll(IF max[r] = 0 THEN o ELSE PutRegister(o, r, max[r]).o, max, r + 1)

\* Mutated: the cached cardinality of the destination stays
PfmergeCached ==
  \E k, l \in s.sc.keys :
    LET o == IF s.db[k].enc = "none" THEN NewHll ELSE s.db[k]
        dense == "dense" \in {s.db[k].enc, s.db[l].enc}
    IN IF ~IsHll(s.db[l]) \/ ~IsHll(o) THEN Refused
       ELSE Done(k, PutAll(IF dense THEN ToDense(o) ELSE o, Merged(s.db[k], s.db[l]), 0),
                 TRUE, Join(s.want[k], s.want[l]), TRUE)

Pfmerge ==
  \E k, l \in s.sc.keys :
    LET o == IF s.db[k].enc = "none" THEN NewHll ELSE s.db[k]
        dense == "dense" \in {s.db[k].enc, s.db[l].enc}
    IN IF ~IsHll(s.db[l]) \/ ~IsHll(o) THEN Refused
       ELSE Done(k, [PutAll(IF dense THEN ToDense(o) ELSE o, Merged(s.db[k], s.db[l]), 0) EXCEPT !.card = Empty],
                 TRUE, Join(s.want[k], s.want[l]), TRUE)

Init == \E sc \in Scenarios :
          s = [sc |-> sc, db |-> sc.db, want |-> [k \in sc.keys |-> Zero],
               rep |-> [k \in sc.keys |-> Zero], ok |-> TRUE]

Next == Pfadd \/ Pfcount \/ PfcountAll \/ Pfmerge

Spec == Init /\ [][Next]_s

-----------------------------------------------------------------------------
(* Properties. *)

\* Whatever runs were broken, merged or unrolled to bytes, every register is
\* the maximum of what was added, on the replica too, and the runs cover every
\* register once (hyperloglog.c, hllSparseSet, hllMerge).
RegistersExact ==
  \A k \in s.sc.keys :
    LET o == s.db[k]
    IN /\ s.rep[k] = s.want[k]
       /\ IsHll(o) => \A r \in Indexes : RegisterOf(o, r) = s.want[k][r]
       /\ o.enc = "sparse" => Span(o.ops) = Registers /\ HdrSize + SizeOf(o.ops) <= MaxBytes
       /\ o.enc = "dense" => o.bytes[Len(o.bytes)] = 0

\* A cached cardinality is that of the registers as they are, and the replies
\* are those of the elements added (hyperloglog.c, HLL_VALID_CACHE).
CountsExact ==
  /\ s.ok
  /\ \A k \in s.sc.keys : IsHll(s.db[k]) /\ s.db[k].card # Empty => s.db[k].card = HistoOf(s.want[k])
=============================================================================
