----------------------- MODULE RuntimeRecorderProofs -----------------------
(***************************************************************************)
(* Proofs about RuntimeRecorder, for any number of processes, receipts,    *)
(* faults and crashes, whatever the callers offer.                         *)
(***************************************************************************)
EXTENDS RuntimeRecorder, TLAPS

-----------------------------------------------------------------------------
(* Sequences *)

LEMMA SequenceMeans ==
  ASSUME NEW s, IsSequence(s)
  PROVE  /\ Len(s) \in Nat /\ DOMAIN s = 1 .. Len(s) /\ s \in Seq(ToSet(s))
         /\ (s = <<>>) <=> (Len(s) = 0)
         /\ \A e : e \in ToSet(s) <=> \E i \in 1 .. Len(s) : s[i] = e
BY DEF IsSequence, ToSet

LEMMA AppendMeans ==
  ASSUME NEW s, IsSequence(s), NEW e
  PROVE  /\ IsSequence(Append(s, e)) /\ Len(Append(s, e)) = Len(s) + 1 /\ Append(s, e) # <<>>
         /\ \A i \in 1 .. Len(s) : Append(s, e)[i] = s[i]
         /\ Append(s, e)[Len(s) + 1] = e /\ HeadOf(Append(s, e)) = e
         /\ ToSet(Append(s, e)) = ToSet(s) \cup {e}
<1> DEFINE t == Append(s, e)
<1>1. Len(s) \in Nat /\ DOMAIN s = 1 .. Len(s) /\ s \in Seq(ToSet(s))
  BY SequenceMeans
<1>2. s \in Seq(ToSet(s) \cup {e})
  BY <1>1
<1>3. /\ t \in Seq(ToSet(s) \cup {e}) /\ Len(t) = Len(s) + 1
      /\ \A i \in 1 .. Len(s) : t[i] = s[i]
      /\ t[Len(s) + 1] = e /\ DOMAIN t = 1 .. Len(s) + 1
  BY <1>1, <1>2
<1> HIDE DEF t
<1>4. ToSet(t) = ToSet(s) \cup {e}
  BY <1>1, <1>3 DEF ToSet
<1>5. IsSequence(t) /\ t # <<>> /\ HeadOf(t) = e
  BY <1>1, <1>3, <1>4 DEF IsSequence, HeadOf
<1> QED BY <1>3, <1>4, <1>5 DEF t

LEMMA CutMeans ==
  ASSUME NEW s, IsSequence(s), NEW n \in 0 .. Len(s)
  PROVE  /\ IsSequence(SubSeq(s, 1, n)) /\ Len(SubSeq(s, 1, n)) = n
         /\ \A i \in 1 .. n : SubSeq(s, 1, n)[i] = s[i]
         /\ ToSet(SubSeq(s, 1, n)) \subseteq ToSet(s)
         /\ \A m \in 0 .. n : /\ SubSeq(SubSeq(s, 1, n), 1, m) = SubSeq(s, 1, m)
                              /\ ToSet(SubSeq(s, 1, m)) \subseteq ToSet(SubSeq(s, 1, n))
<1> DEFINE t(k) == SubSeq(s, 1, k)
<1>1. Len(s) \in Nat /\ DOMAIN s = 1 .. Len(s) /\ s \in Seq(ToSet(s))
  BY SequenceMeans
<1>2. \A k \in 0 .. Len(s) : /\ Len(t(k)) = k /\ DOMAIN t(k) = 1 .. k
                             /\ \A i \in 1 .. k : t(k)[i] = s[i]
                             /\ t(k) = [i \in 1 .. k |-> s[i]]
  BY <1>1
<1>3. \A k \in 0 .. Len(s) : ToSet(t(k)) = {s[i] : i \in 1 .. k}
  <2> TAKE k \in 0 .. Len(s)
  <2>1. DOMAIN t(k) = 1 .. k /\ \A i \in 1 .. k : t(k)[i] = s[i]
    BY <1>2
  <2> HIDE DEF t
  <2> QED BY <2>1 DEF ToSet
<1>4. \A k \in 0 .. Len(s) : t(k) \in Seq(ToSet(t(k)))
  <2> TAKE k \in 0 .. Len(s)
  <2>1. t(k) = [i \in 1 .. k |-> s[i]] /\ k \in Nat /\ ToSet(t(k)) = {s[i] : i \in 1 .. k}
    BY <1>1, <1>2, <1>3
  <2> HIDE DEF t
  <2>2. t(k) \in [1 .. k -> ToSet(t(k))]
    BY <2>1
  <2> QED BY <2>1, <2>2
<1>5. ASSUME NEW m \in 0 .. n PROVE SubSeq(t(n), 1, m) = t(m)
  <2>1. t(n) \in Seq(ToSet(t(n))) /\ Len(t(n)) = n
    BY <1>2, <1>4
  <2>2. SubSeq(t(n), 1, m) = [i \in 1 .. m |-> t(n)[i]]
    BY <1>1, <2>1
  <2>3. \A i \in 1 .. m : t(n)[i] = s[i]
    BY <1>1, <1>2
  <2>4. m \in 0 .. Len(s)
    BY <1>1
  <2> QED BY <1>2, <2>2, <2>3, <2>4
<1>6. \A m \in 0 .. n : m \in 0 .. Len(s) /\ 1 .. m \subseteq 1 .. n /\ 1 .. n \subseteq 1 .. Len(s)
  BY <1>1
<1> HIDE DEF t
<1>7. ToSet(t(n)) \subseteq ToSet(s) /\ \A m \in 0 .. n : ToSet(t(m)) \subseteq ToSet(t(n))
  <2>1. ToSet(s) = {s[i] : i \in 1 .. Len(s)}
    BY <1>1 DEF ToSet
  <2>2. n \in 0 .. n
    BY <1>1
  <2> QED BY <1>3, <1>6, <2>1, <2>2
<1> QED BY <1>2, <1>4, <1>5, <1>7 DEF t, IsSequence

LEMMA SequencesEqual ==
  ASSUME NEW s, IsSequence(s), NEW t, IsSequence(t), Len(s) = Len(t),
         \A i \in 1 .. Len(s) : s[i] = t[i]
  PROVE  s = t
<1>1. s = [i \in 1 .. Len(s) |-> s[i]] /\ t = [i \in 1 .. Len(t) |-> t[i]]
  BY SequenceMeans
<1> QED BY <1>1

-----------------------------------------------------------------------------
(* Chains of receipts *)

\* A prefix of a lawful chain is lawful.
LEMMA PrefixClosed ==
  ASSUME NEW h, NEW rs, IsSequence(rs), NEW n \in 0 .. Len(rs), PrefixVerifies(h, rs, FALSE)
  PROVE  PrefixVerifies(h, SubSeq(rs, 1, n), FALSE)
<1> DEFINE t == SubSeq(rs, 1, n)
<1>1. /\ Len(t) = n /\ DOMAIN t = 1 .. n /\ DOMAIN rs = 1 .. Len(rs) /\ Len(rs) \in Nat
      /\ \A i \in 1 .. n : t[i] = rs[i]
      /\ \A m \in 0 .. n : SubSeq(t, 1, m) = SubSeq(rs, 1, m)
  BY CutMeans, SequenceMeans
<1>2. ASSUME NEW i \in 1 .. n PROVE ReceiptFollows(h, t, i)
  <2>1. ReceiptFollows(h, rs, i)
    BY <1>1 DEF PrefixVerifies
  <2>2. t[i] = rs[i] /\ (i > 1 => t[i - 1] = rs[i - 1]) /\ SubSeq(t, 1, i - 1) = SubSeq(rs, 1, i - 1)
    BY <1>1
  <2> HIDE DEF t
  <2>3. (i = 1 /\ ~(i > 1)) \/ (i # 1 /\ i > 1)
    BY <1>1
  <2> QED BY <2>1, <2>2, <2>3 DEF ReceiptFollows
<1> HIDE DEF t
<1>3. PrefixVerifies(h, t, FALSE)
  BY <1>1, <1>2 DEF PrefixVerifies
<1> QED BY <1>3 DEF t

\* The last receipt of a lawful chain carries its place.
LEMMA ChainIsNumbered ==
  ASSUME NEW h, NEW rs, IsSequence(rs), NEW r, PrefixVerifies(h, Append(rs, r), FALSE)
  PROVE  r.sequence = Len(rs) /\ PrefixVerifies(h, rs, FALSE)
<1> DEFINE t == Append(rs, r)
<1>1. /\ IsSequence(t) /\ Len(t) = Len(rs) + 1 /\ t[Len(rs) + 1] = r /\ Len(rs) \in Nat
      /\ \A i \in 1 .. Len(rs) : t[i] = rs[i]
      /\ DOMAIN t = 1 .. Len(t)
  BY AppendMeans, SequenceMeans
<1> HIDE DEF t
<1>2. ReceiptFollows(h, t, Len(rs) + 1)
  BY <1>1 DEF PrefixVerifies, t
<1>3. r.sequence = Len(rs)
  BY <1>1, <1>2 DEF ReceiptFollows
<1>4. PrefixVerifies(h, SubSeq(t, 1, Len(rs)), FALSE)
  <2>1. Len(rs) \in 0 .. Len(t)
    BY <1>1
  <2>2. PrefixVerifies(h, t, FALSE)
    BY DEF t
  <2> QED BY <1>1, <2>1, <2>2, PrefixClosed
<1>5. SubSeq(t, 1, Len(rs)) = rs
  <2>1. Len(rs) \in 0 .. Len(t)
    BY <1>1
  <2>2. /\ IsSequence(SubSeq(t, 1, Len(rs))) /\ Len(SubSeq(t, 1, Len(rs))) = Len(rs)
        /\ \A i \in 1 .. Len(rs) : SubSeq(t, 1, Len(rs))[i] = t[i]
    BY <1>1, <2>1, CutMeans
  <2> QED BY <1>1, <2>2, SequencesEqual
<1> QED BY <1>3, <1>4, <1>5

-----------------------------------------------------------------------------
(* What the actions are *)

\* The recorder of p becomes this one, and no other changes.
Moves(p, stage, receipts, candidate) ==
  /\ DOMAIN holder' = Process
  /\ holder'[p] = Recorder(stage, receipts, candidate)
  /\ \A q \in Process : q # p => holder'[q] = holder[q]

LEMMA RecorderMeans ==
  ASSUME NEW stage, NEW receipts, NEW candidate
  PROVE  LET r == Recorder(stage, receipts, candidate) IN
         r.stage = stage /\ r.receipts = receipts /\ r.candidate = candidate
BY DEF Recorder

LEMMA MovesLive ==
  ASSUME TypeOK, NEW p \in Process, NEW stage, NEW receipts, NEW candidate,
         Moves(p, stage, receipts, candidate)
  PROVE  /\ \A q \in Process : q # p => (q \in Live' <=> q \in Live)
         /\ p \in Live' <=> stage \notin {"none", "finalized", "gone"}
         /\ holder'[p].stage = stage /\ holder'[p].receipts = receipts
         /\ holder'[p].candidate = candidate
BY DEF Moves, Live, Recorder

LEMMA WriteMeans ==
  ASSUME TypeOK, NEW p \in Process, Write(p)
  PROVE  \E r :
           /\ p \in Live /\ holder[p].stage = "idle"
           /\ Moves(p, "written", holder[p].receipts, Append(holder[p].receipts, r))
           /\ \/ holder[p].receipts = <<>>
              \/ ~IsTerminal(HeadOf(holder[p].receipts))
           /\ r.sequence = Len(holder[p].receipts)
           /\ PrefixVerifies(Header, Append(holder[p].receipts, r), FALSE)
           /\ journal' = WithLine(r)
           /\ UNCHANGED <<synced, entry, bundle, counted, composed>>
           /\ cut' \in BOOLEAN /\ mishaps \subseteq mishaps' /\ (Sure' => ~cut')
           /\ mishaps' \subseteq mishaps \cup {"short write"}
<1> DEFINE rs == holder[p].receipts
<1>1. PICK body \in Offers(rs), stamp \in Stamps, o \in Occurrence :
         /\ Admissible(Append(rs, Receipt(rs, body, stamp, o)))
         /\ holder' = [holder EXCEPT ![p].stage = "written",
                         ![p].candidate = Append(rs, Receipt(rs, body, stamp, o))]
         /\ journal' = WithLine(Receipt(rs, body, stamp, o))
  BY Zenon DEF Write
<1> DEFINE r == Receipt(rs, body, stamp, o)
<1>2. r.sequence = Len(rs)
  BY DEF Receipt
<1> HIDE DEF r
<1>3. holder[p] = Recorder(holder[p].stage, rs, holder[p].candidate) /\ DOMAIN holder = Process
  BY DEF TypeOK
<1>4. holder' = [holder EXCEPT ![p].stage = "written", ![p].candidate = Append(rs, r)]
  BY <1>1 DEF r
<1>5. Moves(p, "written", rs, Append(rs, r))
  BY <1>3, <1>4 DEF Moves, Recorder
<1>6. /\ holder[p].stage = "idle" /\ p \in Live
      /\ rs = <<>> \/ ~IsTerminal(HeadOf(rs))
      /\ UNCHANGED <<synced, entry, bundle, counted, composed>>
  BY DEF Write, Live
<1>7. \/ cut' = FALSE /\ mishaps' = mishaps
      \/ cut' = TRUE /\ mishaps' = mishaps \cup {"short write"}
  BY DEF Write
<1>8. cut' \in BOOLEAN /\ mishaps \subseteq mishaps' /\ (Sure' => ~cut')
      /\ mishaps' \subseteq mishaps \cup {"short write"}
  BY <1>7 DEF Sure
<1>9. PrefixVerifies(Header, Append(rs, r), FALSE) /\ journal' = WithLine(r)
  BY <1>1 DEF r, Admissible, PrefixVerifies
<1> QED BY <1>2, <1>5, <1>6, <1>8, <1>9

LEMMA SyncMeans ==
  ASSUME TypeOK, NEW p \in Process, Sync(p)
  PROVE  /\ p \in Live /\ holder[p].stage = "written"
         /\ UNCHANGED <<journal, cut, entry, bundle, composed>>
         /\ \/ /\ synced' = Len(journal) /\ mishaps' = mishaps
               /\ Moves(p, "idle", holder[p].candidate, <<>>)
               /\ counted' = counted \cup {HeadOf(holder[p].candidate)}
            \/ /\ mishaps' = mishaps \cup {"failed sync"} /\ UNCHANGED <<synced, counted>>
               /\ Moves(p, "idle", holder[p].receipts, <<>>)
<1>1. holder[p] = Recorder(holder[p].stage, holder[p].receipts, holder[p].candidate)
      /\ DOMAIN holder = Process
  BY DEF TypeOK
<1>2. CASE /\ synced' = Flushed(p)
           /\ holder' = [holder EXCEPT ![p] = Recorder("idle", @.candidate, <<>>)]
           /\ counted' = counted \cup {HeadOf(holder[p].candidate)}
           /\ UNCHANGED <<mishaps, faults>>
  <2>1. Moves(p, "idle", holder[p].candidate, <<>>)
    BY <1>1, <1>2 DEF Moves
  <2> QED BY <1>2, <2>1 DEF Sync, Flushed, Live
<1>3. CASE /\ mishaps' = mishaps \cup {"failed sync"}
           /\ holder' = [holder EXCEPT ![p].stage = "idle", ![p].candidate = <<>>]
           /\ UNCHANGED <<synced, counted>>
  <2>1. Moves(p, "idle", holder[p].receipts, <<>>)
    BY <1>1, <1>3 DEF Moves, Recorder
  <2> QED BY <1>3, <2>1 DEF Sync, Live
<1> QED BY <1>2, <1>3 DEF Sync

\* The steps of a holder other than append: it appears, publishes or ends.
LEMMA OthersMean ==
  ASSUME TypeOK, NEW p \in Process
  PROVE  /\ Construct(p) =>
              /\ holder[p].stage = "none" /\ entry = "absent"
              /\ \/ entry' = "volatile" /\ Moves(p, "idle", holder[p].receipts, holder[p].candidate)
                 \/ entry' = "lost" /\ Moves(p, "gone", holder[p].receipts, holder[p].candidate)
              /\ UNCHANGED <<journal, cut, synced, bundle, counted, composed, mishaps>>
         /\ Recover(p) =>
              /\ holder[p].stage = "none" /\ entry \notin {"absent", "lost"}
              /\ bundle = None /\ ~cut /\ Clean(journal)
              /\ Moves(p, "idle", journal, <<>>)
              /\ mishaps \subseteq mishaps' /\ mishaps' \subseteq mishaps \cup {"overlap"}
              /\ Live # {} => "overlap" \in mishaps'
              /\ UNCHANGED <<fileVars, counted, composed>>
         /\ Finalize(p) =>
              /\ p \in Live /\ holder[p].stage = "idle"
              /\ holder[p].receipts # <<>> /\ IsTerminal(HeadOf(holder[p].receipts))
              /\ \E at \in Times : bundle' = BundleOf(holder[p].receipts, at)
              /\ Moves(p, "renamed", holder[p].receipts, holder[p].candidate)
              /\ UNCHANGED <<journal, cut, synced, entry, counted, composed, mishaps>>
         /\ SyncDirectory(p) =>
              /\ p \in Live /\ holder[p].stage = "renamed"
              /\ \/ /\ entry' = "durable" /\ UNCHANGED mishaps
                    /\ Moves(p, "finalized", holder[p].receipts, holder[p].candidate)
                 \/ /\ mishaps' = mishaps \cup {"failed directory sync"} /\ UNCHANGED entry
                    /\ Moves(p, "idle", holder[p].receipts, holder[p].candidate)
              /\ UNCHANGED <<journal, cut, synced, bundle, counted, composed>>
         /\ Crash(p) =>
              /\ p \in Live /\ Moves(p, "gone", <<>>, <<>>)
              /\ UNCHANGED <<fileVars, counted, composed, mishaps>>
<1>1. holder[p] = Recorder(holder[p].stage, holder[p].receipts, holder[p].candidate)
      /\ DOMAIN holder = Process
  BY DEF TypeOK
<1>2. ASSUME NEW stage, holder' = [holder EXCEPT ![p].stage = stage]
      PROVE  Moves(p, stage, holder[p].receipts, holder[p].candidate)
  BY <1>1, <1>2 DEF Moves, Recorder
<1>3. ASSUME NEW rs, NEW stage, holder' = [holder EXCEPT ![p] = Recorder(stage, rs, <<>>)]
      PROVE  Moves(p, stage, rs, <<>>)
  BY <1>1, <1>3 DEF Moves
<1>4. ASSUME Construct(p)
      PROVE  /\ holder[p].stage = "none" /\ entry = "absent"
             /\ \/ entry' = "volatile" /\ Moves(p, "idle", holder[p].receipts, holder[p].candidate)
                \/ entry' = "lost" /\ Moves(p, "gone", holder[p].receipts, holder[p].candidate)
             /\ UNCHANGED <<journal, cut, synced, bundle, counted, composed, mishaps>>
  BY <1>2, <1>4 DEF Construct
<1>5. ASSUME Recover(p)
      PROVE  /\ holder[p].stage = "none" /\ entry \notin {"absent", "lost"}
             /\ bundle = None /\ ~cut /\ Clean(journal)
             /\ Moves(p, "idle", journal, <<>>)
             /\ mishaps \subseteq mishaps' /\ mishaps' \subseteq mishaps \cup {"overlap"}
             /\ Live # {} => "overlap" \in mishaps'
             /\ UNCHANGED <<fileVars, counted, composed>>
  BY <1>3, <1>5 DEF Recover, Clean, Unfinalized
<1>6. ASSUME Finalize(p)
      PROVE  /\ p \in Live /\ holder[p].stage = "idle"
             /\ holder[p].receipts # <<>> /\ IsTerminal(HeadOf(holder[p].receipts))
             /\ \E at \in Times : bundle' = BundleOf(holder[p].receipts, at)
             /\ Moves(p, "renamed", holder[p].receipts, holder[p].candidate)
             /\ UNCHANGED <<journal, cut, synced, entry, counted, composed, mishaps>>
  BY <1>2, <1>6 DEF Finalize, Live
<1>7. ASSUME SyncDirectory(p)
      PROVE  /\ p \in Live /\ holder[p].stage = "renamed"
             /\ \/ /\ entry' = "durable" /\ UNCHANGED mishaps
                   /\ Moves(p, "finalized", holder[p].receipts, holder[p].candidate)
                \/ /\ mishaps' = mishaps \cup {"failed directory sync"} /\ UNCHANGED entry
                   /\ Moves(p, "idle", holder[p].receipts, holder[p].candidate)
             /\ UNCHANGED <<journal, cut, synced, bundle, counted, composed>>
  BY <1>2, <1>7 DEF SyncDirectory, Live
<1>8. ASSUME Crash(p)
      PROVE  /\ p \in Live /\ Moves(p, "gone", <<>>, <<>>)
             /\ UNCHANGED <<fileVars, counted, composed, mishaps>>
  BY <1>3, <1>8 DEF Crash
<1> QED BY <1>4, <1>5, <1>6, <1>7, <1>8

\* The host loses power: no process holds a journal after it.
LEMMA HostCrashMeans ==
  ASSUME TypeOK, HostCrash \/ HostCrashLosesBundle
  PROVE  /\ Live # {} /\ Live' = {} /\ DOMAIN holder' = Process
         /\ \A p \in Process : holder'[p] \in {holder[p], Recorder("gone", <<>>, <<>>)}
         /\ UNCHANGED <<counted, composed>>
<1>1. /\ Live # {} /\ UNCHANGED <<counted, composed>>
      /\ holder' = [p \in Process |-> IF holder[p].stage = "none" THEN holder[p]
                                      ELSE Recorder("gone", <<>>, <<>>)]
  BY DEF HostCrash, HostCrashLosesBundle
<1> QED BY <1>1 DEF Live, Recorder

\* A line that follows an unfinished one leaves a line that does not parse.
LEMMA WithLineMeans ==
  ASSUME TypeOK, NEW r
  PROVE  LET j == WithLine(r) IN
         /\ IsSequence(j) /\ j # <<>> /\ Len(journal) \leq Len(j)
         /\ cut => /\ Len(j) = Len(journal) /\ j[Len(journal)] = None /\ Len(journal) > 0
                   /\ \A i \in 1 .. Len(journal) : i < Len(journal) => j[i] = journal[i]
         /\ ~cut => j = Append(journal, r)
<1>1. /\ Len(journal) \in Nat /\ journal \in Seq(ToSet(journal)) /\ IsSequence(journal)
      /\ DOMAIN journal = 1 .. Len(journal) /\ (cut => Len(journal) > 0)
  BY SequenceMeans DEF TypeOK
<1>2. CASE ~cut
  <2>1. WithLine(r) = Append(journal, r)
    BY <1>2 DEF WithLine
  <2>2. IsSequence(Append(journal, r)) /\ Append(journal, r) # <<>>
        /\ Len(journal) \leq Len(Append(journal, r))
    BY <1>1, AppendMeans
  <2> QED BY <1>2, <2>1, <2>2
<1>3. CASE cut
  <2> DEFINE j == [journal EXCEPT ![Len(journal)] = None]
  <2>1. j = [i \in 1 .. Len(journal) |-> IF i = Len(journal) THEN None ELSE journal[i]]
    BY <1>1
  <2> HIDE DEF j
  <2>2. \A i \in 1 .. Len(journal) : j[i] \in ToSet(j)
    BY <2>1 DEF ToSet
  <2>3. j \in [1 .. Len(journal) -> ToSet(j)]
    BY <2>1, <2>2
  <2>4. j \in Seq(ToSet(j)) /\ Len(j) = Len(journal) /\ DOMAIN j = 1 .. Len(journal)
    BY <1>1, <2>3
  <2>5. j # <<>> /\ IsSequence(j)
    BY <1>1, <1>3, <2>4 DEF IsSequence
  <2>6. WithLine(r) = j
    BY <1>3 DEF WithLine, j
  <2> QED BY <1>1, <1>3, <2>1, <2>4, <2>5, <2>6
<1> QED BY <1>2, <1>3

-----------------------------------------------------------------------------
(* The inductive invariant, conjunct by conjunct *)

LEMMA EmptyIsSequence ==
  IsSequence(<<>>) /\ Len(<<>>) = 0 /\ ToSet(<<>>) = {} /\ DOMAIN <<>> = {}
BY DEF IsSequence, ToSet

LEMMA MovesType ==
  ASSUME TypeOK, NEW p \in Process, NEW rs, IsSequence(rs), NEW cd, IsSequence(cd),
         NEW stage \in {"none", "idle", "written", "renamed", "finalized", "gone"},
         Moves(p, stage, rs, cd),
         IsSequence(journal'), synced' \in 0 .. Len(journal'),
         cut' \in BOOLEAN, cut' => journal' # <<>>,
         entry' \in {"absent", "volatile", "durable", "lost"}
  PROVE  TypeOK'
<1>1. ASSUME NEW q \in Process
      PROVE  /\ holder'[q] = Recorder(holder'[q].stage, holder'[q].receipts, holder'[q].candidate)
             /\ holder'[q].stage \in {"none", "idle", "written", "renamed", "finalized", "gone"}
             /\ IsSequence(holder'[q].receipts) /\ IsSequence(holder'[q].candidate)
  <2>1. CASE q = p
    BY <2>1 DEF Moves, Recorder
  <2>2. CASE q # p
    BY <2>2 DEF Moves, TypeOK
  <2> QED BY <2>1, <2>2
<1> QED BY <1>1 DEF TypeOK, Moves, IsSequence

LEMMA TypeStep ==
  ASSUME TypeOK, [Next]_vars
  PROVE  TypeOK'
<1>0. /\ IsSequence(journal) /\ synced \in 0 .. Len(journal) /\ Len(journal) \in Nat
      /\ cut \in BOOLEAN /\ (cut => journal # <<>>)
      /\ entry \in {"absent", "volatile", "durable", "lost"}
      /\ \A p \in Process : IsSequence(holder[p].receipts) /\ IsSequence(holder[p].candidate)
  BY SequenceMeans DEF TypeOK
<1>1. ASSUME NEW p \in Process, Write(p) PROVE TypeOK'
  <2>1. PICK r : /\ Moves(p, "written", holder[p].receipts, Append(holder[p].receipts, r))
                 /\ journal' = WithLine(r) /\ cut' \in BOOLEAN /\ UNCHANGED <<synced, entry>>
    BY <1>1, WriteMeans
  <2>2. IsSequence(journal') /\ journal' # <<>> /\ Len(journal) \leq Len(journal')
    BY <2>1, WithLineMeans
  <2>3. synced' \in 0 .. Len(journal')
    BY <1>0, <2>1, <2>2, SequenceMeans
  <2>4. IsSequence(Append(holder[p].receipts, r))
    BY <1>0, AppendMeans
  <2> QED BY <1>0, <2>1, <2>2, <2>3, <2>4, MovesType
<1>2. ASSUME NEW p \in Process, Sync(p) PROVE TypeOK'
  <2>1. PICK rs \in {holder[p].receipts, holder[p].candidate} : Moves(p, "idle", rs, <<>>)
    BY <1>2, SyncMeans
  <2>2. UNCHANGED <<journal, cut, entry>> /\ synced' \in {synced, Len(journal)}
    BY <1>2, SyncMeans
  <2> QED BY <1>0, <2>1, <2>2, EmptyIsSequence, MovesType
<1>3. ASSUME NEW p \in Process,
             Construct(p) \/ Recover(p) \/ Finalize(p) \/ SyncDirectory(p) \/ Crash(p)
      PROVE  TypeOK'
  <2>1. /\ UNCHANGED <<journal, cut, synced>>
        /\ entry' \in {"absent", "volatile", "durable", "lost"}
    BY <1>0, <1>3, OthersMean DEF fileVars
  <2>2. PICK stage \in {"idle", "renamed", "finalized", "gone"},
             rs \in {holder[p].receipts, journal, <<>>}, cd \in {holder[p].candidate, <<>>} :
           Moves(p, stage, rs, cd)
    BY <1>3, OthersMean
  <2> QED BY <1>0, <2>1, <2>2, EmptyIsSequence, MovesType
<1>4. ASSUME HostCrash \/ HostCrashLosesBundle PROVE TypeOK'
  <2>1. \A p \in Process :
           /\ holder'[p] = Recorder(holder'[p].stage, holder'[p].receipts, holder'[p].candidate)
           /\ holder'[p].stage \in {"none", "idle", "written", "renamed", "finalized", "gone"}
           /\ IsSequence(holder'[p].receipts) /\ IsSequence(holder'[p].candidate)
    BY <1>4, HostCrashMeans, EmptyIsSequence, RecorderMeans DEF TypeOK
  <2>2. DOMAIN holder' = Process /\ entry' \in {"absent", "volatile", "durable", "lost"}
    BY <1>0, <1>4, HostCrashMeans DEF HostCrash, HostCrashLosesBundle
  <2>3. IsSequence(journal') /\ synced' \in 0 .. Len(journal') /\ cut' \in BOOLEAN
        /\ (cut' => journal' # <<>>)
    <3>1. CASE UNCHANGED <<journal, cut, synced>>
      BY <1>0, <3>1
    <3>2. CASE journal' = <<>> /\ cut' = FALSE /\ synced' = 0
      <4>1. cut' \in BOOLEAN /\ ~cut'
        BY <3>2, Zenon
      <4> QED BY <3>2, <4>1, EmptyIsSequence
    <3>3. ASSUME NEW n \in synced .. Len(journal), journal' = SubSeq(journal, 1, n), synced' = n,
                 \/ cut' = (cut /\ n = Len(journal))
                 \/ n > synced /\ cut' = TRUE
          PROVE  IsSequence(journal') /\ synced' \in 0 .. Len(journal') /\ cut' \in BOOLEAN
                 /\ (cut' => journal' # <<>>)
      <4>1. n \in 0 .. Len(journal) /\ n \in Nat
        BY <1>0
      <4>2. IsSequence(journal') /\ Len(journal') = n
        BY <1>0, <3>3, <4>1, CutMeans
      <4>3. cut' \in BOOLEAN
        BY <3>3, Zenon
      <4>4. cut' => n > 0
        <5>1. Len(journal) # 0 \/ ~cut
          BY <1>0, SequenceMeans
        <5>2. CASE cut' = (cut /\ n = Len(journal))
          <6>1. cut' => cut /\ n = Len(journal)
            BY <5>2, Zenon
          <6> QED BY <1>0, <5>1, <6>1
        <5>3. CASE n > synced
          BY <1>0, <4>1, <5>3
        <5> QED BY <3>3, <5>2, <5>3
      <4> QED BY <3>3, <4>1, <4>2, <4>3, <4>4, SequenceMeans
    <3> QED BY <1>4, <3>1, <3>2, <3>3 DEF HostCrash, HostCrashLosesBundle
  <2> QED BY <2>1, <2>2, <2>3 DEF TypeOK, IsSequence
<1>5. ASSUME Compose \/ UNCHANGED vars PROVE TypeOK'
  BY <1>5 DEF Compose, vars, fileVars, TypeOK, IsSequence
<1> QED BY <1>1, <1>2, <1>3, <1>4, <1>5 DEF Next

\* Who acts while nobody overlaps is alone.
LEMMA AloneMeans ==
  ASSUME TypeOK, OneHolder, NEW p \in Process, NEW stage, NEW rs, NEW cd, Moves(p, stage, rs, cd),
         Once, p \in Live \/ Live = {}
  PROVE  \A q \in Live' : q = p
<1>1. \A q \in Live : q = p
  BY DEF OneHolder
<1> QED BY <1>1, MovesLive DEF Live

LEMMA OneHolderStep ==
  ASSUME TypeOK, OneHolder, [Next]_vars
  PROVE  OneHolder'
<1>1. ASSUME NEW p \in Process, p \in Live, NEW stage, NEW rs, NEW cd, Moves(p, stage, rs, cd),
             Once' => Once, entry' \in {entry, "durable"}
      PROVE  OneHolder'
  <2>1. entry' \notin {"absent", "lost"}
    BY <1>1 DEF OneHolder
  <2>2. Once' => \A q \in Live' : q = p
    BY <1>1, AloneMeans
  <2> QED BY <2>1, <2>2 DEF OneHolder
<1>2. ASSUME NEW p \in Process, Write(p) \/ Sync(p) \/ Finalize(p) \/ SyncDirectory(p) \/ Crash(p)
      PROVE  OneHolder'
  <2>1. p \in Live /\ entry' \in {entry, "durable"} /\ mishaps \subseteq mishaps'
    BY <1>2, WriteMeans, SyncMeans, OthersMean DEF fileVars
  <2>2. \E stage, rs, cd : Moves(p, stage, rs, cd)
    BY <1>2, WriteMeans, SyncMeans, OthersMean
  <2> QED BY <1>1, <2>1, <2>2 DEF Once
<1>3. ASSUME NEW p \in Process, Construct(p) PROVE OneHolder'
  <2>1. Live = {} /\ mishaps' = mishaps /\ entry' \in {"volatile", "lost"}
    BY <1>3, OthersMean DEF OneHolder
  <2>2. PICK stage \in {"idle", "gone"} :
          /\ Moves(p, stage, holder[p].receipts, holder[p].candidate)
          /\ entry' = "lost" => stage = "gone"
    BY <1>3, OthersMean
  <2>3. /\ \A q \in Process : q # p => q \notin Live'
        /\ p \in Live' <=> stage \notin {"none", "finalized", "gone"}
    BY <2>1, <2>2, MovesLive
  <2>4. Live' \subseteq {p} /\ (entry' = "lost" => Live' = {})
    BY <2>2, <2>3 DEF Live
  <2> QED BY <2>1, <2>4 DEF OneHolder
<1>4. ASSUME NEW p \in Process, Recover(p) PROVE OneHolder'
  <2>1. /\ Moves(p, "idle", journal, <<>>) /\ entry' = entry /\ entry \notin {"absent", "lost"}
        /\ Live # {} => "overlap" \in mishaps'
        /\ mishaps \subseteq mishaps'
    BY <1>4, OthersMean DEF fileVars
  <2>2. Once' => Live = {} /\ Once
    BY <2>1 DEF Once
  <2>3. Once' => \A q \in Live' : q = p
    BY <2>1, <2>2, AloneMeans
  <2> QED BY <2>1, <2>3 DEF OneHolder
<1>5. ASSUME HostCrash \/ HostCrashLosesBundle PROVE OneHolder'
  <2>1. Live' = {} /\ Live # {}
    BY <1>5, HostCrashMeans
  <2>2. entry # "absent" /\ entry' # "absent"
    BY <1>5, <2>1 DEF OneHolder, HostCrash, HostCrashLosesBundle
  <2> QED BY <2>1, <2>2 DEF OneHolder
<1>6. ASSUME Compose \/ UNCHANGED vars PROVE OneHolder'
  BY <1>6 DEF Compose, vars, fileVars, OneHolder, Live, Once
<1> QED BY <1>2, <1>3, <1>4, <1>5, <1>6 DEF Next

\* A clean journal stays clean when it is cut short.
LEMMA CleanClosed ==
  ASSUME NEW j, IsSequence(j), Clean(j), NEW n \in 0 .. Len(j)
  PROVE  Clean(SubSeq(j, 1, n))
<1> DEFINE t == SubSeq(j, 1, n)
<1>1. /\ IsSequence(t) /\ Len(t) = n /\ \A i \in 1 .. n : t[i] = j[i]
      /\ Len(j) \in Nat /\ DOMAIN j = 1 .. Len(j)
  BY CutMeans, SequenceMeans
<1>2. PrefixVerifies(Header, t, FALSE)
  BY PrefixClosed DEF Clean
<1> HIDE DEF t
<1>3. DOMAIN t = 1 .. n
  BY <1>1, SequenceMeans
<1>4. Clean(t)
  <2>1. \A i \in 1 .. n : i \in DOMAIN j
    BY <1>1
  <2>2. \A i \in DOMAIN t : t[i] # None
    BY <1>1, <1>3, <2>1 DEF Clean
  <2> QED BY <1>2, <2>2 DEF Clean
<1> QED BY <1>4 DEF t

\* A journal that was extended by a line and is clean was clean, and the line is numbered.
LEMMA CleanExtended ==
  ASSUME NEW j, IsSequence(j), NEW r, Clean(Append(j, r))
  PROVE  Clean(j) /\ r.sequence = Len(j)
<1>1. PrefixVerifies(Header, j, FALSE) /\ r.sequence = Len(j)
  BY ChainIsNumbered DEF Clean
<1>2. \A i \in DOMAIN j : i \in DOMAIN Append(j, r) /\ Append(j, r)[i] = j[i]
  <2>1. /\ DOMAIN j = 1 .. Len(j) /\ Len(j) \in Nat
        /\ DOMAIN Append(j, r) = 1 .. Len(Append(j, r)) /\ Len(Append(j, r)) = Len(j) + 1
        /\ \A i \in 1 .. Len(j) : Append(j, r)[i] = j[i]
    BY AppendMeans, SequenceMeans
  <2>2. 1 .. Len(j) \subseteq 1 .. (Len(j) + 1)
    BY <2>1
  <2> QED BY <2>1, <2>2
<1> QED BY <1>1, <1>2 DEF Clean

\* Nobody holds the journal wrongly after a step that a holder, or one that becomes it, takes.
LEMMA HoldsStep ==
  ASSUME TypeOK, OneHolder, Once => \A p \in Live : Holds(p), Once /\ entry # "lost" => FileSound,
         [Next]_vars, Once'
  PROVE  (\A p \in Live : Holds(p))'
<1>0. /\ IsSequence(journal) /\ synced \in 0 .. Len(journal) /\ Len(journal) \in Nat
      /\ cut \in BOOLEAN /\ DOMAIN journal = 1 .. Len(journal)
      /\ \A p \in Process : IsSequence(holder[p].receipts) /\ IsSequence(holder[p].candidate)
  BY SequenceMeans DEF TypeOK
<1>1. ASSUME NEW p \in Process, Write(p) PROVE \A q \in Live' : Holds(q)'
  <2> DEFINE rs == holder[p].receipts
  <2>1. PICK r :
           /\ p \in Live /\ holder[p].stage = "idle"
           /\ Moves(p, "written", rs, Append(rs, r))
           /\ rs = <<>> \/ ~IsTerminal(HeadOf(rs))
           /\ r.sequence = Len(rs)
           /\ PrefixVerifies(Header, Append(rs, r), FALSE)
           /\ journal' = WithLine(r)
           /\ UNCHANGED <<synced, entry, bundle, counted, composed>>
           /\ cut' \in BOOLEAN /\ mishaps \subseteq mishaps' /\ (Sure' => ~cut')
    BY <1>1, WriteMeans
  <2>2. Once /\ (Sure' => Sure)
    BY <2>1 DEF Once, Sure
  <2>3. \A q \in Live' : q = p
    BY <2>1, <2>2, AloneMeans
  <2>4. Holds(p) /\ IsSequence(rs)
    BY <1>0, <2>1, <2>2
  <2>5. bundle = None
    BY <2>1, <2>4 DEF Holds
  <2> HIDE DEF rs
  <2>6. holder'[p].stage = "written" /\ holder'[p].receipts = rs
        /\ holder'[p].candidate = Append(rs, r)
    BY <2>1, MovesLive
  <2>7. Append(rs, r) = Append(rs, HeadOf(Append(rs, r)))
    BY <2>4, AppendMeans
  <2>8. Sure' => journal' = Append(rs, r) /\ PrefixVerifies(Header, journal', FALSE)
    BY <2>1, <2>2, <2>4, WithLineMeans DEF Holds, rs
  <2>9. ASSUME Clean(journal') PROVE journal' = Append(rs, r)
    <3>1. ~cut
      <4>1. CASE cut
        <5>1. journal'[Len(journal)] = None /\ Len(journal) \in DOMAIN journal'
          <6>1. /\ IsSequence(journal') /\ Len(journal') = Len(journal)
                /\ journal'[Len(journal)] = None /\ Len(journal) > 0
            BY <1>0, <2>1, <4>1, WithLineMeans
          <6>2. Len(journal') \in Nat /\ DOMAIN journal' = 1 .. Len(journal')
            BY <6>1, SequenceMeans
          <6> QED BY <6>1, <6>2
        <5> QED BY <2>9, <5>1 DEF Clean
      <4> QED BY <4>1
    <3>2. journal' = Append(journal, r)
      BY <2>1, <3>1, WithLineMeans
    <3>3. Clean(journal) /\ Len(rs) = Len(journal)
      BY <1>0, <2>1, <2>9, <3>2, CleanExtended
    <3>4. \A i \in 1 .. Len(rs) : rs[i] = journal[i]
      BY <2>1, <2>4, <3>3, SequenceMeans DEF Holds, rs
    <3>5. rs = journal
      BY <1>0, <2>4, <3>3, <3>4, SequencesEqual
    <3> QED BY <3>2, <3>5
  <2>10. counted' \subseteq ToSet(rs)
    BY <2>1, <2>4 DEF Holds, rs
  <2>11. Holds(p)'
    BY <2>1, <2>5, <2>6, <2>7, <2>8, <2>9, <2>10 DEF Holds
  <2> QED BY <2>3, <2>11
<1>2. ASSUME NEW p \in Process, Sync(p) PROVE \A q \in Live' : Holds(q)'
  <2> DEFINE rs == holder[p].receipts
             cd == holder[p].candidate
  <2>1. /\ p \in Live /\ holder[p].stage = "written"
        /\ UNCHANGED <<journal, cut, entry, bundle, composed>>
        /\ \/ /\ synced' = Len(journal) /\ mishaps' = mishaps
              /\ Moves(p, "idle", cd, <<>>)
              /\ counted' = counted \cup {HeadOf(cd)}
           \/ /\ mishaps' = mishaps \cup {"failed sync"} /\ UNCHANGED <<synced, counted>>
              /\ Moves(p, "idle", rs, <<>>)
    BY <1>2, SyncMeans
  <2>2. Once /\ (Sure' => Sure)
    BY <2>1 DEF Once, Sure
  <2>3. \A q \in Live' : q = p
    BY <2>1, <2>2, AloneMeans
  <2>4. Holds(p) /\ IsSequence(rs) /\ IsSequence(cd)
    BY <1>0, <2>1, <2>2
  <2>5. bundle = None
    BY <2>1, <2>4 DEF Holds
  <2>6. /\ counted \subseteq ToSet(rs) /\ cd = Append(rs, HeadOf(cd))
        /\ (Sure \/ Clean(journal)) => journal = cd
        /\ Sure => ~cut /\ PrefixVerifies(Header, journal, FALSE)
    BY <2>1, <2>4 DEF Holds
  <2> HIDE DEF rs, cd
  <2>7. /\ ToSet(cd) = ToSet(rs) \cup {HeadOf(cd)} /\ Len(cd) = Len(rs) + 1
        /\ \A i \in 1 .. Len(rs) : cd[i] = rs[i]
        /\ DOMAIN rs = 1 .. Len(rs) /\ DOMAIN cd = 1 .. Len(cd)
        /\ Len(rs) \in Nat /\ Len(cd) \in Nat
    <3> DEFINE e == HeadOf(cd)
    <3>1. cd = Append(rs, e)
      BY <2>6
    <3> HIDE DEF e
    <3>2. /\ ToSet(Append(rs, e)) = ToSet(rs) \cup {e} /\ Len(Append(rs, e)) = Len(rs) + 1
          /\ \A i \in 1 .. Len(rs) : Append(rs, e)[i] = rs[i]
      BY <2>4, AppendMeans
    <3>3. /\ DOMAIN rs = 1 .. Len(rs) /\ DOMAIN cd = 1 .. Len(cd)
          /\ Len(rs) \in Nat /\ Len(cd) \in Nat
      BY <2>4, SequenceMeans
    <3> QED BY <3>1, <3>2, <3>3 DEF e
  <2>8. CASE Moves(p, "idle", cd, <<>>) /\ counted' = counted \cup {HeadOf(cd)} /\ mishaps' = mishaps
    <3>1. holder'[p].stage = "idle" /\ holder'[p].receipts = cd
      BY <2>8, MovesLive
    <3>2. counted' \subseteq ToSet(cd)
      BY <2>6, <2>7, <2>8
    <3>3. Clean(journal) =>
            Len(cd) \leq Len(journal) /\ \A i \in DOMAIN cd : cd[i] = journal[i]
      BY <2>6, <2>7
    <3>4. Holds(p)'
      BY <2>1, <2>2, <2>5, <2>6, <3>1, <3>2, <3>3 DEF Holds
    <3> QED BY <2>3, <3>4
  <2>9. CASE Moves(p, "idle", rs, <<>>) /\ counted' = counted
             /\ mishaps' = mishaps \cup {"failed sync"}
    <3>1. holder'[p].stage = "idle" /\ holder'[p].receipts = rs /\ ~Sure'
      BY <2>9, MovesLive DEF Sure
    <3>2. Clean(journal) =>
            Len(rs) \leq Len(journal) /\ \A i \in DOMAIN rs : rs[i] = journal[i]
      BY <2>6, <2>7
    <3>3. Holds(p)'
      BY <2>1, <2>5, <2>6, <2>9, <3>1, <3>2 DEF Holds
    <3> QED BY <2>3, <3>3
  <2> QED BY <2>1, <2>8, <2>9
<1>3. ASSUME NEW p \in Process, Construct(p) PROVE \A q \in Live' : Holds(q)'
  <2>1. /\ holder[p].stage = "none" /\ entry = "absent"
        /\ \E stage \in {"idle", "gone"} : Moves(p, stage, holder[p].receipts, holder[p].candidate)
        /\ UNCHANGED <<journal, cut, synced, bundle, counted, composed, mishaps>>
    BY <1>3, OthersMean
  <2>2. /\ Live = {} /\ counted = {} /\ bundle = None /\ journal = <<>> /\ ~cut
    BY <2>1 DEF OneHolder
  <2>3. holder[p].receipts = <<>>
    BY <2>1 DEF OneHolder, Recorder
  <2>4. PICK stage \in {"idle", "gone"} : Moves(p, stage, <<>>, holder[p].candidate)
    BY <2>1, <2>3
  <2>5. \A q \in Live' : q = p
    BY <1>3, <2>1, <2>2, <2>4, AloneMeans DEF Once
  <2>6. CASE stage = "gone"
    BY <2>4, <2>5, <2>6, MovesLive
  <2>7. CASE stage = "idle"
    <3>1. holder'[p].stage = "idle" /\ holder'[p].receipts = <<>>
      BY <2>4, <2>7, MovesLive
    <3>2. PrefixVerifies(Header, <<>>, FALSE)
      BY DEF PrefixVerifies
    <3>3. Holds(p)'
      <4>1. journal' = <<>> /\ counted' = {} /\ bundle' = None /\ cut' = cut /\ ~cut
        BY <2>1, <2>2
      <4>2. counted' \subseteq ToSet(holder'[p].receipts)
        BY <4>1
      <4>3. Len(holder'[p].receipts) \leq Len(journal') /\ DOMAIN holder'[p].receipts = {}
        BY <3>1, <4>1, EmptyIsSequence
      <4>4. ~cut' /\ PrefixVerifies(Header, journal', FALSE)
        BY <3>2, <4>1
      <4> QED BY <3>1, <4>1, <4>2, <4>3, <4>4 DEF Holds
    <3> QED BY <2>5, <3>3
  <2> QED BY <2>6, <2>7
<1>4. ASSUME NEW p \in Process, Recover(p) PROVE \A q \in Live' : Holds(q)'
  <2>1. /\ entry \notin {"absent", "lost"} /\ bundle = None /\ ~cut /\ Clean(journal)
        /\ Moves(p, "idle", journal, <<>>)
        /\ mishaps \subseteq mishaps' /\ (Live # {} => "overlap" \in mishaps')
        /\ UNCHANGED <<fileVars, counted, composed>>
    BY <1>4, OthersMean
  <2>2. Once /\ Live = {} /\ \A q \in Live' : q = p
    <3>1. Once /\ Live = {}
      BY <2>1 DEF Once
    <3> QED BY <2>1, <3>1, AloneMeans
  <2>3. counted \subseteq ToSet(journal)
    <3>1. Clean(Durable)
      BY <1>0, <2>1, CleanClosed DEF Durable
    <3>2. ToSet(Durable) \subseteq ToSet(journal)
      BY <1>0, CutMeans DEF Durable
    <3> QED BY <2>1, <2>2, <3>1, <3>2 DEF FileSound
  <2>4. holder'[p].stage = "idle" /\ holder'[p].receipts = journal
    BY <2>1, MovesLive
  <2>5. Holds(p)'
    <3>1. UNCHANGED <<journal, cut, bundle, counted>>
      BY <2>1 DEF fileVars
    <3>2. Len(journal) \leq Len(journal)
      BY <1>0
    <3> QED BY <2>1, <2>3, <2>4, <3>1, <3>2 DEF Holds, Clean
  <2> QED BY <2>2, <2>5
<1>5. ASSUME NEW p \in Process, Finalize(p) \/ SyncDirectory(p)
      PROVE  \A q \in Live' : Holds(q)'
  <2>1. /\ p \in Live /\ holder[p].stage \in {"idle", "renamed"}
        /\ UNCHANGED <<journal, cut, counted>> /\ mishaps \subseteq mishaps'
    BY <1>5, OthersMean
  <2>2. PICK stage \in {"idle", "renamed", "finalized"} :
           /\ Moves(p, stage, holder[p].receipts, holder[p].candidate)
           /\ stage = "idle" => "failed directory sync" \in mishaps'
    BY <1>5, OthersMean
  <2>3. Once /\ (Sure' => Sure)
    BY <2>1 DEF Once, Sure
  <2>4. \A q \in Live' : q = p
    BY <2>1, <2>2, <2>3, AloneMeans
  <2>5. Holds(p)
    BY <2>1, <2>3
  <2>6. holder'[p].stage = stage /\ holder'[p].receipts = holder[p].receipts
    <3>1. holder'[p] = Recorder(stage, holder[p].receipts, holder[p].candidate)
      BY <2>2 DEF Moves
    <3> QED BY <3>1, RecorderMeans
  <2>7. CASE stage = "finalized"
    BY <2>2, <2>4, <2>7, MovesLive
  <2>8. CASE stage # "finalized"
    <3>1. /\ bundle' # None =>
               holder[p].receipts # <<>> /\ IsTerminal(HeadOf(holder[p].receipts))
      BY <1>5, <2>5, OthersMean DEF Holds
    <3>2. Holds(p)'
      BY <2>1, <2>2, <2>3, <2>5, <2>6, <2>8, <3>1 DEF Holds
    <3> QED BY <2>4, <3>2
  <2> QED BY <2>7, <2>8
<1>6. ASSUME NEW p \in Process, Crash(p) PROVE \A q \in Live' : Holds(q)'
  <2>1. p \in Live /\ Moves(p, "gone", <<>>, <<>>) /\ mishaps' = mishaps
    BY <1>6, OthersMean
  <2>2. Once /\ \A q \in Live' : q = p
    BY <2>1, AloneMeans DEF Once
  <2> QED BY <2>1, <2>2, MovesLive
<1>7. ASSUME HostCrash \/ HostCrashLosesBundle PROVE \A q \in Live' : Holds(q)'
  BY <1>7, HostCrashMeans
<1>8. ASSUME Compose \/ UNCHANGED vars PROVE \A q \in Live' : Holds(q)'
  <2>1. /\ Live' = Live /\ holder' = holder /\ mishaps' = mishaps
        /\ UNCHANGED <<journal, cut, counted, bundle>>
    BY <1>8 DEF Compose, vars, fileVars, Live
  <2>2. \A q \in Live : Holds(q)
    BY <2>1 DEF Once
  <2>3. ASSUME NEW q, Holds(q) PROVE Holds(q)'
    BY <2>1, <2>3 DEF Holds, Sure, Clean
  <2> QED BY <2>1, <2>2, <2>3
<1> QED BY <1>1, <1>2, <1>3, <1>4, <1>5, <1>6, <1>7, <1>8 DEF Next

\* What is durable, and what a crash leaves, holds every counted receipt.
LEMMA FileStep ==
  ASSUME TypeOK, OneHolder, Once => \A p \in Live : Holds(p), Once /\ entry # "lost" => FileSound,
         [Next]_vars, Once', entry' # "lost"
  PROVE  FileSound'
<1>0. /\ IsSequence(journal) /\ synced \in 0 .. Len(journal) /\ Len(journal) \in Nat
      /\ cut \in BOOLEAN /\ DOMAIN journal = 1 .. Len(journal) /\ (cut => journal # <<>>)
      /\ \A p \in Process : IsSequence(holder[p].receipts) /\ IsSequence(holder[p].candidate)
  BY SequenceMeans DEF TypeOK
<1>1. ASSUME FileSound, UNCHANGED <<journal, cut, synced, counted>>, mishaps \subseteq mishaps'
      PROVE  FileSound'
  BY <1>1 DEF FileSound, Sure, Clean, Durable, Whole
<1>2. ASSUME NEW p \in Process, Write(p) PROVE FileSound'
  <2> DEFINE rs == holder[p].receipts
  <2>1. PICK r :
           /\ p \in Live /\ holder[p].stage = "idle"
           /\ PrefixVerifies(Header, Append(rs, r), FALSE)
           /\ journal' = WithLine(r)
           /\ UNCHANGED <<synced, entry, counted>>
           /\ cut' \in BOOLEAN /\ mishaps \subseteq mishaps' /\ (Sure' => ~cut')
    BY <1>2, WriteMeans
  <2>2. Once /\ (Sure' => Sure) /\ FileSound
    BY <2>1 DEF Once, Sure
  <2>3. Holds(p) /\ IsSequence(rs)
    BY <1>0, <2>1, <2>2
  <2> HIDE DEF rs
  <2>4. /\ IsSequence(journal') /\ Len(journal) \leq Len(journal') /\ Len(journal') \in Nat
        /\ synced \in 0 .. Len(journal') /\ DOMAIN journal' = 1 .. Len(journal')
    <3>1. IsSequence(journal') /\ Len(journal) \leq Len(journal')
      BY <2>1, WithLineMeans
    <3> QED BY <1>0, <3>1, SequenceMeans
  <2>5. CASE cut /\ synced = Len(journal)
    <3>1. journal'[synced] = None /\ synced \in 1 .. synced
      BY <1>0, <2>1, <2>5, WithLineMeans
    <3>2. synced \in DOMAIN Durable' /\ Durable'[synced] = None
      <4>1. /\ Len(Durable') = synced /\ IsSequence(Durable')
            /\ \A i \in 1 .. synced : Durable'[i] = journal'[i]
        BY <2>1, <2>4, CutMeans DEF Durable
      <4> QED BY <3>1, <4>1, SequenceMeans
    <3>3. ~Clean(Durable)'
      BY <3>2 DEF Clean
    <3>4. ~Sure'
      BY <2>2, <2>3, <2>5 DEF Holds
    <3> QED BY <3>3, <3>4 DEF FileSound
  <2>6. CASE ~(cut /\ synced = Len(journal))
    <3>1. \A i \in 1 .. synced : journal'[i] = journal[i]
      <4>1. CASE cut
        BY <1>0, <2>1, <2>6, <4>1, WithLineMeans
      <4>2. CASE ~cut
        BY <1>0, <2>1, <4>2, WithLineMeans, AppendMeans
      <4> QED BY <4>1, <4>2
    <3>2. Durable' = Durable
      <4>1. /\ Len(Durable') = synced /\ IsSequence(Durable')
            /\ \A i \in 1 .. synced : Durable'[i] = journal'[i]
        BY <2>1, <2>4, CutMeans DEF Durable
      <4>2. /\ Len(Durable) = synced /\ IsSequence(Durable)
            /\ \A i \in 1 .. synced : Durable[i] = journal[i]
        BY <1>0, CutMeans DEF Durable
      <4> QED BY <3>1, <4>1, <4>2, SequencesEqual
    <3>3. ASSUME Sure'
          PROVE  PrefixVerifies(Header, Whole', FALSE) /\ counted' \subseteq ToSet(Whole')
      <4>1. ~cut /\ ~cut' /\ journal = rs
        BY <2>1, <2>2, <2>3, <3>3 DEF Holds, rs
      <4>2. Whole' = Append(rs, r)
        BY <2>1, <4>1, WithLineMeans DEF Whole
      <4>3. counted \subseteq ToSet(rs)
        BY <2>3 DEF Holds, rs
      <4>4. ToSet(Append(rs, r)) = ToSet(rs) \cup {r}
        BY <2>3, AppendMeans
      <4>5. counted' \subseteq ToSet(Append(rs, r))
        BY <2>1, <4>3, <4>4
      <4> QED BY <2>1, <4>2, <4>5
    <3>4. (Sure' \/ Clean(Durable')) => counted' \subseteq ToSet(Durable')
      BY <2>1, <2>2, <3>2 DEF FileSound
    <3> QED BY <3>3, <3>4 DEF FileSound, Clean
  <2> QED BY <2>5, <2>6
<1>3. ASSUME NEW p \in Process, Sync(p) PROVE FileSound'
  <2> DEFINE rs == holder[p].receipts
             cd == holder[p].candidate
  <2>1. /\ p \in Live /\ holder[p].stage = "written"
        /\ UNCHANGED <<journal, cut, entry>>
        /\ \/ /\ synced' = Len(journal) /\ mishaps' = mishaps
              /\ counted' = counted \cup {HeadOf(cd)}
           \/ /\ mishaps' = mishaps \cup {"failed sync"} /\ UNCHANGED <<synced, counted>>
    BY <1>3, SyncMeans
  <2>2. Once /\ FileSound
    BY <2>1 DEF Once
  <2>3. Holds(p) /\ IsSequence(rs)
    BY <1>0, <2>1, <2>2
  <2>4. /\ counted \subseteq ToSet(rs) /\ cd = Append(rs, HeadOf(cd))
        /\ (Sure \/ Clean(journal)) => journal = cd
        /\ Sure => ~cut /\ PrefixVerifies(Header, journal, FALSE)
    BY <2>1, <2>3 DEF Holds
  <2> HIDE DEF rs, cd
  <2>5. CASE synced' = Len(journal) /\ mishaps' = mishaps /\ counted' = counted \cup {HeadOf(cd)}
    <3>1. Durable' = journal
      <4>1. /\ Len(Durable') = Len(journal) /\ IsSequence(Durable')
            /\ \A i \in 1 .. Len(journal) : Durable'[i] = journal[i]
        BY <1>0, <2>1, <2>5, CutMeans DEF Durable
      <4> QED BY <1>0, <4>1, SequencesEqual
    <3>2. ToSet(cd) = ToSet(rs) \cup {HeadOf(cd)}
      BY <2>3, <2>4, AppendMeans
    <3>3. Sure' = Sure
      BY <2>5 DEF Sure
    <3>4. (Sure \/ Clean(journal)) => counted' \subseteq ToSet(journal)
      BY <2>4, <2>5, <3>2
    <3>5. Sure => Whole' = journal
      BY <2>1, <2>4 DEF Whole
    <3>6. (Sure \/ Clean(Durable)') => counted' \subseteq ToSet(Durable)'
      BY <3>1, <3>4 DEF Clean, PrefixVerifies
    <3>7. Sure => PrefixVerifies(Header, Whole, FALSE)' /\ counted' \subseteq ToSet(Whole)'
      BY <2>4, <3>4, <3>5
    <3> QED BY <3>3, <3>6, <3>7 DEF FileSound
  <2>6. CASE mishaps' = mishaps \cup {"failed sync"} /\ UNCHANGED <<synced, counted>>
    BY <1>1, <2>1, <2>2, <2>6
  <2> QED BY <2>1, <2>5, <2>6
<1>4. ASSUME NEW p \in Process, Construct(p) PROVE FileSound'
  <2>1. /\ entry = "absent" /\ UNCHANGED <<journal, cut, synced, counted, mishaps>>
    BY <1>4, OthersMean
  <2> QED BY <1>1, <2>1 DEF Once
<1>5. ASSUME NEW p \in Process, Recover(p) \/ Finalize(p) \/ SyncDirectory(p) \/ Crash(p)
      PROVE  FileSound'
  <2>1. UNCHANGED <<journal, cut, synced, counted>> /\ mishaps \subseteq mishaps'
    BY <1>5, OthersMean DEF fileVars
  <2>2. entry # "lost"
    <3>1. entry' = entry \/ p \in Live
      BY <1>5, OthersMean DEF fileVars
    <3> QED BY <3>1 DEF OneHolder
  <2> QED BY <1>1, <2>1, <2>2 DEF Once
<1>6. ASSUME HostCrash PROVE FileSound'
  <2>1. PICK n \in synced .. Len(journal) :
          /\ journal' = SubSeq(journal, 1, n) /\ synced' = n
          /\ cut' = (cut /\ n = Len(journal)) \/ (n > synced /\ cut' = TRUE)
          /\ UNCHANGED <<mishaps, counted>>
    BY <1>6 DEF HostCrash
  <2>2. Once /\ entry # "lost" /\ FileSound /\ \E p \in Live : Holds(p)
    <3>1. Live # {} /\ Once
      BY <1>6, <2>1 DEF HostCrash, Once
    <3> QED BY <3>1 DEF OneHolder
  <2>3. /\ n \in 0 .. Len(journal) /\ synced \in 0 .. n /\ n \in Nat
        /\ (n > synced => synced \in 0 .. n - 1 /\ n - 1 \in 0 .. Len(journal))
    BY <1>0
  <2>4. /\ IsSequence(journal') /\ Len(journal') = n
        /\ ToSet(Durable) \subseteq ToSet(journal')
        /\ SubSeq(journal', 1, synced) = Durable
        /\ \A m \in 0 .. n : SubSeq(journal', 1, m) = SubSeq(journal, 1, m)
    BY <1>0, <2>1, <2>3, CutMeans DEF Durable
  <2>5. Durable' = journal'
    <3>1. n \in 0 .. n
      BY <2>3
    <3> QED BY <2>1, <2>4, <3>1 DEF Durable
  <2>6. (Sure \/ Clean(journal')) => counted \subseteq ToSet(journal')
    <3>1. Clean(journal') => Clean(Durable)
      BY <2>3, <2>4, CleanClosed
    <3> QED BY <2>2, <2>4, <3>1 DEF FileSound
  <2>7. ASSUME Sure
        PROVE  PrefixVerifies(Header, Whole', FALSE) /\ counted \subseteq ToSet(Whole')
    <3>1. ~cut /\ PrefixVerifies(Header, journal, FALSE)
      BY <2>2, <2>7 DEF Holds
    <3>2. \A m \in 0 .. Len(journal) : PrefixVerifies(Header, SubSeq(journal, 1, m), FALSE)
      BY <1>0, <3>1, PrefixClosed
    <3>3. CASE ~cut'
      BY <2>1, <2>3, <2>6, <2>7, <3>2, <3>3 DEF Whole
    <3>4. CASE cut'
      <4>1. n > synced
        BY <2>1, <3>1, <3>4
      <4>2. Whole' = SubSeq(journal, 1, n - 1)
        <5>1. Whole' = SubSeq(journal', 1, n - 1)
          BY <2>4, <3>4 DEF Whole, Front
        <5>2. n - 1 \in 0 .. n
          BY <2>3, <4>1
        <5> QED BY <2>4, <5>1, <5>2
      <4>3. ToSet(Durable) \subseteq ToSet(Whole')
        BY <1>0, <2>3, <4>1, <4>2, CutMeans DEF Durable
      <4>4. counted \subseteq ToSet(Durable)
        BY <2>2, <2>7 DEF FileSound
      <4> QED BY <2>3, <3>2, <4>1, <4>2, <4>3, <4>4
    <3> QED BY <3>3, <3>4
  <2>8. Sure' = Sure /\ counted' = counted
    BY <2>1 DEF Sure
  <2>9. (Sure' \/ Clean(Durable)') => counted' \subseteq ToSet(Durable)'
    BY <2>5, <2>6, <2>8 DEF Clean, PrefixVerifies
  <2> QED BY <2>7, <2>8, <2>9 DEF FileSound
<1>7. ASSUME HostCrashLosesBundle PROVE FileSound'
  <2>1. UNCHANGED <<journal, cut, synced, counted>> /\ mishaps \subseteq mishaps' /\ entry # "lost"
    BY <1>7 DEF HostCrashLosesBundle, OneHolder
  <2> QED BY <1>1, <2>1 DEF Once
<1>8. ASSUME Compose \/ UNCHANGED vars PROVE FileSound'
  <2>1. UNCHANGED <<journal, cut, synced, counted, mishaps, entry>>
    BY <1>8 DEF Compose, vars, fileVars
  <2> QED BY <1>1, <2>1 DEF Once
<1> QED BY <1>2, <1>3, <1>4, <1>5, <1>6, <1>7, <1>8 DEF Next

\* Nothing is published, nor composed of, but by who holds every counted receipt.
LEMMA PublishedStep ==
  ASSUME TypeOK, OneHolder, Once => \A p \in Live : Holds(p), CountedIsPublished,
         [Next]_vars
  PROVE  CountedIsPublished'
<1> SUFFICES ASSUME Once', bundle' # None PROVE counted' \subseteq ToSet(bundle'.receipts)
  BY DEF CountedIsPublished, Once
<1>1. ASSUME UNCHANGED <<bundle, counted>>, mishaps \subseteq mishaps'
      PROVE  counted' \subseteq ToSet(bundle'.receipts)
  BY <1>1 DEF CountedIsPublished, Once
<1>2. ASSUME NEW p \in Process, Write(p) PROVE counted' \subseteq ToSet(bundle'.receipts)
  <2>1. UNCHANGED <<bundle, counted>> /\ mishaps \subseteq mishaps'
    BY <1>2, WriteMeans
  <2> QED BY <1>1, <2>1
<1>3. ASSUME NEW p \in Process, Sync(p) PROVE counted' \subseteq ToSet(bundle'.receipts)
  <2>1. p \in Live /\ holder[p].stage = "written" /\ bundle' = bundle /\ mishaps \subseteq mishaps'
    BY <1>3, SyncMeans
  <2>2. Once /\ Holds(p)
    BY <2>1 DEF Once
  <2> QED BY <2>1, <2>2 DEF Holds
<1>4. ASSUME NEW p \in Process, Finalize(p) PROVE counted' \subseteq ToSet(bundle'.receipts)
  <2>1. PICK at \in Times : bundle' = BundleOf(holder[p].receipts, at)
    BY <1>4, OthersMean
  <2>2. p \in Live /\ UNCHANGED <<counted, mishaps>>
    BY <1>4, OthersMean
  <2>3. bundle'.receipts = holder[p].receipts
    BY <2>1 DEF BundleOf
  <2> QED BY <2>2, <2>3 DEF Once, Holds
<1>5. ASSUME NEW p \in Process, Construct(p) \/ Recover(p) \/ SyncDirectory(p) \/ Crash(p)
      PROVE  counted' \subseteq ToSet(bundle'.receipts)
  <2>1. UNCHANGED <<bundle, counted>> /\ mishaps \subseteq mishaps'
    BY <1>5, OthersMean DEF fileVars
  <2> QED BY <1>1, <2>1
<1>6. ASSUME HostCrash \/ HostCrashLosesBundle PROVE counted' \subseteq ToSet(bundle'.receipts)
  BY <1>1, <1>6 DEF HostCrash, HostCrashLosesBundle
<1>7. ASSUME Compose \/ UNCHANGED vars PROVE counted' \subseteq ToSet(bundle'.receipts)
  BY <1>1, <1>7 DEF Compose, vars, fileVars
<1> QED BY <1>2, <1>3, <1>4, <1>5, <1>6, <1>7 DEF Next

LEMMA CompositionStep ==
  ASSUME TypeOK, OneHolder, Once => \A p \in Live : Holds(p), CompositionHolds,
         [Next]_vars
  PROVE  CompositionHolds'
<1> DEFINE Sound == mishaps \cap {"overlap", "failed directory sync", "lost rename"} = {}
<1>1. ASSUME UNCHANGED <<bundle, composed>>, mishaps \subseteq mishaps' PROVE CompositionHolds'
  <2>1. Sound' => Sound
    BY <1>1
  <2> QED BY <1>1, <2>1 DEF CompositionHolds, CompositionVerifies
<1>2. ASSUME NEW p \in Process, Finalize(p) PROVE CompositionHolds'
  <2>1. p \in Live /\ holder[p].stage = "idle" /\ UNCHANGED <<composed, mishaps>>
    BY <1>2, OthersMean
  <2>2. composed # None => ~Sound
    <3>1. CASE composed # None /\ Sound
      <4>1. bundle # None
        BY <3>1 DEF CompositionHolds, CompositionVerifies
      <4>2. Once /\ "failed directory sync" \notin mishaps
        BY <3>1 DEF Once
      <4> QED BY <2>1, <4>1, <4>2 DEF Holds
    <3> QED BY <3>1
  <2> QED BY <2>1, <2>2 DEF CompositionHolds
<1>3. ASSUME Compose PROVE CompositionHolds'
  <2>1. PICK c \in Runtimes, x \in Inspections :
           /\ SourcesAgree(c, ContainerReceiptOf(x), bundle)
           /\ composed' = CompositionReceipt(c, ContainerReceiptOf(x), bundle)
    BY <1>3 DEF Compose
  <2>2. bundle # None /\ bundle' = bundle
    BY <1>3 DEF Compose, fileVars
  <2> DEFINE k == ContainerReceiptOf(x)
  <2> HIDE DEF k
  <2>3. composed' = CompositionReceipt(c, k, bundle) /\ SourcesAgree(c, k, bundle)
    BY <2>1 DEF k
  <2>4. composed'.runtime = c /\ composed'.container = k /\ composed'.bundle = bundle
    BY <2>3 DEF CompositionReceipt
  <2>5. CompositionVerifies(composed)'
    BY <2>2, <2>3, <2>4 DEF CompositionVerifies
  <2> QED BY <2>5 DEF CompositionHolds
<1>4. ASSUME NEW p \in Process, Write(p) PROVE CompositionHolds'
  <2>1. UNCHANGED <<bundle, composed>> /\ mishaps \subseteq mishaps'
    BY <1>4, WriteMeans
  <2> QED BY <1>1, <2>1
<1>5. ASSUME NEW p \in Process,
             Construct(p) \/ Recover(p) \/ Sync(p) \/ SyncDirectory(p) \/ Crash(p)
      PROVE  CompositionHolds'
  <2>1. UNCHANGED <<bundle, composed>> /\ mishaps \subseteq mishaps'
    BY <1>5, SyncMeans, OthersMean DEF fileVars
  <2> QED BY <1>1, <2>1
<1>6. ASSUME HostCrash PROVE CompositionHolds'
  BY <1>1, <1>6 DEF HostCrash
<1>7. ASSUME HostCrashLosesBundle PROVE CompositionHolds'
  <2>1. UNCHANGED composed /\ mishaps' = mishaps \cup {"lost rename"}
    BY <1>7 DEF HostCrashLosesBundle
  <2> QED BY <2>1 DEF CompositionHolds
<1>8. ASSUME UNCHANGED vars PROVE CompositionHolds'
  BY <1>1, <1>8 DEF vars, fileVars
<1> QED BY <1>2, <1>3, <1>4, <1>5, <1>6, <1>7, <1>8 DEF Next

-----------------------------------------------------------------------------
(* The theorems *)

LEMMA InitSound ==
  ASSUME Init
  PROVE  IInv
<1>1. /\ journal = <<>> /\ ~cut /\ synced = 0 /\ entry = "absent" /\ bundle = None
      /\ counted = {} /\ composed = None /\ DOMAIN holder = Process
      /\ \A p \in Process : holder[p] = Recorder("none", <<>>, <<>>)
  BY DEF Init
<1>2. TypeOK
  <2>1. cut \in BOOLEAN
    BY Zenon DEF Init
  <2>2. \A p \in Process :
           /\ holder[p] = Recorder(holder[p].stage, holder[p].receipts, holder[p].candidate)
           /\ holder[p].stage = "none" /\ holder[p].receipts = <<>> /\ holder[p].candidate = <<>>
    BY <1>1, RecorderMeans
  <2> QED BY <1>1, <2>1, <2>2, EmptyIsSequence DEF TypeOK
<1>3. Live = {}
  BY <1>1 DEF Live, Recorder
<1>4. OneHolder /\ CountedIsPublished /\ CompositionHolds
  BY <1>1, <1>3 DEF OneHolder, CountedIsPublished, CompositionHolds
<1>5. FileSound
  <2>1. Whole = <<>> /\ PrefixVerifies(Header, <<>>, FALSE)
    BY <1>1 DEF Whole, PrefixVerifies
  <2> QED BY <1>1, <2>1 DEF FileSound
<1> QED BY <1>2, <1>3, <1>4, <1>5 DEF IInv

\* The invariant below is kept by every step.
THEOREM RecorderInvariance == Spec => []IInv
<1>1. Init => IInv
  BY InitSound
<1>2. ASSUME IInv, [Next]_vars PROVE IInv'
  <2>1. /\ TypeOK /\ OneHolder /\ (Once => \A p \in Live : Holds(p))
        /\ (Once /\ entry # "lost" => FileSound) /\ CountedIsPublished /\ CompositionHolds
    BY <1>2 DEF IInv
  <2>2. TypeOK' /\ OneHolder' /\ CountedIsPublished' /\ CompositionHolds'
    BY <1>2, <2>1, TypeStep, OneHolderStep, PublishedStep, CompositionStep
  <2>3. Once' => (\A p \in Live : Holds(p))'
    BY <1>2, <2>1, HoldsStep
  <2>4. Once' /\ entry' # "lost" => FileSound'
    BY <1>2, <2>1, FileStep
  <2> QED BY <2>2, <2>3, <2>4 DEF IInv
<1> QED BY <1>1, <1>2, PTL DEF Spec

\* The published bundle lacks no receipt that append or terminalize returned, whatever
\* crashed, was lost, was written short or failed to sync.
THEOREM PublishedIsComplete == Spec => []CountedIsPublished
<1>1. IInv => CountedIsPublished
  BY DEF IInv
<1> QED BY <1>1, RecorderInvariance, PTL

\* A crash leaves a journal that recover takes, but for a last unfinished line, with every
\* receipt a call returned.
THEOREM CrashesAreRecoverable == Spec => []JournalIsRecoverable
<1>1. ASSUME IInv, mishaps \cap {"overlap", "short write", "failed sync"} = {},
             entry \in {"volatile", "durable"}
      PROVE  PrefixVerifies(Header, Whole, FALSE) /\ counted \subseteq ToSet(Whole)
  BY <1>1 DEF IInv, Once, Sure, FileSound
<1>2. IInv => JournalIsRecoverable
  BY <1>1 DEF JournalIsRecoverable, Whole
<1> QED BY <1>2, RecorderInvariance, PTL

\* A composition receipt keeps verifying against the bundle on disk, whoever recovers the
\* journal and finalizes again, but for the mishaps the property names.
THEOREM CompositionsHold == Spec => []CompositionHolds
<1>1. IInv => CompositionHolds
  BY DEF IInv
<1> QED BY <1>1, RecorderInvariance, PTL
=============================================================================
