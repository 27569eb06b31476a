------------------------- MODULE McpStdioProxyProofs -------------------------
(***************************************************************************)
(* Proofs about McpStdioAccess, McpStdioProxy and McpStdioSession, for any *)
(* sets of requests and of recovering processes and any number of faults   *)
(* and crashes: first the access journal by itself (Spec), then what the   *)
(* invocations of a proxy do to it whichever version the configuration     *)
(* has, and from that the proxy of version 1 (ProxySpec) and the session   *)
(* of either version (SessionSpec).                                        *)
(***************************************************************************)
EXTENDS McpStdioSession, SequenceTheorems, FiniteSetTheorems, TLAPS

-----------------------------------------------------------------------------
(* Sequences *)

LEMMA PrefixMeans ==
  ASSUME NEW S, NEW s \in Seq(S), NEW t \in Seq(S)
  PROVE  IsPrefix(s, t) <=> Len(s) <= Len(t) /\ \A i \in 1 .. Len(s) : s[i] = t[i]
<1>1. Len(s) <= Len(t) =>
        (SubSeq(s, 1, Len(s)) = SubSeq(t, 1, Len(s))
           <=> \A i \in 1 .. Len(s) : s[i] = t[i])
  OBVIOUS
<1> QED BY <1>1 DEF IsPrefix

\* Every list extends the empty one and itself, and grows by appending.
LEMMA PrefixGrows ==
  ASSUME NEW S, NEW s \in Seq(S), NEW t \in Seq(S), NEW e \in S
  PROVE  /\ IsPrefix(s, s)
         /\ IsPrefix(<<>>, s)
         /\ IsPrefix(s, t) => IsPrefix(s, Append(t, e))
<1>1. Append(t, e) \in Seq(S) /\ <<>> \in Seq(S)
  OBVIOUS
<1>2. Len(Append(t, e)) = Len(t) + 1 /\ \A i \in 1 .. Len(t) : Append(t, e)[i] = t[i]
  OBVIOUS
<1>3. IsPrefix(s, t) => IsPrefix(s, Append(t, e))
  <2>1. SUFFICES ASSUME IsPrefix(s, t) PROVE IsPrefix(s, Append(t, e))
    OBVIOUS
  <2>2. Len(s) <= Len(t) /\ \A i \in 1 .. Len(s) : s[i] = t[i]
    BY <2>1, PrefixMeans
  <2>3. Len(s) \in Nat /\ Len(t) \in Nat
    OBVIOUS
  <2>4. Len(s) <= Len(Append(t, e)) /\ \A i \in 1 .. Len(s) : s[i] = Append(t, e)[i]
    BY <2>2, <2>3, <1>2
  <2> QED BY <2>4, <1>1, PrefixMeans
<1>4. IsPrefix(s, s)
  BY PrefixMeans
<1>5. IsPrefix(<<>>, s)
  BY <1>1 DEF IsPrefix
<1> QED BY <1>3, <1>4, <1>5

-----------------------------------------------------------------------------
(* Types *)

LEMMA Init_IInv == Init => IInv
<1> SUFFICES ASSUME Init PROVE IInv
  OBVIOUS
<1> USE DEF Init, Running, Idle
<1>1. TypeOK
  <2>1. <<>> \in Seq(Receipt) /\ <<>> \in Seq(Seq(Receipt)) /\ Len(<<>>) = 0
    OBVIOUS
  <2>2. memory \in [Process -> Seq(Receipt)]
    BY <2>1
  <2>3. journal \in Seq(Seq(Receipt)) /\ durable \in 0 .. Len(journal)
    BY <2>1
  <2> QED BY <2>2, <2>3 DEF TypeOK, Stage
<1>2. CallSound
  BY DEF CallSound
<1>3. Durable
  BY DEF Durable, Process
<1>4. Inherited
  <2>1. \A p \in Process : Running(p) => p = Owner
    BY DEF Process
  <2>2. IsPrefix(memory[Owner], memory[Owner])
    BY PrefixGrows, <1>1 DEF Process, TypeOK
  <2> QED BY <2>1, <2>2 DEF Inherited, Process
<1>5. Published
  BY DEF Published
<1>6. AllHonest
  BY DEF AllHonest, Honest, ReceiptsIn
<1> QED BY <1>1, <1>2, <1>3, <1>4, <1>5, <1>6 DEF IInv

\* What a call may be asked to write is a receipt.
LEMMA ProposeType ==
  ASSUME NEW p \in Process, NEW rc \in Receipt, TypeOK, Propose(p, rc)
  PROVE  /\ call' \in [Process -> [stage : Stage, receipt : Receipt \cup {None}]]
         /\ call'[p] = [stage |-> "write", receipt |-> rc]
         /\ \A q \in Process \ {p} : call'[q] = call[q]
BY DEF Propose, TypeOK, Stage

LEMMA SynthesizeType ==
  ASSUME NEW r \in Request
  PROVE  Outcome(r) \in Receipt
BY DEF Outcome, Interrupted, Receipt, Terminal

LEMMA TypeStep ==
  ASSUME TypeOK, CallSound, [Next]_accessVars
  PROVE  TypeOK'
<1> USE DEF Stage, Process
<1>1. ASSUME NEW r \in Request, NEW decision \in {"allowed", "blocked"},
             Authorize(r, decision)
      PROVE  TypeOK'
  <2> DEFINE rc == [kind |-> "authorization", request |-> r, decision |-> decision]
  <2>1. rc \in Receipt
    BY DEF Receipt, Authorization
  <2> QED BY <1>1, <2>1, ProposeType DEF Authorize, Propose, TypeOK, fileVars
<1>2. ASSUME NEW r \in Request, NEW disposition \in Reported,
             NEW w \in {"called", "not_called"}, Report(r, disposition, w)
      PROVE  TypeOK'
  <2> DEFINE rc == [kind |-> "terminal", request |-> r,
                    disposition |-> disposition, written |-> w]
  <2>1. rc \in Receipt /\ rc \in Terminal
    BY DEF Receipt, Terminal
  <2>2. Propose(Owner, rc) /\ reported' = reported \cup {rc}
    BY <1>2 DEF Report
  <2> QED BY <2>1, <2>2, ProposeType DEF Propose, TypeOK, fileVars
<1>3. ASSUME NEW p \in Process, Write(p) PROVE TypeOK'
  <2>1. Append(memory[p], call[p].receipt) \in Seq(Receipt)
    BY <1>3 DEF Write, TypeOK, CallSound
  <2>2. journal' \in Seq(Seq(Receipt)) /\ durable \in 0 .. Len(journal')
    BY <1>3, <2>1 DEF Write, TypeOK
  <2>3. call' \in [Process -> [stage : Stage, receipt : Receipt \cup {None}]]
    BY <1>3 DEF Write, TypeOK
  <2> QED BY <1>3, <2>2, <2>3 DEF Write, TypeOK
<1>4. ASSUME NEW p \in Process, Sync(p) PROVE TypeOK'
  <2>1. Append(memory[p], call[p].receipt) \in Seq(Receipt)
    BY <1>4 DEF Sync, TypeOK, CallSound
  <2> QED BY <1>4, <2>1 DEF Sync, SyncedLines, Counting, Idle, TypeOK
<1>5. ASSUME NEW p \in Process, Recover(p) PROVE TypeOK'
  <2>1. ListOf(journal) \in Seq(Receipt)
    BY DEF TypeOK, ListOf, Last
  <2> QED BY <1>5, <2>1 DEF Recover, TypeOK, fileVars
<1>6. ASSUME NEW p \in Process, NEW r \in Request, Synthesize(p, r) PROVE TypeOK'
  BY <1>6, SynthesizeType, ProposeType DEF Synthesize, Propose, TypeOK, fileVars
<1>7. ASSUME NEW p \in Process, Finalize(p) PROVE TypeOK'
  BY <1>7 DEF Finalize, TypeOK, fileVars
<1>8. ASSUME NEW p \in Process, Link(p) PROVE TypeOK'
  BY <1>8 DEF Link, TypeOK
<1>9. ASSUME NEW p \in Process, LinkRefused(p) PROVE TypeOK'
  BY <1>9 DEF LinkRefused, AfterThrow, Idle, TypeOK, fileVars
<1>10. ASSUME NEW p \in Process, SyncDirectory(p) PROVE TypeOK'
  BY <1>10 DEF SyncDirectory, Idle, TypeOK
<1>11. ASSUME NEW p \in Process, CutShort(p), TypeOK
       PROVE  journal' \in Seq(Seq(Receipt)) /\ durable \in 0 .. Len(journal')
  <2>1. <<>> \in Seq(Receipt)
    OBVIOUS
  <2>2. /\ Append(journal, <<>>) \in Seq(Seq(Receipt))
        /\ Len(Append(journal, <<>>)) = Len(journal) + 1
    BY <2>1, <1>11 DEF TypeOK
  <2>3. Len(journal) \in Nat /\ durable \in 0 .. Len(journal)
    BY <1>11 DEF TypeOK
  <2>4. journal' = journal \/ journal' = Append(journal, <<>>)
    BY <1>11 DEF CutShort
  <2>5. journal \in Seq(Seq(Receipt))
    BY <1>11 DEF TypeOK
  <2>6. journal' \in Seq(Seq(Receipt))
    BY <2>2, <2>4, <2>5, Zenon
  <2> QED BY <2>2, <2>3, <2>4, <2>6
<1>12. ASSUME NEW p \in Process, WriteFails(p) PROVE TypeOK'
  <2>1. journal' \in Seq(Seq(Receipt)) /\ durable \in 0 .. Len(journal')
    BY <1>12, <1>11 DEF WriteFails
  <2>2. life' \in [Process -> {"absent", "running", "done", "dead"}]
    BY <1>12 DEF WriteFails, AfterThrow, TypeOK
  <2> QED BY <1>12, <2>1, <2>2 DEF WriteFails, Idle, TypeOK
<1>13. ASSUME NEW p \in Process, Kill(p) PROVE TypeOK'
  <2>1. journal' \in Seq(Seq(Receipt)) /\ durable \in 0 .. Len(journal')
    BY <1>13, <1>11 DEF Kill
  <2>2. life' \in [Process -> {"absent", "running", "done", "dead"}]
    BY <1>13 DEF Kill, TypeOK
  <2>3. call' \in [Process -> [stage : Stage, receipt : Receipt \cup {None}]]
    BY <1>13 DEF Kill, Idle, TypeOK
  <2>4. crashes' \in Nat
    BY <1>13 DEF Kill, TypeOK
  <2> QED BY <1>13, <2>1, <2>2, <2>3, <2>4 DEF Kill, TypeOK
<1>14. CASE HostCrash
  <2>1. ASSUME NEW kept \in durable .. Len(journal)
        PROVE  /\ SubSeq(journal, 1, kept) \in Seq(Seq(Receipt))
               /\ Append(SubSeq(journal, 1, kept), <<>>) \in Seq(Seq(Receipt))
    BY DEF TypeOK
  <2>2. journal' \in Seq(Seq(Receipt))
    BY <1>14, <2>1 DEF HostCrash
  <2> QED BY <1>14, <2>2 DEF HostCrash, Idle, TypeOK
<1>15. CASE UNCHANGED accessVars
  BY <1>15 DEF accessVars, fileVars, TypeOK
<1> QED
  BY <1>1, <1>2, <1>3, <1>4, <1>5, <1>6, <1>7, <1>8, <1>9, <1>10, <1>12, <1>13,
     <1>14, <1>15 DEF Next, Progress, Recovery

-----------------------------------------------------------------------------
(* Steps *)

\* A terminal receipt is one the owner asks for, or says interrupted_unknown.
Asked(p, rc) ==
  /\ Propose(p, rc)
  /\ reported' \in {reported, reported \cup {rc}}
  /\ rc.kind = "terminal" => rc \in reported' \/ rc = Interrupted(rc.request)
  /\ p = Owner /\ rc.kind = "terminal" => rc \in reported'
  /\ reported' # reported => rc.disposition \in Reported

LEMMA StepCases ==
  ASSUME TypeOK, [Next]_accessVars,
         NEW ACTION P,
         ASSUME NEW p \in Process, NEW rc \in Receipt, Asked(p, rc) PROVE P,
         ASSUME NEW p \in Process, Write(p) PROVE P,
         ASSUME NEW p \in Process, Sync(p) PROVE P,
         ASSUME NEW p \in Process, Recover(p) PROVE P,
         ASSUME NEW p \in Process, Finalize(p) PROVE P,
         ASSUME NEW p \in Process, Link(p) PROVE P,
         ASSUME NEW p \in Process, LinkRefused(p) PROVE P,
         ASSUME NEW p \in Process, SyncDirectory(p) PROVE P,
         ASSUME NEW p \in Process, WriteFails(p) PROVE P,
         ASSUME NEW p \in Process, Kill(p) PROVE P,
         ASSUME HostCrash PROVE P,
         ASSUME UNCHANGED accessVars PROVE P
  PROVE  P
<1>1. ASSUME NEW r \in Request, NEW decision \in {"allowed", "blocked"},
             Authorize(r, decision)
      PROVE  P
  <2> DEFINE rc == [kind |-> "authorization", request |-> r, decision |-> decision]
  <2>1. rc \in Receipt /\ rc.kind # "terminal" /\ Owner \in Process
    BY DEF Receipt, Authorization, Process
  <2>2. Asked(Owner, rc)
    BY <1>1, <2>1 DEF Authorize, Asked
  <2> QED BY <2>1, <2>2
<1>2. ASSUME NEW r \in Request, NEW disposition \in Reported,
             NEW w \in {"called", "not_called"}, Report(r, disposition, w)
      PROVE  P
  <2> DEFINE rc == [kind |-> "terminal", request |-> r,
                    disposition |-> disposition, written |-> w]
  <2>1. rc \in Receipt /\ Owner \in Process
    BY DEF Receipt, Terminal, Process
  <2>2. Asked(Owner, rc)
    BY <1>2, <2>1 DEF Report, Asked
  <2> QED BY <2>1, <2>2
<1>3. ASSUME NEW p \in Process, NEW r \in Request, Synthesize(p, r) PROVE P
  <2>1. Outcome(r) = Interrupted(Outcome(r).request)
    BY DEF Outcome, Interrupted
  <2>2. Asked(p, Outcome(r))
    BY <1>3, <2>1 DEF Synthesize, Asked
  <2> QED BY <2>2, SynthesizeType
<1> QED
  BY <1>1, <1>2, <1>3 DEF Next, Progress, Recovery, Process

LEMMA CallStep ==
  ASSUME TypeOK, CallSound, [Next]_accessVars
  PROVE  CallSound'
<1> USE DEF CallSound, Running
<1> DEFINE Sound(q) ==
      /\ call[q].stage # "idle" => Running(q)
      /\ call[q].stage \in {"write", "sync"} => call[q].receipt \in Receipt
      /\ call[q].stage = "link" => OpenIn(memory[q]) = {}
<1> SUFFICES ASSUME NEW q \in Process PROVE Sound(q)'
  OBVIOUS
<1>0. Sound(q)
  OBVIOUS
<1>1. ASSUME NEW p \in Process, NEW rc \in Receipt, Asked(p, rc) PROVE Sound(q)'
  BY <1>0, <1>1, ProposeType DEF Asked, Propose
<1>2. ASSUME NEW p \in Process, Write(p) PROVE Sound(q)'
  BY <1>0, <1>2 DEF Write, TypeOK
<1>3. ASSUME NEW p \in Process, Sync(p) PROVE Sound(q)'
  BY <1>0, <1>3 DEF Sync, TypeOK, Idle
<1>4. ASSUME NEW p \in Process, Recover(p) PROVE Sound(q)'
  BY <1>0, <1>4 DEF Recover, TypeOK
<1>5. ASSUME NEW p \in Process, Finalize(p) PROVE Sound(q)'
  BY <1>0, <1>5 DEF Finalize, NothingOpen, TypeOK
<1>6. ASSUME NEW p \in Process, Link(p) PROVE Sound(q)'
  BY <1>0, <1>6 DEF Link, TypeOK
<1>7. ASSUME NEW p \in Process, LinkRefused(p) PROVE Sound(q)'
  BY <1>0, <1>7 DEF LinkRefused, AfterThrow, TypeOK, Idle
<1>8. ASSUME NEW p \in Process, SyncDirectory(p) PROVE Sound(q)'
  BY <1>0, <1>8 DEF SyncDirectory, TypeOK, Idle
<1>9. ASSUME NEW p \in Process, WriteFails(p) PROVE Sound(q)'
  BY <1>0, <1>9 DEF WriteFails, AfterThrow, TypeOK, Idle
<1>10. ASSUME NEW p \in Process, Kill(p) PROVE Sound(q)'
  BY <1>0, <1>10 DEF Kill, TypeOK, Idle
<1>11. ASSUME HostCrash PROVE Sound(q)'
  BY <1>11 DEF HostCrash, Idle
<1>12. ASSUME UNCHANGED accessVars PROVE Sound(q)'
  BY <1>0, <1>12 DEF accessVars
<1> QED
  BY <1>1, <1>2, <1>3, <1>4, <1>5, <1>6, <1>7, <1>8, <1>9, <1>10, <1>11, <1>12,
     StepCases

\* The journal only grows, but for a crash, which keeps its durable lines.
LEMMA LinesStay ==
  ASSUME TypeOK, CallSound, [Next]_accessVars
  PROVE  /\ \A i \in 1 .. durable : i \in 1 .. durable' /\ journal'[i] = journal[i]
         /\ ~HostCrash => \A i \in 1 .. Len(journal) :
                            i \in 1 .. Len(journal') /\ journal'[i] = journal[i]
<1> DEFINE Kept == \A i \in 1 .. durable : i \in 1 .. durable' /\ journal'[i] = journal[i]
           Grown == \A i \in 1 .. Len(journal) :
                      i \in 1 .. Len(journal') /\ journal'[i] = journal[i]
<1>1. Len(journal) \in Nat /\ durable \in 0 .. Len(journal)
  BY DEF TypeOK
<1>2. ASSUME UNCHANGED journal PROVE Grown
  BY <1>2
<1>3. ASSUME NEW line \in Seq(Receipt), journal' = Append(journal, line) PROVE Grown
  BY <1>3, <1>1 DEF TypeOK
<1>4. ASSUME NEW p \in Process, CutShort(p) PROVE Grown
  <2>1. <<>> \in Seq(Receipt)
    OBVIOUS
  <2> QED BY <1>2, <1>3, <1>4, <2>1 DEF CutShort
<1>5. ASSUME HostCrash PROVE Kept
  <2>1. PICK kept \in durable .. Len(journal) :
          \/ journal' = SubSeq(journal, 1, kept)
          \/ journal' = Append(SubSeq(journal, 1, kept), <<>>)
    BY <1>5 DEF HostCrash
  <2>2. kept \in Nat /\ kept <= Len(journal) /\ durable <= kept
    BY <1>1
  <2> DEFINE cut == SubSeq(journal, 1, kept)
  <2>3. /\ cut \in Seq(Seq(Receipt))
        /\ Len(cut) = kept
        /\ \A i \in 1 .. kept : cut[i] = journal[i]
    BY <2>2 DEF TypeOK
  <2>4. journal' \in {cut, Append(cut, <<>>)}
    BY <2>1
  <2> HIDE DEF cut
  <2>5. <<>> \in Seq(Receipt)
    OBVIOUS
  <2>6. /\ Len(Append(cut, <<>>)) = kept + 1
        /\ \A i \in 1 .. kept : Append(cut, <<>>)[i] = cut[i]
    BY <2>2, <2>3, <2>5
  <2>7. Len(journal') >= kept /\ \A i \in 1 .. kept : journal'[i] = journal[i]
    <3>1. CASE journal' = cut
      BY <3>1, <2>2, <2>3
    <3>2. CASE journal' = Append(cut, <<>>)
      <4>1. Len(journal') = kept + 1 /\ \A i \in 1 .. kept : journal'[i] = cut[i]
        BY <3>2, <2>6, Zenon
      <4> QED BY <4>1, <2>2, <2>3
    <3> QED BY <2>4, <3>1, <3>2
  <2>8. durable' = Len(journal') /\ Len(journal') \in Nat
    BY <1>5, TypeStep DEF HostCrash, TypeOK
  <2> QED BY <2>2, <2>7, <2>8, <1>1
<1>6. Grown /\ durable' \in {durable, Len(journal')} /\ ~HostCrash => Kept
  <2>1. Len(journal') \in Nat /\ durable' \in 0 .. Len(journal')
    BY TypeStep DEF TypeOK
  <2> SUFFICES ASSUME Grown, durable' \in {durable, Len(journal')},
                      NEW i \in 1 .. durable
               PROVE  i \in 1 .. durable' /\ journal'[i] = journal[i]
    OBVIOUS
  <2>2. i \in 1 .. Len(journal)
    BY <1>1
  <2>3. i \in 1 .. Len(journal') /\ journal'[i] = journal[i]
    BY <2>2
  <2> QED BY <2>1, <2>3, <1>1
<1> DEFINE Goal == Kept /\ (~HostCrash => Grown)
<1>7. ASSUME Grown, durable' \in {durable, Len(journal')} PROVE Goal
  BY <1>5, <1>6, <1>7
<1>8. ASSUME NEW p \in Process, Write(p) PROVE Goal
  <2>1. Append(memory[p], call[p].receipt) \in Seq(Receipt)
    BY <1>8 DEF Write, TypeOK, CallSound
  <2> QED BY <1>3, <1>7, <1>8, <2>1 DEF Write
<1>9. ASSUME NEW p \in Process, Sync(p) PROVE Goal
  BY <1>2, <1>7, <1>9 DEF Sync, SyncedLines
<1>10. ASSUME NEW p \in Process, CutShort(p), UNCHANGED durable PROVE Goal
  BY <1>4, <1>7, <1>10
<1>11. ASSUME UNCHANGED <<journal, durable>> PROVE Goal
  BY <1>2, <1>7, <1>11
<1>12. ASSUME NEW p \in Process, NEW rc \in Receipt, Asked(p, rc) PROVE Goal
  BY <1>11, <1>12 DEF Asked, Propose, fileVars
<1>13. ASSUME NEW p \in Process, Recover(p) PROVE Goal
  BY <1>11, <1>13 DEF Recover, fileVars
<1>14. ASSUME NEW p \in Process, Finalize(p) PROVE Goal
  BY <1>11, <1>14 DEF Finalize, fileVars
<1>15. ASSUME NEW p \in Process, Link(p) PROVE Goal
  BY <1>11, <1>15 DEF Link
<1>16. ASSUME NEW p \in Process, LinkRefused(p) PROVE Goal
  BY <1>11, <1>16 DEF LinkRefused, fileVars
<1>17. ASSUME NEW p \in Process, SyncDirectory(p) PROVE Goal
  BY <1>11, <1>17 DEF SyncDirectory
<1>18. ASSUME NEW p \in Process, WriteFails(p) PROVE Goal
  BY <1>10, <1>18 DEF WriteFails
<1>19. ASSUME NEW p \in Process, Kill(p) PROVE Goal
  BY <1>10, <1>19 DEF Kill
<1>20. ASSUME HostCrash PROVE Goal
  BY <1>5, <1>20
<1>21. ASSUME UNCHANGED accessVars PROVE Goal
  BY <1>11, <1>21 DEF accessVars, fileVars
<1>22. Goal
  BY <1>8, <1>9, <1>12, <1>13, <1>14, <1>15, <1>16, <1>17, <1>18, <1>19, <1>20,
     <1>21, StepCases
<1> QED BY <1>22

\* What a process counts and what it writes, from one step to the next.
LEMMA MemoryStep ==
  ASSUME TypeOK, CallSound, [Next]_accessVars, NEW q \in Process
  PROVE  \/ memory'[q] = memory[q]
         \/ /\ Sync(q)
            /\ memory'[q] = Append(memory[q], call[q].receipt)
         \/ Recover(q) /\ memory'[q] = ListOf(journal)
<1> DEFINE Goal ==
      \/ memory'[q] = memory[q]
      \/ /\ Sync(q)
         /\ memory'[q] = Append(memory[q], call[q].receipt)
      \/ Recover(q) /\ memory'[q] = ListOf(journal)
<1>1. ASSUME NEW p \in Process, Sync(p) PROVE Goal
  BY <1>1 DEF Sync, Counting, TypeOK
<1>2. ASSUME NEW p \in Process, Recover(p) PROVE Goal
  BY <1>2 DEF Recover, TypeOK
<1>3. ASSUME UNCHANGED memory PROVE Goal
  BY <1>3
<1> HIDE DEF Goal
<1>4. ASSUME NEW p \in Process, NEW rc \in Receipt, Asked(p, rc) PROVE Goal
  BY <1>3, <1>4 DEF Asked, Propose
<1>5. ASSUME NEW p \in Process, Write(p) PROVE Goal
  BY <1>3, <1>5 DEF Write
<1>6. ASSUME NEW p \in Process, Finalize(p) PROVE Goal
  BY <1>3, <1>6 DEF Finalize
<1>7. ASSUME NEW p \in Process, Link(p) PROVE Goal
  BY <1>3, <1>7 DEF Link
<1>8. ASSUME NEW p \in Process, LinkRefused(p) PROVE Goal
  BY <1>3, <1>8 DEF LinkRefused
<1>9. ASSUME NEW p \in Process, SyncDirectory(p) PROVE Goal
  BY <1>3, <1>9 DEF SyncDirectory
<1>10. ASSUME NEW p \in Process, WriteFails(p) PROVE Goal
  BY <1>3, <1>10 DEF WriteFails
<1>11. ASSUME NEW p \in Process, Kill(p) PROVE Goal
  BY <1>3, <1>11 DEF Kill
<1>12. ASSUME HostCrash PROVE Goal
  BY <1>3, <1>12 DEF HostCrash
<1>13. ASSUME UNCHANGED accessVars PROVE Goal
  BY <1>3, <1>13 DEF accessVars
<1>14. Goal
  BY <1>1, <1>2, <1>4, <1>5, <1>6, <1>7, <1>8, <1>9, <1>10, <1>11, <1>12, <1>13,
     StepCases
<1> QED BY <1>14 DEF Goal

\* The life of a process goes one way; only Recover starts it.
LEMMA LifeStep ==
  ASSUME TypeOK, [Next]_accessVars, NEW q \in Process
  PROVE  life'[q] = life[q] \/ life'[q] \in {"done", "dead"} \/ Recover(q)
<1> DEFINE Goal == life'[q] = life[q] \/ life'[q] \in {"done", "dead"} \/ Recover(q)
<1>1. ASSUME UNCHANGED life PROVE Goal
  BY <1>1
<1>2. ASSUME NEW p \in Process, Recover(p) PROVE Goal
  BY <1>2 DEF Recover, TypeOK
<1>3. ASSUME NEW p \in Process, SyncDirectory(p) PROVE Goal
  BY <1>3 DEF SyncDirectory, TypeOK
<1>4. ASSUME NEW p \in Process, life' = AfterThrow(p) PROVE Goal
  BY <1>4 DEF AfterThrow, TypeOK
<1>5. ASSUME NEW p \in Process, Kill(p) PROVE Goal
  BY <1>5 DEF Kill, TypeOK
<1>6. ASSUME HostCrash PROVE Goal
  BY <1>6 DEF HostCrash
<1> HIDE DEF Goal
<1>7. ASSUME NEW p \in Process, NEW rc \in Receipt, Asked(p, rc) PROVE Goal
  BY <1>1, <1>7 DEF Asked, Propose
<1>8. ASSUME NEW p \in Process, Write(p) PROVE Goal
  BY <1>1, <1>8 DEF Write
<1>9. ASSUME NEW p \in Process, Sync(p) PROVE Goal
  BY <1>1, <1>9 DEF Sync
<1>10. ASSUME NEW p \in Process, Finalize(p) PROVE Goal
  BY <1>1, <1>10 DEF Finalize
<1>11. ASSUME NEW p \in Process, Link(p) PROVE Goal
  BY <1>1, <1>11 DEF Link
<1>12. ASSUME NEW p \in Process, LinkRefused(p) PROVE Goal
  BY <1>4, <1>12 DEF LinkRefused
<1>13. ASSUME NEW p \in Process, WriteFails(p) PROVE Goal
  BY <1>4, <1>13 DEF WriteFails
<1>14. ASSUME UNCHANGED accessVars PROVE Goal
  BY <1>1, <1>14 DEF accessVars
<1>15. Goal
  BY <1>2, <1>3, <1>5, <1>6, <1>7, <1>8, <1>9, <1>10, <1>11, <1>12, <1>13, <1>14,
     StepCases
<1> QED BY <1>15 DEF Goal

\* A line awaits its fsync because it was just written, or as before.
LEMMA SyncStep ==
  ASSUME TypeOK, CallSound, [Next]_accessVars, NEW q \in Process,
         call'[q].stage = "sync"
  PROVE  \/ Write(q)
         \/ ~HostCrash /\ call[q].stage = "sync" /\ call'[q] = call[q]
<1> DEFINE Goal == Write(q) \/ call'[q] = call[q]
<1>1. ASSUME NEW p \in Process, NEW rc \in Receipt, Asked(p, rc) PROVE Goal
  <2>1. /\ call'[p] = [stage |-> "write", receipt |-> rc]
        /\ \A r \in Process \ {p} : call'[r] = call[r]
    BY <1>1, ProposeType DEF Asked
  <2>2. q # p
    BY <2>1
  <2> QED BY <2>1, <2>2
<1>2. ASSUME NEW p \in Process, Write(p) PROVE Goal
  BY <1>2 DEF Write, TypeOK
<1>3. ASSUME NEW p \in Process, Sync(p) PROVE Goal
  BY <1>3 DEF Sync, TypeOK, Idle
<1>4. ASSUME NEW p \in Process, Recover(p) PROVE Goal
  BY <1>4 DEF Recover
<1>5. ASSUME NEW p \in Process, Finalize(p) PROVE Goal
  BY <1>5 DEF Finalize, TypeOK
<1>6. ASSUME NEW p \in Process, Link(p) PROVE Goal
  BY <1>6 DEF Link, TypeOK
<1>7. ASSUME NEW p \in Process, call' = [call EXCEPT ![p] = Idle] PROVE Goal
  BY <1>7 DEF TypeOK, Idle
<1>8. ASSUME NEW p \in Process, LinkRefused(p) PROVE Goal
  BY <1>7, <1>8 DEF LinkRefused
<1>9. ASSUME NEW p \in Process, SyncDirectory(p) PROVE Goal
  BY <1>7, <1>9 DEF SyncDirectory
<1>10. ASSUME NEW p \in Process, WriteFails(p) PROVE Goal
  BY <1>7, <1>10 DEF WriteFails
<1>11. ASSUME NEW p \in Process, Kill(p) PROVE Goal
  BY <1>7, <1>11 DEF Kill
<1>12. ~HostCrash
  BY DEF HostCrash, Idle
<1>13. ASSUME UNCHANGED accessVars PROVE Goal
  BY <1>13 DEF accessVars
<1> HIDE DEF Goal
<1>14. Goal
  BY <1>1, <1>2, <1>3, <1>4, <1>5, <1>6, <1>8, <1>9, <1>10, <1>11, <1>12, <1>13,
     StepCases
<1> QED BY <1>12, <1>14 DEF Goal

-----------------------------------------------------------------------------
(* The invariant *)

LEMMA DurableStep ==
  ASSUME TypeOK, CallSound, Durable, Inherited, [Next]_accessVars
  PROVE  Durable'
<1>1. ASSUME NEW q \in Process, call'[q].stage = "sync"
      PROVE  \E i \in 1 .. Len(journal') :
               journal'[i] = Append(memory'[q], call'[q].receipt)
  <2>1. CASE Write(q)
    <3> DEFINE line == Append(memory[q], call[q].receipt)
    <3>1. line \in Seq(Receipt)
      BY <2>1 DEF Write, TypeOK, CallSound
    <3>2. /\ journal' = Append(journal, line)
          /\ memory'[q] = memory[q]
          /\ call'[q].receipt = call[q].receipt
      BY <2>1 DEF Write, TypeOK
    <3> HIDE DEF line
    <3>3. Len(journal') = Len(journal) + 1 /\ journal'[Len(journal) + 1] = line
      BY <3>1, <3>2 DEF TypeOK
    <3>4. Len(journal) + 1 \in 1 .. Len(journal')
      BY <3>3 DEF TypeOK
    <3> QED BY <3>2, <3>3, <3>4 DEF line
  <2>2. CASE ~HostCrash /\ call[q].stage = "sync" /\ call'[q] = call[q]
    <3>1. PICK i \in 1 .. Len(journal) :
            journal[i] = Append(memory[q], call[q].receipt)
      BY <2>2 DEF Durable
    <3>2. i \in 1 .. Len(journal') /\ journal'[i] = journal[i]
      BY <2>2, LinesStay
    <3>3. ~Sync(q)
      BY <2>2 DEF Sync, TypeOK, Idle
    <3>4. ~Recover(q)
      BY <2>2 DEF Recover, CallSound, Running
    <3>5. memory'[q] = memory[q]
      BY <3>3, <3>4, MemoryStep
    <3> QED BY <2>2, <3>1, <3>2, <3>5
  <2> QED BY <1>1, <2>1, <2>2, SyncStep
<1>2. memory'[Owner] = <<>> \/ \E i \in 1 .. durable' : journal'[i] = memory'[Owner]
  <2>1. Owner \in Process
    BY DEF Process
  <2>2. CASE memory'[Owner] = memory[Owner]
    <3>1. CASE memory[Owner] = <<>>
      BY <2>2, <3>1
    <3>2. ASSUME NEW i \in 1 .. durable, journal[i] = memory[Owner]
          PROVE  \E k \in 1 .. durable' : journal'[k] = memory'[Owner]
      BY <2>2, <3>2, LinesStay
    <3> QED BY <3>1, <3>2 DEF Durable
  <2>3. CASE Sync(Owner) /\ memory'[Owner] = Append(memory[Owner], call[Owner].receipt)
    BY <2>1, <2>3 DEF Sync, SyncedLines, Durable
  <2>4. ~Recover(Owner)
    BY DEF Inherited, Recover
  <2> QED BY <2>1, <2>2, <2>3, <2>4, MemoryStep
<1> QED BY <1>1, <1>2 DEF Durable

LEMMA InheritedStep ==
  ASSUME TypeOK, CallSound, Durable, Inherited, [Next]_accessVars
  PROVE  Inherited'
<1>1. Owner \in Process /\ ~Recover(Owner)
  BY DEF Process, Inherited, Recover
<1>2. life'[Owner] # "absent"
  BY <1>1, LifeStep DEF Inherited
<1>3. ASSUME ~Overlap, NEW p \in Process, Running(p)'
      PROVE  Running(p) \/ (Recover(p) /\ \A q \in Process : Running(q)' => q = p)
  <2>1. CASE Recover(p)
    <3>1. ASSUME NEW q \in Process, q # p PROVE ~Running(q)'
      BY <1>3, <2>1, <3>1 DEF Recover, Running, TypeOK
    <3> QED BY <2>1, <3>1
  <2>2. CASE ~Recover(p)
    BY <1>3, <2>2, LifeStep DEF Running
  <2> QED BY <2>1, <2>2
<1>4. ASSUME ~Overlap, NEW p \in Process, NEW q \in Process, Running(p)', Running(q)'
      PROVE  p = q
  BY <1>3, <1>4 DEF Inherited
<1>5. ASSUME ~Overlap, NEW p \in Process, Running(p)'
      PROVE  IsPrefix(memory'[Owner], memory'[p])
  <2>1. CASE p = Owner
    <3>1. memory'[Owner] \in Seq(Receipt)
      BY TypeStep, <1>1 DEF TypeOK
    <3> QED BY <2>1, <3>1, PrefixMeans
  <2>2. CASE p # Owner
    <3>1. ~Sync(Owner)
      <4>1. ASSUME Sync(Owner) PROVE FALSE
        <5>1. Running(Owner) /\ ~Recover(p)
          BY <1>1, <1>5, <4>1 DEF Sync, CallSound, Recover
        <5> QED BY <1>1, <1>3, <1>5, <2>2, <5>1 DEF Inherited
      <4> QED BY <4>1
    <3>2. memory'[Owner] = memory[Owner]
      BY <3>1, <1>1, MemoryStep
    <3>3. CASE Recover(p)
      <4>1. memory'[p] = ListOf(journal) /\ Readable
        BY <3>3 DEF Recover, TypeOK
      <4>2. ListOf(journal) \in Seq(Receipt)
        BY DEF TypeOK, ListOf, Last
      <4>3. CASE memory[Owner] = <<>>
        BY <4>1, <4>2, <4>3, <3>2 DEF IsPrefix
      <4>4. ASSUME NEW i \in 1 .. durable, journal[i] = memory[Owner]
            PROVE  IsPrefix(memory[Owner], ListOf(journal))
        <5>1. i \in DOMAIN journal /\ journal # <<>>
          BY DEF TypeOK
        <5> QED BY <4>1, <4>4, <5>1 DEF Readable, Chained, ListOf
      <4> QED BY <4>1, <4>3, <4>4, <3>2 DEF Durable
    <3>4. CASE ~Recover(p)
      <4>1. IsPrefix(memory[Owner], memory[p])
        BY <1>3, <1>5, <3>4 DEF Inherited
      <4>2. CASE Sync(p) /\ memory'[p] = Append(memory[p], call[p].receipt)
        <5>1. call[p].receipt \in Receipt
          BY <4>2 DEF Sync, CallSound
        <5>2. memory[Owner] \in Seq(Receipt) /\ memory[p] \in Seq(Receipt)
          BY <1>1 DEF TypeOK
        <5> QED BY <4>1, <4>2, <5>1, <5>2, <3>2, PrefixGrows
      <4> QED BY <4>1, <4>2, <3>2, <3>4, MemoryStep
    <3> QED BY <3>3, <3>4
  <2> QED BY <2>1, <2>2
<1> QED BY <1>2, <1>4, <1>5 DEF Inherited

\* Who has published: its list is in the bundle, which no later step replaces.
LEMMA PublishedStep ==
  ASSUME TypeOK, CallSound, Published, [Next]_accessVars
  PROVE  Published'
<1> USE DEF Running
<1> DEFINE Holds(q) ==
      call[q].stage = "syncdir" \/ life[q] = "done" =>
        /\ bundle # None
        /\ bundle.receipts = memory[q]
        /\ life[q] = "done" => sealed
<1> SUFFICES ASSUME NEW q \in Process PROVE Holds(q)'
  BY DEF Published
<1>0. Holds(q)
  BY DEF Published
<1>1. ASSUME NEW p \in Process, NEW rc \in Receipt, Asked(p, rc) PROVE Holds(q)'
  <2>1. call'[q].stage = "syncdir" => call[q].stage = "syncdir"
    <3>1. /\ call'[p] = [stage |-> "write", receipt |-> rc]
          /\ \A r \in Process \ {p} : call'[r] = call[r]
      BY <1>1, ProposeType DEF Asked
    <3> QED BY <3>1
  <2> QED BY <1>0, <1>1, <2>1 DEF Asked, Propose, fileVars
<1>2. ASSUME NEW p \in Process, Write(p) PROVE Holds(q)'
  BY <1>0, <1>2 DEF Write, TypeOK
<1>3. ASSUME NEW p \in Process, Sync(p) PROVE Holds(q)'
  BY <1>0, <1>3 DEF Sync, TypeOK, Idle, CallSound
<1>4. ASSUME NEW p \in Process, Recover(p) PROVE Holds(q)'
  BY <1>0, <1>4 DEF Recover, TypeOK, CallSound
<1>5. ASSUME NEW p \in Process, Finalize(p) PROVE Holds(q)'
  BY <1>0, <1>5 DEF Finalize, TypeOK, fileVars
<1>6. ASSUME NEW p \in Process, Link(p) PROVE Holds(q)'
  <2>1. [receipts |-> memory[p], recovered |-> p # Owner]
          \in [receipts : Seq(Receipt), recovered : BOOLEAN]
    BY DEF TypeOK
  <2>2. bundle' # None /\ bundle'.receipts = memory[p] /\ memory' = memory
    BY <1>6, <2>1, AccessAssumption DEF Link
  <2>3. life' = life /\ life[q] # "done" /\ call[q].stage # "syncdir"
    BY <1>0, <1>6 DEF Link, MayLink
  <2>4. q # p => call'[q] = call[q]
    BY <1>6 DEF Link, TypeOK
  <2> QED BY <2>2, <2>3, <2>4
<1>7. ASSUME NEW p \in Process, LinkRefused(p) PROVE Holds(q)'
  BY <1>0, <1>7 DEF LinkRefused, AfterThrow, TypeOK, Idle, fileVars
<1>8. ASSUME NEW p \in Process, SyncDirectory(p) PROVE Holds(q)'
  BY <1>0, <1>8 DEF SyncDirectory, TypeOK, Idle
<1>9. ASSUME NEW p \in Process, WriteFails(p) PROVE Holds(q)'
  BY <1>0, <1>9 DEF WriteFails, AfterThrow, TypeOK, Idle
<1>10. ASSUME NEW p \in Process, Kill(p) PROVE Holds(q)'
  BY <1>0, <1>10 DEF Kill, TypeOK, Idle
<1>11. ASSUME HostCrash PROVE Holds(q)'
  BY <1>0, <1>11 DEF HostCrash, Idle
<1>12. ASSUME UNCHANGED accessVars PROVE Holds(q)'
  BY <1>0, <1>12 DEF accessVars, fileVars
<1> QED
  BY <1>1, <1>2, <1>3, <1>4, <1>5, <1>6, <1>7, <1>8, <1>9, <1>10, <1>11, <1>12,
     StepCases

\* A list is as honest as its receipts, and stays so when more is told.
LEMMA HonestGrows ==
  ASSUME NEW list \in Seq(Receipt), NEW rc \in Receipt, NEW told, NEW more,
         told \subseteq more, Honest(list, told)
  PROVE  /\ Honest(list, more)
         /\ Honest(<<rc>>, more) => Honest(Append(list, rc), more)
<1>1. Honest(list, more)
  BY DEF Honest
<1>2. ReceiptsIn(Append(list, rc)) \subseteq ReceiptsIn(list) \cup {rc}
  <2>1. /\ DOMAIN Append(list, rc) = 1 .. Len(list) + 1
        /\ \A i \in 1 .. Len(list) : Append(list, rc)[i] = list[i]
        /\ Append(list, rc)[Len(list) + 1] = rc
    OBVIOUS
  <2>2. DOMAIN list = 1 .. Len(list) /\ Len(list) \in Nat
    OBVIOUS
  <2>3. ASSUME NEW i \in 1 .. Len(list) + 1
        PROVE  Append(list, rc)[i] \in ReceiptsIn(list) \cup {rc}
    <3>1. i \in 1 .. Len(list) \/ i = Len(list) + 1
      BY <2>2
    <3> QED BY <2>1, <2>2, <3>1 DEF ReceiptsIn
  <2> QED BY <2>1, <2>3 DEF ReceiptsIn
<1>3. rc \in ReceiptsIn(<<rc>>)
  <2>1. 1 \in DOMAIN <<rc>> /\ <<rc>>[1] = rc
    OBVIOUS
  <2> QED BY <2>1 DEF ReceiptsIn
<1> QED BY <1>1, <1>2, <1>3 DEF Honest

\* The terminal receipts the owner asked for are never forgotten.
LEMMA ToldStep ==
  ASSUME TypeOK, [Next]_accessVars
  PROVE  reported \subseteq reported'
<1> DEFINE Goal == reported \subseteq reported'
<1>1. ASSUME UNCHANGED reported PROVE Goal
  BY <1>1
<1>2. ASSUME NEW p \in Process, NEW rc \in Receipt, Asked(p, rc) PROVE Goal
  BY <1>2 DEF Asked
<1> HIDE DEF Goal
<1>3. ASSUME NEW p \in Process, Write(p) PROVE Goal
  BY <1>1, <1>3 DEF Write
<1>4. ASSUME NEW p \in Process, Sync(p) PROVE Goal
  BY <1>1, <1>4 DEF Sync
<1>5. ASSUME NEW p \in Process, Recover(p) PROVE Goal
  BY <1>1, <1>5 DEF Recover
<1>6. ASSUME NEW p \in Process, Finalize(p) PROVE Goal
  BY <1>1, <1>6 DEF Finalize
<1>7. ASSUME NEW p \in Process, Link(p) PROVE Goal
  BY <1>1, <1>7 DEF Link
<1>8. ASSUME NEW p \in Process, LinkRefused(p) PROVE Goal
  BY <1>1, <1>8 DEF LinkRefused
<1>9. ASSUME NEW p \in Process, SyncDirectory(p) PROVE Goal
  BY <1>1, <1>9 DEF SyncDirectory
<1>10. ASSUME NEW p \in Process, WriteFails(p) PROVE Goal
  BY <1>1, <1>10 DEF WriteFails
<1>11. ASSUME NEW p \in Process, Kill(p) PROVE Goal
  BY <1>1, <1>11 DEF Kill
<1>12. ASSUME HostCrash PROVE Goal
  BY <1>1, <1>12 DEF HostCrash
<1>13. ASSUME UNCHANGED accessVars PROVE Goal
  BY <1>1, <1>13 DEF accessVars
<1>14. Goal
  BY <1>2, <1>3, <1>4, <1>5, <1>6, <1>7, <1>8, <1>9, <1>10, <1>11, <1>12, <1>13,
     StepCases
<1> QED BY <1>14 DEF Goal

\* A receipt a process is about to count or to write was asked for.
LEMMA WrittenStep ==
  ASSUME TypeOK, CallSound, AllHonest, [Next]_accessVars, NEW q \in Process,
         call'[q].stage \in {"write", "sync"}
  PROVE  Honest(<<call'[q].receipt>>, reported')
<1> DEFINE Before == /\ call[q].stage \in {"write", "sync"}
                     /\ call'[q].receipt = call[q].receipt
           Goal == Before \/ Honest(<<call'[q].receipt>>, reported')
<1>1. ASSUME NEW p \in Process, NEW rc \in Receipt, Asked(p, rc) PROVE Goal
  <2>1. /\ call'[p] = [stage |-> "write", receipt |-> rc]
        /\ \A r \in Process \ {p} : call'[r] = call[r]
    BY <1>1, ProposeType DEF Asked
  <2>2. ReceiptsIn(<<rc>>) = {rc}
    BY DEF ReceiptsIn
  <2>3. Honest(<<rc>>, reported')
    BY <1>1, <2>2 DEF Asked, Honest
  <2>4. CASE q = p
    BY <2>1, <2>3, <2>4
  <2>5. CASE q # p
    BY <2>1, <2>5
  <2> QED BY <2>4, <2>5
<1>2. ASSUME NEW p \in Process, Write(p) PROVE Goal
  BY <1>2 DEF Write, TypeOK
<1>3. ASSUME NEW p \in Process, call' = [call EXCEPT ![p] = Idle] PROVE Goal
  BY <1>3 DEF TypeOK, Idle
<1>4. ASSUME NEW p \in Process, Finalize(p) PROVE Goal
  BY <1>4 DEF Finalize, TypeOK
<1>5. ASSUME NEW p \in Process, Link(p) PROVE Goal
  BY <1>5 DEF Link, TypeOK
<1>6. ASSUME HostCrash PROVE Goal
  BY <1>6 DEF HostCrash, Idle
<1>7. ASSUME UNCHANGED call PROVE Goal
  BY <1>7
<1> HIDE DEF Goal
<1>8. ASSUME NEW p \in Process, Sync(p) PROVE Goal
  BY <1>3, <1>8 DEF Sync
<1>9. ASSUME NEW p \in Process, Recover(p) PROVE Goal
  BY <1>7, <1>9 DEF Recover
<1>10. ASSUME NEW p \in Process, LinkRefused(p) PROVE Goal
  BY <1>3, <1>10 DEF LinkRefused
<1>11. ASSUME NEW p \in Process, SyncDirectory(p) PROVE Goal
  BY <1>3, <1>11 DEF SyncDirectory
<1>12. ASSUME NEW p \in Process, WriteFails(p) PROVE Goal
  BY <1>3, <1>12 DEF WriteFails
<1>13. ASSUME NEW p \in Process, Kill(p) PROVE Goal
  BY <1>3, <1>13 DEF Kill
<1>14. ASSUME UNCHANGED accessVars PROVE Goal
  BY <1>7, <1>14 DEF accessVars
<1>15. Goal
  BY <1>1, <1>2, <1>4, <1>5, <1>6, <1>8, <1>9, <1>10, <1>11, <1>12, <1>13, <1>14,
     StepCases
<1>16. ASSUME Before PROVE Honest(<<call'[q].receipt>>, reported')
  <2>1. Honest(<<call[q].receipt>>, reported)
    BY <1>16 DEF AllHonest
  <2>2. reported \subseteq reported'
    BY ToldStep
  <2> QED BY <1>16, <2>1, <2>2 DEF Honest
<1> QED BY <1>15, <1>16 DEF Goal

\* Where the lines of the journal come from.
LEMMA LineStep ==
  ASSUME TypeOK, CallSound, [Next]_accessVars, NEW i \in 1 .. Len(journal')
  PROVE  \/ i \in 1 .. Len(journal) /\ journal'[i] = journal[i]
         \/ journal'[i] = <<>>
         \/ \E p \in Process :
              /\ call[p].stage = "write"
              /\ journal'[i] = Append(memory[p], call[p].receipt)
<1> DEFINE Goal ==
      \/ i \in 1 .. Len(journal) /\ journal'[i] = journal[i]
      \/ journal'[i] = <<>>
      \/ \E p \in Process :
           /\ call[p].stage = "write"
           /\ journal'[i] = Append(memory[p], call[p].receipt)
<1>1. ASSUME UNCHANGED journal PROVE Goal
  BY <1>1
<1>2. ASSUME NEW line \in Seq(Receipt), journal' = Append(journal, line)
      PROVE  (i \in 1 .. Len(journal) /\ journal'[i] = journal[i]) \/ journal'[i] = line
  BY <1>2 DEF TypeOK
<1>3. ASSUME NEW p \in Process, CutShort(p) PROVE Goal
  <2>1. <<>> \in Seq(Receipt)
    OBVIOUS
  <2>2. CASE journal' = Append(journal, <<>>)
    BY <1>2, <2>1, <2>2
  <2> QED BY <1>1, <1>3, <2>2 DEF CutShort
<1>4. ASSUME NEW p \in Process, Write(p) PROVE Goal
  <2>1. Append(memory[p], call[p].receipt) \in Seq(Receipt)
    BY <1>4 DEF Write, TypeOK, CallSound
  <2>2. call[p].stage = "write" /\ journal' = Append(journal, Append(memory[p], call[p].receipt))
    BY <1>4 DEF Write
  <2> QED BY <1>2, <2>1, <2>2
<1>5. ASSUME HostCrash PROVE Goal
  <2>1. PICK kept \in durable .. Len(journal) :
          \/ journal' = SubSeq(journal, 1, kept)
          \/ journal' = Append(SubSeq(journal, 1, kept), <<>>)
    BY <1>5 DEF HostCrash
  <2>2. kept \in Nat /\ kept <= Len(journal)
    BY DEF TypeOK
  <2> DEFINE cut == SubSeq(journal, 1, kept)
  <2>3. /\ cut \in Seq(Seq(Receipt))
        /\ Len(cut) = kept
        /\ \A k \in 1 .. kept : k \in 1 .. Len(journal) /\ cut[k] = journal[k]
    BY <2>2 DEF TypeOK
  <2>4. journal' \in {cut, Append(cut, <<>>)}
    BY <2>1
  <2> HIDE DEF cut
  <2>5. <<>> \in Seq(Receipt)
    OBVIOUS
  <2>6. /\ Len(Append(cut, <<>>)) = kept + 1
        /\ \A k \in 1 .. kept : Append(cut, <<>>)[k] = cut[k]
        /\ Append(cut, <<>>)[kept + 1] = <<>>
    BY <2>2, <2>3, <2>5
  <2>7. CASE journal' = cut
    BY <2>3, <2>7
  <2>8. CASE journal' = Append(cut, <<>>)
    <3>1. i \in 1 .. kept + 1
      BY <2>6, <2>8, Zenon
    <3>2. i = kept + 1 \/ i \in 1 .. kept
      BY <3>1, <2>2
    <3>3. CASE i = kept + 1
      BY <2>6, <2>8, <3>3, Zenon
    <3>4. CASE i \in 1 .. kept
      BY <2>3, <2>6, <2>8, <3>4, Zenon
    <3> QED BY <3>2, <3>3, <3>4
  <2> QED BY <2>4, <2>7, <2>8
<1> HIDE DEF Goal
<1>6. ASSUME NEW p \in Process, NEW rc \in Receipt, Asked(p, rc) PROVE Goal
  BY <1>1, <1>6 DEF Asked, Propose, fileVars
<1>7. ASSUME NEW p \in Process, Sync(p) PROVE Goal
  BY <1>1, <1>7 DEF Sync
<1>8. ASSUME NEW p \in Process, Recover(p) PROVE Goal
  BY <1>1, <1>8 DEF Recover, fileVars
<1>9. ASSUME NEW p \in Process, Finalize(p) PROVE Goal
  BY <1>1, <1>9 DEF Finalize, fileVars
<1>10. ASSUME NEW p \in Process, Link(p) PROVE Goal
  BY <1>1, <1>10 DEF Link
<1>11. ASSUME NEW p \in Process, LinkRefused(p) PROVE Goal
  BY <1>1, <1>11 DEF LinkRefused, fileVars
<1>12. ASSUME NEW p \in Process, SyncDirectory(p) PROVE Goal
  BY <1>1, <1>12 DEF SyncDirectory
<1>13. ASSUME NEW p \in Process, WriteFails(p) PROVE Goal
  BY <1>3, <1>13 DEF WriteFails
<1>14. ASSUME NEW p \in Process, Kill(p) PROVE Goal
  BY <1>3, <1>14 DEF Kill
<1>15. ASSUME UNCHANGED accessVars PROVE Goal
  BY <1>1, <1>15 DEF accessVars, fileVars
<1>16. Goal
  BY <1>4, <1>5, <1>6, <1>7, <1>8, <1>9, <1>10, <1>11, <1>12, <1>13, <1>14, <1>15,
     StepCases
<1> QED BY <1>16 DEF Goal

\* A bundle is what it was, or what a process that links has counted.
LEMMA BundleStep ==
  ASSUME TypeOK, [Next]_accessVars
  PROVE  \/ bundle' \in {bundle, None}
         \/ \E p \in Process : Link(p) /\ bundle'.receipts = memory[p]
<1> DEFINE Goal == \/ bundle' \in {bundle, None}
                   \/ \E p \in Process : Link(p) /\ bundle'.receipts = memory[p]
<1>1. ASSUME UNCHANGED bundle PROVE Goal
  BY <1>1
<1>2. ASSUME NEW p \in Process, Link(p) PROVE Goal
  BY <1>2 DEF Link
<1>3. ASSUME HostCrash PROVE Goal
  BY <1>3 DEF HostCrash
<1> HIDE DEF Goal
<1>4. ASSUME NEW p \in Process, NEW rc \in Receipt, Asked(p, rc) PROVE Goal
  BY <1>1, <1>4 DEF Asked, Propose, fileVars
<1>5. ASSUME NEW p \in Process, Write(p) PROVE Goal
  BY <1>1, <1>5 DEF Write
<1>6. ASSUME NEW p \in Process, Sync(p) PROVE Goal
  BY <1>1, <1>6 DEF Sync
<1>7. ASSUME NEW p \in Process, Recover(p) PROVE Goal
  BY <1>1, <1>7 DEF Recover, fileVars
<1>8. ASSUME NEW p \in Process, Finalize(p) PROVE Goal
  BY <1>1, <1>8 DEF Finalize, fileVars
<1>9. ASSUME NEW p \in Process, LinkRefused(p) PROVE Goal
  BY <1>1, <1>9 DEF LinkRefused, fileVars
<1>10. ASSUME NEW p \in Process, SyncDirectory(p) PROVE Goal
  BY <1>1, <1>10 DEF SyncDirectory
<1>11. ASSUME NEW p \in Process, WriteFails(p) PROVE Goal
  BY <1>1, <1>11 DEF WriteFails
<1>12. ASSUME NEW p \in Process, Kill(p) PROVE Goal
  BY <1>1, <1>12 DEF Kill
<1>13. ASSUME UNCHANGED accessVars PROVE Goal
  BY <1>1, <1>13 DEF accessVars, fileVars
<1>14. Goal
  BY <1>2, <1>3, <1>4, <1>5, <1>6, <1>7, <1>8, <1>9, <1>10, <1>11, <1>12, <1>13,
     StepCases
<1> QED BY <1>14 DEF Goal

LEMMA HonestStep ==
  ASSUME TypeOK, CallSound, AllHonest, [Next]_accessVars
  PROVE  AllHonest'
<1>1. reported \subseteq reported'
  BY ToldStep
<1>2. ASSUME NEW list \in Seq(Receipt), Honest(list, reported)
      PROVE  Honest(list, reported')
  BY <1>1, <1>2 DEF Honest
<1>3. Honest(<<>>, reported')
  BY DEF Honest, ReceiptsIn
<1>4. ASSUME NEW q \in Process
      PROVE  memory[q] \in Seq(Receipt) /\ Honest(memory[q], reported)
  BY DEF TypeOK, AllHonest
<1>5. ASSUME NEW q \in Process, call[q].stage \in {"write", "sync"}
      PROVE  Honest(Append(memory[q], call[q].receipt), reported')
  <2>1. call[q].receipt \in Receipt /\ Honest(<<call[q].receipt>>, reported)
    BY <1>5 DEF CallSound, AllHonest
  <2>2. Honest(<<call[q].receipt>>, reported')
    BY <1>1, <2>1 DEF Honest
  <2> QED BY <1>1, <1>4, <2>1, <2>2, HonestGrows
<1>6. ASSUME NEW q \in Process PROVE Honest(memory'[q], reported')
  <2>1. CASE memory'[q] = memory[q]
    BY <1>2, <1>4, <2>1
  <2>2. CASE Sync(q) /\ memory'[q] = Append(memory[q], call[q].receipt)
    BY <1>5, <2>2 DEF Sync
  <2>3. CASE memory'[q] = ListOf(journal)
    <3>1. CASE journal = <<>>
      BY <1>3, <2>3, <3>1 DEF ListOf
    <3>2. CASE journal # <<>>
      <4>1. ListOf(journal) = journal[Len(journal)] /\ Len(journal) \in 1 .. Len(journal)
        BY <3>2 DEF ListOf, Last, TypeOK
      <4>2. ListOf(journal) \in Seq(Receipt) /\ Honest(ListOf(journal), reported)
        BY <4>1 DEF TypeOK, AllHonest
      <4> QED BY <1>2, <2>3, <4>2
    <3> QED BY <3>1, <3>2
  <2> QED BY <2>1, <2>2, <2>3, MemoryStep
<1>7. ASSUME NEW i \in 1 .. Len(journal') PROVE Honest(journal'[i], reported')
  <2>1. CASE i \in 1 .. Len(journal) /\ journal'[i] = journal[i]
    <3>1. journal[i] \in Seq(Receipt) /\ Honest(journal[i], reported)
      BY <2>1 DEF TypeOK, AllHonest
    <3> QED BY <1>2, <2>1, <3>1
  <2>2. CASE journal'[i] = <<>>
    BY <1>3, <2>2
  <2>3. ASSUME NEW p \in Process, call[p].stage = "write",
               journal'[i] = Append(memory[p], call[p].receipt)
        PROVE  Honest(journal'[i], reported')
    BY <1>5, <2>3
  <2> QED BY <2>1, <2>2, <2>3, LineStep
<1>8. bundle' # None => Honest(bundle'.receipts, reported')
  <2>1. ASSUME bundle # None PROVE Honest(bundle.receipts, reported')
    <3>1. Honest(bundle.receipts, reported) /\ bundle.receipts \in Seq(Receipt)
      BY <2>1 DEF AllHonest, TypeOK
    <3> QED BY <1>2, <3>1
  <2>2. ASSUME NEW p \in Process, bundle'.receipts = memory[p]
        PROVE  Honest(bundle'.receipts, reported')
    BY <1>2, <1>4, <2>2
  <2> QED BY <2>1, <2>2, BundleStep
<1> QED BY <1>6, <1>7, <1>8, WrittenStep DEF AllHonest

\* What a step of the journal alone preserves; a proxy that uses it relies on this too.
LEMMA IInvStep ==
  ASSUME IInv, [Next]_accessVars
  PROVE  IInv'
<1>1. TypeOK /\ CallSound /\ Durable /\ Inherited /\ Published /\ AllHonest
  BY DEF IInv
<1>2. TypeOK' /\ CallSound'
  BY <1>1, TypeStep, CallStep
<1>3. Durable' /\ Inherited'
  BY <1>1, DurableStep, InheritedStep
<1>4. Published' /\ AllHonest'
  BY <1>1, PublishedStep, HonestStep
<1> QED BY <1>2, <1>3, <1>4 DEF IInv

\* The inductive invariant holds in every reachable state, whatever is killed, fails
\* or overlaps.
THEOREM Invariance == Spec => []IInv
<1>1. Init => IInv
  BY Init_IInv
<1>2. IInv /\ [Next]_accessVars => IInv'
  BY IInvStep
<1> QED BY <1>1, <1>2, PTL DEF Spec

-----------------------------------------------------------------------------
(* What a bundle is worth *)

\* The variables of every process, the journal and the bundle keep their types.
THEOREM TypeCorrect == Spec => []TypeOK
<1>1. IInv => TypeOK
  BY DEF IInv
<1> QED BY <1>1, Invariance, PTL

\* Whoever was told that its bundle is published finds that list there for ever: the
\* exclusive link and the directory fsync of finalize, against racing processes and
\* host crashes.
THEOREM PublicationIsFinal == Spec => []PublishedIsKept
<1>1. IInv => PublishedIsKept
  BY DEF IInv, Published, PublishedIsKept
<1> QED BY <1>1, Invariance, PTL

\* No outcome in a bundle is invented by recovery: what is not interrupted_unknown was
\* reported by the owner.
THEOREM OutcomesAreReported == Spec => []NothingInvented
<1>1. IInv => NothingInvented
  BY DEF IInv, AllHonest, Honest, Interrupted, NothingInvented
<1> QED BY <1>1, Invariance, PTL

\* A bundle that is published, by the owner or by recovery after any crashes, extends
\* what the owner had counted and leaves no authorization open, as long as recovery
\* waits for the session's processes to end.
THEOREM BundlesAreComplete == Spec => BundleComplete
<1>1. IInv /\ [Next]_accessVars =>
        [~Overlap /\ bundle' \notin {bundle, None} =>
           IsPrefix(memory[Owner], bundle'.receipts) /\ OpenIn(bundle'.receipts) = {}]_accessVars
  <2> SUFFICES ASSUME IInv, [Next]_accessVars, ~Overlap, bundle' \notin {bundle, None}
               PROVE  /\ IsPrefix(memory[Owner], bundle'.receipts)
                      /\ OpenIn(bundle'.receipts) = {}
    OBVIOUS
  <2>1. TypeOK /\ CallSound /\ Inherited
    BY DEF IInv
  <2>2. PICK p \in Process : Link(p) /\ bundle'.receipts = memory[p]
    BY <2>1, BundleStep
  <2>3. Running(p) /\ OpenIn(memory[p]) = {}
    BY <2>1, <2>2 DEF Link, CallSound
  <2> QED BY <2>1, <2>2, <2>3 DEF Inherited
<1> QED BY <1>1, Invariance, PTL DEF Spec, BundleComplete
-----------------------------------------------------------------------------
(* Chains *)

\* Lists compared with the library's own prefix relation.
LEMMA LastOf ==
  ASSUME NEW file \in Seq(Seq(Receipt)), file # <<>>
  PROVE  /\ Len(file) \in Nat \ {0} /\ Len(file) \in DOMAIN file
         /\ Last(file) = file[Len(file)] /\ Last(file) \in Seq(Receipt)
<1>1. Len(file) \in Nat \ {0}
  OBVIOUS
<1>2. Len(file) \in DOMAIN file /\ file[Len(file)] \in Seq(Receipt)
  BY <1>1
<1> QED BY <1>1, <1>2 DEF Last

LEMMA ListOfType ==
  ASSUME NEW file \in Seq(Seq(Receipt))
  PROVE  ListOf(file) \in Seq(Receipt)
BY LastOf DEF ListOf

\* A list stays well formed when a receipt that may follow it is appended,
\* and so is whatever it begins with.
LEMMA WellFormedGrows ==
  ASSUME NEW list \in Seq(Receipt), NEW rc \in Receipt,
         WellFormed(list), Follows(list, rc)
  PROVE  WellFormed(Append(list, rc))
<1> DEFINE more == Append(list, rc)
<1>1. /\ Len(list) \in Nat /\ more \in Seq(Receipt) /\ Len(more) = Len(list) + 1
      /\ more[Len(list) + 1] = rc
      /\ \A i \in 1 .. Len(list) : more[i] = list[i]
  OBVIOUS
<1> SUFFICES ASSUME NEW i \in 1 .. Len(list) + 1
             PROVE  Follows(SubSeq(more, 1, i - 1), more[i])
  BY <1>1 DEF WellFormed
<1>2. SubSeq(more, 1, i - 1) = SubSeq(list, 1, i - 1)
  BY <1>1
<1>3. CASE i \in 1 .. Len(list)
  <2>1. Follows(SubSeq(list, 1, i - 1), list[i])
    BY <1>3 DEF WellFormed
  <2> QED BY <2>1, <1>1, <1>2, <1>3
<1>4. CASE i = Len(list) + 1
  <2>1. SubSeq(list, 1, i - 1) = list
    BY <1>4, <1>1
  <2> QED BY <2>1, <1>1, <1>2, <1>4
<1> QED BY <1>3, <1>4, <1>1

LEMMA WellFormedBegins ==
  ASSUME NEW list \in Seq(Receipt), WellFormed(list), NEW n \in 0 .. Len(list)
  PROVE  WellFormed(SubSeq(list, 1, n))
<1> DEFINE some == SubSeq(list, 1, n)
<1>1. /\ Len(list) \in Nat /\ n \in Nat /\ n <= Len(list)
      /\ some \in Seq(Receipt) /\ Len(some) = n
      /\ \A i \in 1 .. n : some[i] = list[i]
  OBVIOUS
<1> SUFFICES ASSUME NEW i \in 1 .. n
             PROVE  Follows(SubSeq(some, 1, i - 1), some[i])
  BY <1>1 DEF WellFormed
<1>2. SubSeq(some, 1, i - 1) = SubSeq(list, 1, i - 1)
  BY <1>1
<1>3. Follows(SubSeq(list, 1, i - 1), list[i])
  BY <1>1 DEF WellFormed
<1> QED BY <1>1, <1>2, <1>3

\* The lines of a chain are the beginnings of the list it ends in.
LEMMA ChainLine ==
  ASSUME NEW file \in Seq(Seq(Receipt)), Chained(file), NEW n \in 1 .. Len(file)
  PROVE  /\ ListOf(file) = Last(file) /\ Len(ListOf(file)) = Len(file)
         /\ Len(file[n]) = n /\ file[n] \in Seq(Receipt)
         /\ file[n] = SubSeq(ListOf(file), 1, n)
<1>1. file # <<>>
  OBVIOUS
<1>2. ListOf(file) = Last(file) /\ Len(ListOf(file)) = Len(file)
  BY <1>1, LastOf DEF ListOf, Chained
<1>3. Len(file[n]) = n /\ file[n] \in Seq(Receipt) /\ IsPrefix(file[n], Last(file))
  BY DEF Chained
<1>4. Last(file) \in Seq(Receipt) /\ n \in Nat /\ n <= Len(file) /\ Len(file) \in Nat
  BY <1>1, LastOf
<1>5. \A i \in 1 .. n : file[n][i] = Last(file)[i]
  BY <1>3, <1>4, PrefixMeans
<1>6. file[n] = SubSeq(Last(file), 1, n)
  BY <1>2, <1>3, <1>4, <1>5
<1> QED BY <1>2, <1>3, <1>6

LEMMA ChainLength ==
  ASSUME NEW file \in Seq(Seq(Receipt)), Chained(file)
  PROVE  Len(ListOf(file)) = Len(file)
<1>1. CASE file = <<>>
  BY <1>1 DEF ListOf
<1>2. CASE file # <<>>
  BY <1>2, LastOf DEF ListOf, Chained
<1> QED BY <1>1, <1>2

\* A chain goes on when its list grows by one receipt.
LEMMA ChainGrows ==
  ASSUME NEW file \in Seq(Seq(Receipt)), Chained(file), NEW rc \in Receipt
  PROVE  /\ Chained(Append(file, Append(ListOf(file), rc)))
         /\ ListOf(Append(file, Append(ListOf(file), rc))) = Append(ListOf(file), rc)
<1> DEFINE list == ListOf(file)
           line == Append(list, rc)
           more == Append(file, line)
<1>1. list \in Seq(Receipt) /\ Len(list) = Len(file)
  BY ListOfType, ChainLength
<1>2. line \in Seq(Receipt) /\ Len(line) = Len(file) + 1
  BY <1>1
<1>3. \A i \in 1 .. Len(file) : Len(file[i]) = i /\ IsPrefix(file[i], line)
  <2> SUFFICES ASSUME NEW i \in 1 .. Len(file)
               PROVE  Len(file[i]) = i /\ IsPrefix(file[i], line)
    OBVIOUS
  <2>1. list = Last(file) /\ Len(file[i]) = i /\ file[i] \in Seq(Receipt)
    BY ChainLine
  <2>2. IsPrefix(file[i], list)
    BY <2>1 DEF Chained
  <2> QED BY <2>1, <2>2, <1>1, PrefixGrows
<1>4. IsPrefix(line, line)
  BY <1>2, PrefixGrows
<1> HIDE DEF line, list
<1>5. /\ Len(file) \in Nat /\ more \in Seq(Seq(Receipt)) /\ Len(more) = Len(file) + 1
      /\ more[Len(file) + 1] = line /\ \A i \in 1 .. Len(file) : more[i] = file[i]
  BY <1>2
<1> HIDE DEF more
<1>6. more # <<>> /\ Last(more) = line
  <2>1. more # <<>>
    BY <1>5
  <2> QED BY <2>1, <1>5, LastOf
<1>7. \A i \in DOMAIN more : Len(more[i]) = i /\ IsPrefix(more[i], Last(more))
  <2> SUFFICES ASSUME NEW i \in 1 .. Len(file) + 1
               PROVE  Len(more[i]) = i /\ IsPrefix(more[i], line)
    BY <1>5, <1>6
  <2>1. CASE i \in 1 .. Len(file)
    BY <2>1, <1>3, <1>5
  <2>2. CASE i = Len(file) + 1
    BY <2>2, <1>2, <1>4, <1>5
  <2> QED BY <2>1, <2>2, <1>5
<1> QED BY <1>6, <1>7 DEF Chained, ListOf, more, line, list

\* What a crash leaves of a chain is one.
LEMMA ChainBegins ==
  ASSUME NEW file \in Seq(Seq(Receipt)), Chained(file), NEW n \in 0 .. Len(file)
  PROVE  /\ Chained(SubSeq(file, 1, n))
         /\ ListOf(SubSeq(file, 1, n)) = SubSeq(ListOf(file), 1, n)
<1> DEFINE some == SubSeq(file, 1, n)
           list == ListOf(file)
<1>1. /\ Len(file) \in Nat /\ n \in Nat /\ n <= Len(file)
      /\ some \in Seq(Seq(Receipt)) /\ Len(some) = n
      /\ \A i \in 1 .. n : some[i] = file[i]
  OBVIOUS
<1>2. list \in Seq(Receipt) /\ Len(list) = Len(file)
  BY ListOfType, ChainLength
<1>3. CASE n = 0
  <2>1. some = <<>> /\ SubSeq(list, 1, n) = <<>>
    BY <1>1, <1>2, <1>3
  <2>2. \A i \in DOMAIN <<>> : FALSE
    OBVIOUS
  <2>3. Chained(<<>>) /\ ListOf(<<>>) = <<>>
    BY <2>2, Zenon DEF Chained, ListOf
  <2> QED BY <2>1, <2>3
<1>4. CASE n # 0
  <2>0. some # <<>> /\ some[n] = file[n]
    <3>1. n \in 1 .. n
      BY <1>1, <1>4
    <3>2. some[n] = file[n] /\ Len(some) # 0
      BY <3>1, <1>1, <1>4
    <3> HIDE DEF some
    <3> QED BY <3>2
  <2>1. some # <<>> /\ Last(some) = file[n]
    <3> HIDE DEF some
    <3> QED BY <2>0, <1>1, LastOf
  <2>2. \A i \in 1 .. n : /\ Len(file[i]) = i /\ file[i] \in Seq(Receipt)
                          /\ file[i] = SubSeq(list, 1, i)
    BY <1>1, ChainLine
  <2>3. n \in 1 .. n
    BY <1>1, <1>4
  <2> HIDE DEF list
  <2>4. \A i \in 1 .. n : Len(some[i]) = i /\ IsPrefix(some[i], Last(some))
    <3> SUFFICES ASSUME NEW i \in 1 .. n
                 PROVE  Len(some[i]) = i /\ IsPrefix(some[i], Last(some))
      OBVIOUS
    <3>1. i \in Nat /\ i <= n
      BY <1>1
    <3>2. \A j \in 1 .. i : file[i][j] = list[j] /\ file[n][j] = list[j]
      BY <3>1, <2>2, <2>3, <1>1, <1>2
    <3>3. /\ file[i] \in Seq(Receipt) /\ Len(file[i]) = i
          /\ file[n] \in Seq(Receipt) /\ Len(file[n]) = n
      BY <2>2, <2>3
    <3>4. \A j \in 1 .. i : file[i][j] = file[n][j]
      BY <3>2
    <3>5. IsPrefix(file[i], file[n])
      <4> DEFINE u == file[i]
                 v == file[n]
      <4> HIDE DEF u, v
      <4>1. u \in Seq(Receipt) /\ v \in Seq(Receipt) /\ Len(u) <= Len(v)
            /\ \A j \in 1 .. Len(u) : u[j] = v[j]
        BY <3>1, <3>3, <3>4 DEF u, v
      <4>2. IsPrefix(u, v)
        BY <4>1, PrefixMeans
      <4> QED BY <4>2 DEF u, v
    <3> QED BY <3>5, <2>1, <2>2, <1>1
  <2>5. Chained(some)
    BY <2>4, <1>1 DEF Chained
  <2>6. ListOf(some) = SubSeq(list, 1, n)
    BY <2>1, <2>2, <2>3 DEF ListOf
  <2> QED BY <2>5, <2>6 DEF list
<1> QED BY <1>3, <1>4
-----------------------------------------------------------------------------
(* What can be recovered *)

LEMMA OwnerStep ==
  ASSUME TypeOK, CallSound, Inherited, OwnerKnows, [Next]_accessVars
  PROVE  OwnerKnows'
<1> DEFINE Own == call[Owner].stage \in {"write", "sync"} /\ call[Owner].receipt.kind = "terminal"
           Told == \A t \in reported : t.disposition # "interrupted_unknown"
           Mine == Own => call[Owner].receipt \in reported
<1>0. /\ Owner \in Process /\ "interrupted_unknown" \notin Reported
      /\ reported \subseteq reported' /\ Told /\ Mine
  BY AccessAssumption, ToldStep DEF Process, Failure, OwnerKnows
<1>1. ASSUME call'[Owner] = call[Owner], UNCHANGED reported PROVE Told' /\ Mine'
  BY <1>0, <1>1
<1>2. ASSUME call'[Owner].stage \notin {"write", "sync"}, UNCHANGED reported PROVE Told' /\ Mine'
  BY <1>0, <1>2
<1>3. ASSUME NEW p \in Process, NEW rc \in Receipt, Asked(p, rc) PROVE Told' /\ Mine'
  <2>1. Told'
    BY <1>0, <1>3 DEF Asked
  <2>2. CASE p = Owner
    <3>1. call'[Owner] = [stage |-> "write", receipt |-> rc]
      BY <1>3, <2>2, ProposeType DEF Asked
    <3> QED BY <1>3, <2>1, <2>2, <3>1 DEF Asked
  <2>3. CASE p # Owner
    <3>1. call'[Owner] = call[Owner]
      BY <1>0, <1>3, <2>3, ProposeType DEF Asked
    <3> QED BY <1>0, <2>1, <3>1
  <2> QED BY <2>2, <2>3
<1>4. ASSUME NEW p \in Process, UNCHANGED reported,
             \A q \in Process \ {p} : call'[q] = call[q],
             \/ call'[p].stage \notin {"write", "sync"}
             \/ call[p].stage = "write" /\ call'[p].receipt = call[p].receipt
      PROVE  Told' /\ Mine'
  <2>1. CASE p = Owner
    BY <1>0, <1>4, <2>1
  <2>2. CASE p # Owner
    BY <1>0, <1>1, <1>4, <2>2
  <2> QED BY <2>1, <2>2
<1> HIDE DEF Own, Told, Mine
<1>5. ASSUME NEW p \in Process, Write(p) PROVE Told' /\ Mine'
  BY <1>4, <1>5 DEF Write, TypeOK
<1>6. ASSUME NEW p \in Process, Sync(p) PROVE Told' /\ Mine'
  BY <1>4, <1>6 DEF Sync, TypeOK, Idle
<1>7. ASSUME NEW p \in Process, Recover(p) PROVE Told' /\ Mine'
  BY <1>0, <1>1, <1>7 DEF Recover
<1>8. ASSUME NEW p \in Process, Finalize(p) PROVE Told' /\ Mine'
  BY <1>4, <1>8 DEF Finalize, TypeOK
<1>9. ASSUME NEW p \in Process, Link(p) PROVE Told' /\ Mine'
  BY <1>4, <1>9 DEF Link, TypeOK
<1>10. ASSUME NEW p \in Process, LinkRefused(p) PROVE Told' /\ Mine'
  BY <1>4, <1>10 DEF LinkRefused, TypeOK, Idle
<1>11. ASSUME NEW p \in Process, SyncDirectory(p) PROVE Told' /\ Mine'
  BY <1>4, <1>11 DEF SyncDirectory, TypeOK, Idle
<1>12. ASSUME NEW p \in Process, WriteFails(p) PROVE Told' /\ Mine'
  BY <1>4, <1>12 DEF WriteFails, TypeOK, Idle
<1>13. ASSUME NEW p \in Process, Kill(p) PROVE Told' /\ Mine'
  BY <1>4, <1>13 DEF Kill, TypeOK, Idle
<1>14. ASSUME HostCrash PROVE Told' /\ Mine'
  BY <1>0, <1>2, <1>14 DEF HostCrash, Idle
<1>15. ASSUME UNCHANGED accessVars PROVE Told' /\ Mine'
  BY <1>1, <1>15 DEF accessVars
<1>16. Told' /\ Mine'
  BY <1>3, <1>5, <1>6, <1>7, <1>8, <1>9, <1>10, <1>11, <1>12, <1>13, <1>14, <1>15,
     StepCases
<1>17. ASSUME NEW t \in ReceiptsIn(memory'[Owner]), t.kind = "terminal" PROVE t \in reported'
  <2>1. CASE memory'[Owner] = memory[Owner]
    BY <1>0, <1>17, <2>1 DEF OwnerKnows
  <2>2. CASE Sync(Owner) /\ memory'[Owner] = Append(memory[Owner], call[Owner].receipt)
    <3>1. call[Owner].stage = "sync" /\ call[Owner].receipt \in Receipt
      BY <1>0, <2>2 DEF Sync, CallSound
    <3>2. memory[Owner] \in Seq(Receipt)
      BY <1>0 DEF TypeOK
    <3>3. t \in ReceiptsIn(memory[Owner]) \/ t = call[Owner].receipt
      BY <1>17, <2>2, <3>1, <3>2 DEF ReceiptsIn
    <3>4. t = call[Owner].receipt => Own
      BY <1>17, <3>1 DEF Own
    <3> QED BY <1>0, <1>17, <3>3, <3>4 DEF OwnerKnows, Mine
  <2>3. ~Recover(Owner)
    BY DEF Recover, Inherited
  <2> QED BY <1>0, <2>1, <2>2, <2>3, MemoryStep
<1> QED BY <1>16, <1>17 DEF OwnerKnows, Told, Mine, Own
\* One running process, a readable journal that ends in the list it holds.
LEMMA HeldJournal ==
  ASSUME TypeOK, Inherited, JournalSound, ~Overlap, NEW p \in Process, Running(p)
  PROVE  /\ Readable /\ ListOf(journal) = ListHeld(p)
         /\ call[p].stage = "write" => Follows(memory[p], call[p].receipt)
         /\ \A q \in Process : Running(q) => q = p
BY DEF JournalSound, Inherited

\* Enough for the next state: the journal is readable, and who runs is p with its list.
LEMMA JournalKept ==
  ASSUME NEW p \in Process, Readable', \A q \in Process : Running(q)' => q = p,
         ListOf(journal)' = ListHeld(p)',
         call'[p].stage = "write" => Follows(memory[p], call[p].receipt)'
  PROVE  JournalSound'
BY DEF JournalSound

LEMMA JournalLeft ==
  ASSUME \A q \in Process : ~Running(q)',
         Readable' \/ (journal' # <<>> /\ Last(journal') = <<>>)
  PROVE  JournalSound'
BY DEF JournalSound

LEMMA JournalStep ==
  ASSUME TypeOK, TypeOK', CallSound, Inherited, JournalSound, [Next]_accessVars,
         ~Overlap, \A p \in Process : ~WriteFails(p)
  PROVE  JournalSound'
<1>0. ASSUME UNCHANGED journal, Readable PROVE Readable' /\ ListOf(journal)' = ListOf(journal)
  BY <1>0 DEF Readable
<1>1. ASSUME NEW p \in Process, NEW rc \in Receipt, Asked(p, rc) PROVE JournalSound'
  <2>1. /\ Running(p) /\ call[p] = Idle /\ Follows(memory[p], rc)
        /\ UNCHANGED <<journal, memory, life>> /\ call'[p] = [stage |-> "write", receipt |-> rc]
    BY <1>1, ProposeType DEF Asked, Propose, fileVars
  <2>2. Readable /\ ListOf(journal) = ListHeld(p) /\ \A q \in Process : Running(q) => q = p
    BY <2>1, HeldJournal
  <2>3. ListHeld(p)' = ListHeld(p)
    BY <2>1 DEF ListHeld, Idle
  <2>4. \A q \in Process : Running(q)' => q = p
    BY <2>1, <2>2 DEF Running
  <2>5. Follows(memory[p], call[p].receipt)'
    BY <2>1
  <2> QED BY <1>0, <2>1, <2>2, <2>3, <2>4, <2>5, JournalKept
<1>2. ASSUME NEW p \in Process, Write(p) PROVE JournalSound'
  <2> DEFINE rc == call[p].receipt
             line == Append(memory[p], rc)
  <2>1. /\ Running(p) /\ call[p].stage = "write" /\ rc \in Receipt
        /\ journal' = Append(journal, line) /\ UNCHANGED <<life, memory>>
        /\ call'[p].stage = "sync" /\ call'[p].receipt = rc
    BY <1>2 DEF Write, CallSound, TypeOK
  <2>2. /\ Readable /\ ListOf(journal) = memory[p] /\ Follows(memory[p], rc)
        /\ \A q \in Process : Running(q) => q = p
    BY <2>1, HeldJournal DEF ListHeld
  <2>3. journal \in Seq(Seq(Receipt)) /\ memory[p] \in Seq(Receipt)
    BY DEF TypeOK
  <2>4. Chained(journal') /\ ListOf(journal') = line
    BY <2>1, <2>2, <2>3, ChainGrows DEF Readable
  <2>5. WellFormed(line)
    BY <2>1, <2>2, <2>3, WellFormedGrows DEF Readable
  <2>6. Readable'
    BY <2>4, <2>5 DEF Readable
  <2>7. ListHeld(p)' = line
    BY <2>1 DEF ListHeld
  <2>8. \A q \in Process : Running(q)' => q = p
    BY <2>1, <2>2 DEF Running
  <2> QED BY <2>1, <2>4, <2>6, <2>7, <2>8, JournalKept
<1>3. ASSUME NEW p \in Process, Sync(p) PROVE JournalSound'
  <2>1. /\ Running(p) /\ call[p].stage = "sync" /\ call'[p] = Idle
        /\ UNCHANGED <<journal, life>> /\ memory'[p] = Append(memory[p], call[p].receipt)
    BY <1>3 DEF Sync, Counting, CallSound, TypeOK
  <2>2. Readable /\ ListOf(journal) = ListHeld(p) /\ \A q \in Process : Running(q) => q = p
    BY <2>1, HeldJournal
  <2>3. ListHeld(p)' = ListHeld(p) /\ call'[p].stage # "write"
    BY <2>1 DEF ListHeld, Idle
  <2>4. \A q \in Process : Running(q)' => q = p
    BY <2>1, <2>2 DEF Running
  <2> QED BY <1>0, <2>1, <2>2, <2>3, <2>4, JournalKept
<1>4. ASSUME NEW p \in Process, Recover(p) PROVE JournalSound'
  <2>1. /\ \A q \in Process : ~Running(q)
        /\ Readable /\ UNCHANGED <<journal, call>> /\ memory'[p] = ListOf(journal)
        /\ life' = [life EXCEPT ![p] = "running"]
    BY <1>4 DEF Recover, fileVars, TypeOK
  <2>2. call[p].stage = "idle"
    BY <2>1 DEF CallSound
  <2>3. ListHeld(p)' = ListOf(journal) /\ call'[p].stage # "write"
    BY <2>1, <2>2 DEF ListHeld
  <2>4. \A q \in Process : Running(q)' => q = p
    BY <2>1 DEF Running, TypeOK
  <2> QED BY <1>0, <2>1, <2>3, <2>4, JournalKept
<1>5. ASSUME NEW p \in Process, Running(p), UNCHANGED <<journal, memory>>,
             call[p].stage # "sync", call'[p].stage \notin {"write", "sync"},
             \A q \in Process \ {p} : life'[q] = life[q]
      PROVE  JournalSound'
  <2>1. Readable /\ ListOf(journal) = ListHeld(p) /\ \A q \in Process : Running(q) => q = p
    BY <1>5, HeldJournal
  <2>2. ListHeld(p)' = ListHeld(p)
    BY <1>5 DEF ListHeld
  <2>3. \A q \in Process : Running(q)' => q = p
    BY <1>5, <2>1 DEF Running
  <2> QED BY <1>0, <1>5, <2>1, <2>2, <2>3, JournalKept
<1>6. ASSUME NEW p \in Process, Finalize(p) PROVE JournalSound'
  <2>1. call[p].stage = "idle" /\ call'[p].stage = "link"
    BY <1>6 DEF Finalize, Idle, TypeOK
  <2> QED BY <1>5, <1>6, <2>1 DEF Finalize, fileVars
<1>7. ASSUME NEW p \in Process, Link(p) PROVE JournalSound'
  <2>1. call'[p].stage = "syncdir"
    BY <1>7 DEF Link, TypeOK
  <2> QED BY <1>5, <1>7, <2>1 DEF Link, CallSound
<1>8. ASSUME NEW p \in Process, LinkRefused(p) PROVE JournalSound'
  <2>1. call'[p].stage = "idle" /\ \A q \in Process \ {p} : life'[q] = life[q]
    BY <1>8 DEF LinkRefused, AfterThrow, Idle, TypeOK
  <2> QED BY <1>5, <1>8, <2>1 DEF LinkRefused, CallSound, fileVars
<1>9. ASSUME NEW p \in Process, SyncDirectory(p) PROVE JournalSound'
  <2>1. call'[p].stage = "idle" /\ \A q \in Process \ {p} : life'[q] = life[q]
    BY <1>9 DEF SyncDirectory, Idle, TypeOK
  <2> QED BY <1>5, <1>9, <2>1 DEF SyncDirectory, CallSound
<1>10. ASSUME NEW p \in Process, Kill(p) PROVE JournalSound'
  <2>1. Running(p) /\ life' = [life EXCEPT ![p] = "dead"] /\ CutShort(p)
    BY <1>10 DEF Kill
  <2>2. Readable /\ \A q \in Process : Running(q) => q = p
    BY <2>1, HeldJournal
  <2>3. \A q \in Process : ~Running(q)'
    BY <2>1, <2>2 DEF Running, TypeOK
  <2>4. CASE UNCHANGED journal
    BY <1>0, <2>2, <2>3, <2>4, JournalLeft
  <2>5. CASE journal' = Append(journal, <<>>)
    <3>1. <<>> \in Seq(Receipt) /\ journal \in Seq(Seq(Receipt))
      BY DEF TypeOK
    <3>2. journal' # <<>> /\ Last(journal') = <<>>
      BY <2>5, <3>1 DEF Last
    <3> QED BY <2>3, <3>2, JournalLeft
  <2> QED BY <2>1, <2>4, <2>5 DEF CutShort
<1>11. ASSUME HostCrash PROVE JournalSound'
  <2>1. \A q \in Process : ~Running(q)'
    BY <1>11 DEF HostCrash, Running
  <2>2. PICK p \in Process : Running(p)
    BY <1>11 DEF HostCrash
  <2>3. Readable
    BY <2>2, HeldJournal
  <2>4. PICK kept \in durable .. Len(journal) :
          \/ journal' = SubSeq(journal, 1, kept)
          \/ journal' = Append(SubSeq(journal, 1, kept), <<>>)
    BY <1>11 DEF HostCrash
  <2>5. journal \in Seq(Seq(Receipt)) /\ kept \in 0 .. Len(journal)
    BY DEF TypeOK
  <2> DEFINE some == SubSeq(journal, 1, kept)
  <2>6. CASE journal' = some
    <3>1. Chained(some) /\ ListOf(some) = SubSeq(ListOf(journal), 1, kept)
      BY <2>3, <2>5, ChainBegins DEF Readable
    <3>2. ListOf(journal) \in Seq(Receipt) /\ Len(ListOf(journal)) = Len(journal)
      BY <2>3, <2>5, ListOfType, ChainLength DEF Readable
    <3>3. WellFormed(SubSeq(ListOf(journal), 1, kept))
      BY <2>3, <2>5, <3>2, WellFormedBegins DEF Readable
    <3> HIDE DEF some
    <3>4. Readable'
      BY <2>6, <3>1, <3>3 DEF Readable
    <3> QED BY <2>1, <3>4, JournalLeft
  <2>7. CASE journal' = Append(some, <<>>)
    <3>1. some \in Seq(Seq(Receipt)) /\ <<>> \in Seq(Receipt)
      BY <2>5
    <3> HIDE DEF some
    <3>2. journal' # <<>> /\ Last(journal') = <<>>
      BY <2>7, <3>1 DEF Last
    <3> QED BY <2>1, <3>2, JournalLeft
  <2> QED BY <2>4, <2>6, <2>7
<1>12. ASSUME UNCHANGED accessVars PROVE JournalSound'
  BY <1>12 DEF accessVars, fileVars, JournalSound, Readable, ListHeld, Running
<1> QED
  BY <1>1, <1>2, <1>3, <1>4, <1>6, <1>7, <1>8, <1>9, <1>10, <1>11, <1>12, StepCases

\* What is linked is the list of the journal, closed, and told by its owner.
LEMMA VerdictStep ==
  ASSUME TypeOK, CallSound, Inherited, RecoveryInv, [Next]_accessVars,
         ~Overlap, faults = 0, bundle' # None
  PROVE  BundleVerifies'
<1>0. OwnerKnows /\ JournalSound /\ (bundle # None => BundleVerifies)
  BY DEF RecoveryInv
<1>1. CASE bundle' \in {bundle, None}
  BY <1>0, <1>1 DEF BundleVerifies
<1>2. ASSUME NEW p \in Process, Link(p) PROVE BundleVerifies'
  <2>1. /\ Running(p) /\ call[p].stage = "link" /\ OpenIn(memory[p]) = {}
        /\ bundle' = [receipts |-> memory[p], recovered |-> p # Owner]
    BY <1>2 DEF Link, CallSound
  <2>2. Readable /\ ListOf(journal) = memory[p]
    BY <1>0, <2>1, HeldJournal DEF ListHeld
  <2>3. WellFormed(memory[p])
    BY <2>2 DEF Readable
  <2>4. p = Owner =>
          \A t \in ReceiptsIn(memory[p]) :
            t.kind = "terminal" => t.disposition # "interrupted_unknown"
    BY <1>0 DEF OwnerKnows
  <2> QED BY <2>1, <2>3, <2>4 DEF BundleVerifies
<1> QED BY <1>1, <1>2, BundleStep

LEMMA FaultStep ==
  ASSUME TypeOK, [Next]_accessVars
  PROVE  faults' = faults \/ \E p \in Process : WriteFails(p)
<1> DEFINE Goal == faults' = faults \/ \E p \in Process : WriteFails(p)
<1>1. ASSUME NEW p \in Process, NEW rc \in Receipt, Asked(p, rc) PROVE Goal
  BY <1>1 DEF Asked, Propose
<1>2. ASSUME NEW p \in Process, Write(p) \/ Sync(p) \/ Recover(p) \/ Finalize(p) PROVE Goal
  BY <1>2 DEF Write, Sync, Recover, Finalize
<1>3. ASSUME NEW p \in Process, Link(p) \/ LinkRefused(p) \/ SyncDirectory(p) \/ Kill(p)
      PROVE  Goal
  BY <1>3 DEF Link, LinkRefused, SyncDirectory, Kill
<1>4. ASSUME HostCrash \/ UNCHANGED accessVars PROVE Goal
  BY <1>4 DEF HostCrash, accessVars
<1>5. ASSUME NEW p \in Process, WriteFails(p) PROVE Goal
  BY <1>5
<1> HIDE DEF Goal
<1>6. Goal
  BY <1>1, <1>2, <1>3, <1>4, <1>5, StepCases
<1> QED BY <1>6 DEF Goal

LEMMA RecoveryStep ==
  ASSUME IInv, IInv', RecoveryInv, [Next]_accessVars
  PROVE  RecoveryInv'
<1>1. TypeOK /\ TypeOK' /\ CallSound /\ Inherited /\ OwnerKnows
  BY DEF IInv, RecoveryInv
<1>2. OwnerKnows'
  BY <1>1, OwnerStep
<1>3. ASSUME ~Overlap, faults' = 0
      PROVE  JournalSound' /\ (bundle' # None => BundleVerifies')
  <2>1. faults = 0 /\ \A p \in Process : ~WriteFails(p)
    <3>1. ASSUME NEW p \in Process, WriteFails(p) PROVE FALSE
      BY <1>1, <1>3, <3>1 DEF WriteFails, TypeOK
    <3>2. faults' = faults \/ \E p \in Process : WriteFails(p)
      BY <1>1, FaultStep
    <3> QED BY <1>3, <3>1, <3>2
  <2>2. JournalSound
    BY <1>3, <2>1 DEF RecoveryInv
  <2> QED BY <1>1, <1>3, <2>1, <2>2, JournalStep, VerdictStep
<1> QED BY <1>2, <1>3 DEF RecoveryInv

\* Whatever dies and however often: a session without a failed write whose processes
\* ended left a bundle that verifies, a journal that can be recovered, or a partial line.
THEOREM SessionsAreRecoverable == Spec => []Recoverable
<1>1. Init => RecoveryInv
  <2> SUFFICES ASSUME Init PROVE RecoveryInv
    OBVIOUS
  <2>1. \A i \in DOMAIN <<>> : FALSE
    OBVIOUS
  <2>2. Readable
    BY <2>1 DEF Init, Readable, Chained, WellFormed, ListOf
  <2>3. OwnerKnows
    BY <2>1 DEF Init, OwnerKnows, ReceiptsIn, Idle, Process
  <2>4. \A p \in Process : ListHeld(p) = <<>> /\ call[p].stage # "write"
    BY DEF Init, ListHeld, Idle
  <2>5. ListOf(journal) = <<>> /\ bundle = None
    BY DEF Init, ListOf
  <2> QED BY <2>2, <2>3, <2>4, <2>5 DEF RecoveryInv, JournalSound
<1>2. IInv /\ IInv' /\ RecoveryInv /\ [Next]_accessVars => RecoveryInv'
  BY RecoveryStep
<1>3. RecoveryInv => Recoverable
  BY DEF RecoveryInv, JournalSound, Recoverable
<1> QED BY <1>1, <1>2, <1>3, Invariance, PTL DEF Spec

-----------------------------------------------------------------------------
(* What the recorder does by itself *)

LEMMA ReceiptsGrow ==
  ASSUME NEW list \in Seq(Receipt), NEW rc \in Receipt
  PROVE  ReceiptsIn(Append(list, rc)) = ReceiptsIn(list) \cup {rc}
<1>1. /\ DOMAIN Append(list, rc) = 1 .. Len(list) + 1
      /\ \A i \in 1 .. Len(list) : Append(list, rc)[i] = list[i]
      /\ Append(list, rc)[Len(list) + 1] = rc
      /\ DOMAIN list = 1 .. Len(list)
      /\ Len(list) \in Nat
  OBVIOUS
<1>2. \A i \in 1 .. Len(list) + 1 : i \in 1 .. Len(list) \/ i = Len(list) + 1
  BY <1>1
<1>3. Len(list) + 1 \in 1 .. Len(list) + 1 /\ 1 .. Len(list) \subseteq 1 .. Len(list) + 1
  BY <1>1
<1> QED BY <1>1, <1>2, <1>3 DEF ReceiptsIn

LEMMA OwnerIs ==
  Owner \in Process /\ Owner \notin Recoverer /\ \A p \in Recoverer : p \in Process /\ p # Owner
BY AccessAssumption DEF Process

\* A step of the recorder, of a recovery or of a crash adds nothing to what the owner
\* recorded, and loses nothing of it unless a write fails or the owner dies.
RecorderFrame ==
  /\ reported' = reported
  /\ ReceiptsIn(memory[Owner]) \subseteq ReceiptsIn(memory'[Owner])
  /\ OwnReceipts' \subseteq OwnReceipts
  /\ faults' = 0 /\ life'[Owner] \in {"running", "done"} =>
       faults = 0 /\ life[Owner] \in {"running", "done"} /\ OwnReceipts' = OwnReceipts
  /\ Writing' => Writing
  /\ memory'[Owner] = memory[Owner] \/ Writing
  /\ call'[Owner].stage \in {"link", "syncdir"} => call[Owner].stage \in {"link", "syncdir"}
  /\ life[Owner] = "done" => life'[Owner] = "done"
  /\ Running(Owner)' => Running(Owner)

LEMMA AccessEffect ==
  ASSUME IInv, AccessStep
  PROVE  RecorderFrame
<1> USE DEF Running, Writing
<1>0. TypeOK /\ CallSound /\ Owner \in Process
  BY OwnerIs DEF IInv
<1>1. ASSUME NEW p \in Process, Write(p) PROVE RecorderFrame
  <2>1. call'[Owner].receipt = call[Owner].receipt /\ Writing' = Writing
    BY <1>0, <1>1 DEF Write, TypeOK
  <2> QED BY <1>0, <1>1, <2>1 DEF Write, TypeOK, RecorderFrame, OwnReceipts
<1>2. ASSUME NEW p \in Process, Sync(p) PROVE RecorderFrame
  <2>1. CASE p = Owner
    <3>1. /\ memory[Owner] \in Seq(Receipt) /\ call[Owner].receipt \in Receipt
          /\ Writing
      BY <1>0, <1>2, <2>1 DEF Sync, CallSound, TypeOK
    <3>2. /\ memory'[Owner] = Append(memory[Owner], call[Owner].receipt)
          /\ call'[Owner] = Idle
          /\ UNCHANGED <<life, reported, faults>>
      BY <1>0, <1>2, <2>1 DEF Sync, Counting, TypeOK
    <3>3. ReceiptsIn(memory'[Owner]) = ReceiptsIn(memory[Owner]) \cup {call[Owner].receipt}
      BY <3>1, <3>2, ReceiptsGrow
    <3>4. OwnReceipts' = OwnReceipts /\ ~Writing'
      BY <3>1, <3>2, <3>3 DEF OwnReceipts, Idle
    <3> QED BY <3>1, <3>2, <3>3, <3>4 DEF RecorderFrame, Idle
  <2>2. CASE p # Owner
    <3>1. UNCHANGED <<life, reported, faults>> /\ memory'[Owner] = memory[Owner]
          /\ call'[Owner] = call[Owner]
      BY <1>0, <1>2, <2>2 DEF Sync, TypeOK
    <3> QED BY <3>1 DEF RecorderFrame, OwnReceipts
  <2> QED BY <2>1, <2>2
<1>3. ASSUME UNCHANGED <<memory, reported>>, UNCHANGED <<faults, life>>,
             \/ call'[Owner] = call[Owner]
             \/ /\ call[Owner].stage \in {"idle", "link", "syncdir"}
                /\ \/ call'[Owner] = Idle
                   \/ call[Owner].stage = "link" /\ call'[Owner].stage = "syncdir"
      PROVE  RecorderFrame
  BY <1>3 DEF RecorderFrame, OwnReceipts, Idle
<1>4. ASSUME NEW p \in Process, Link(p) PROVE RecorderFrame
  <2>1. \/ call'[Owner] = call[Owner]
        \/ call[Owner].stage = "link" /\ call'[Owner].stage = "syncdir"
    BY <1>0, <1>4 DEF Link, TypeOK
  <2> QED BY <1>3, <1>4, <2>1 DEF Link
<1>5. ASSUME UNCHANGED <<memory, reported, faults>>,
             \/ call'[Owner] = call[Owner] /\ life'[Owner] = life[Owner]
             \/ /\ call'[Owner] = Idle /\ call[Owner].stage \in {"link", "syncdir"}
                /\ \/ life'[Owner] = life[Owner]
                   \/ life'[Owner] = "done" /\ Running(Owner)
      PROVE  RecorderFrame
  BY <1>5 DEF RecorderFrame, OwnReceipts, Idle
<1>6. ASSUME NEW p \in Process, LinkRefused(p) PROVE RecorderFrame
  <2>1. UNCHANGED <<memory, reported, faults>> /\ life'[Owner] = life[Owner]
    BY <1>0, <1>6 DEF LinkRefused, AfterThrow, TypeOK
  <2>2. IF p = Owner THEN call'[Owner] = Idle /\ call[Owner].stage = "link"
        ELSE call'[Owner] = call[Owner]
    BY <1>0, <1>6 DEF LinkRefused, TypeOK
  <2> QED BY <1>5, <2>1, <2>2
<1>7. ASSUME NEW p \in Process, SyncDirectory(p) PROVE RecorderFrame
  <2>1. UNCHANGED <<memory, reported, faults>>
    BY <1>7 DEF SyncDirectory
  <2>2. IF p = Owner
        THEN /\ call'[Owner] = Idle /\ call[Owner].stage = "syncdir"
             /\ Running(Owner) /\ life'[Owner] = "done"
        ELSE call'[Owner] = call[Owner] /\ life'[Owner] = life[Owner]
    BY <1>0, <1>7 DEF SyncDirectory, TypeOK, CallSound
  <2> QED BY <1>5, <2>1, <2>2
<1>8. ASSUME NEW p \in Process, WriteFails(p) PROVE RecorderFrame
  <2>1. UNCHANGED <<memory, reported>> /\ faults' = faults + 1 /\ faults \in Nat
        /\ life'[Owner] = life[Owner] /\ call'[Owner] \in {call[Owner], Idle}
    BY <1>0, <1>8 DEF WriteFails, AfterThrow, TypeOK
  <2>2. faults' # 0
    BY <2>1
  <2> QED BY <2>1, <2>2 DEF RecorderFrame, OwnReceipts, Idle
<1>9. ASSUME NEW p \in Process, Kill(p) PROVE RecorderFrame
  <2>1. UNCHANGED <<memory, reported, faults>>
    BY <1>9 DEF Kill
  <2>2. IF p = Owner
        THEN call'[Owner] = Idle /\ life'[Owner] = "dead" /\ Running(Owner)
        ELSE call'[Owner] = call[Owner] /\ life'[Owner] = life[Owner]
    BY <1>0, <1>9 DEF Kill, TypeOK
  <2> QED BY <2>1, <2>2 DEF RecorderFrame, OwnReceipts, Idle
<1>10. ASSUME NEW p \in Recoverer, Recovery(p) PROVE RecorderFrame
  <2>1. p \in Process /\ p # Owner
    BY OwnerIs
  <2>2. UNCHANGED <<reported, faults>> /\ memory'[Owner] = memory[Owner]
        /\ call'[Owner] = call[Owner] /\ life'[Owner] = life[Owner]
    BY <1>0, <1>10, <2>1 DEF Recovery, Recover, Synthesize, Propose, Finalize, TypeOK
  <2> QED BY <2>2 DEF RecorderFrame, OwnReceipts
<1>11. ASSUME HostCrash PROVE RecorderFrame
  <2>1. UNCHANGED <<memory, reported, faults>> /\ call'[Owner] = Idle
        /\ life'[Owner] = IF Running(Owner) THEN "dead" ELSE life[Owner]
    BY <1>0, <1>11 DEF HostCrash
  <2>2. CallSound /\ (Writing => Running(Owner))
    BY <1>0 DEF CallSound
  <2> QED BY <2>1, <2>2 DEF RecorderFrame, OwnReceipts, Idle
<1> QED
  BY <1>1, <1>2, <1>4, <1>6, <1>7, <1>8, <1>9, <1>10, <1>11 DEF AccessStep, Progress

-----------------------------------------------------------------------------
(* What the proxy does *)

\* Most steps leave the recorder and the invocations as they are, or end the exchange
\* that is pending: as completed only with the answer to that request.
Quiet ==
  /\ UNCHANGED <<accessVars, queue, active, written, op>>
  /\ answers \subseteq answers'
  /\ \/ /\ UNCHANGED <<phase, verdict>>
        /\ pending' = pending \/ {pending, pending'} \cap Request = {}
     \/ pending \in Request /\ Conclude("tool_failure")
     \/ /\ pending \in Request /\ Conclude("completed")
        /\ [request |-> pending, result |-> "ok"] \in answers

\* With nothing active, an invocation leaves the queue or its wait for the tool list: it
\* is begun, waits for the list, or is over.
Turn ==
  /\ Free /\ active = None /\ closing \in {"no", "draining"}
  /\ UNCHANGED <<accessVars, written, op, verdict, answers>>
  /\ {pending, pending'} \cap Request = {}
  /\ active' \in Request \cup {None}
  /\ phase' \in [Request -> Phase \cup {"discovering"}]
  /\ \A r \in Request :
       /\ phase'[r] # phase[r] => phase'[r] \in {"discovering", "deciding", "threw"}
       /\ phase'[r] = "deciding" <=> active' = r
  /\ \/ queue' = queue /\ \A r \in Request : phase'[r] # phase[r] => phase[r] = "discovering"
     \/ /\ queue # <<>> /\ queue' = Tail(queue)
        /\ \A r \in Request : phase'[r] # phase[r] => r = Head(queue)

\* How close goes on.
Closes ==
  \/ closing' = closing
  \/ closing = "no" /\ closing' = "draining" /\ (Quiet \/ Turn)
  \/ FinalizeAccess
  \/ /\ Quiet /\ queue = <<>> /\ active = None
     /\ \/ Free /\ closing' \in {"terminating", "access", "failed"}
        \/ life[Owner] = "done" /\ closing = "finalizing" /\ closing' \in {"closed", "failed"}

\* The steps of a proxy, as its invocations and its recorder see them.
Move ==
  /\ Closes
  /\ \/ Turn \/ Quiet
     \/ Refuse \/ (\E decision \in {"allowed", "blocked"} : Decide(decision))
     \/ NotPersisted \/ Dispatch \/ NotDispatched \/ Settle \/ SettleBlocked
     \/ SettleThrows \/ Finish \/ FinalizeAccess
     \/ \E r \in Request : Invoke(r)
     \/ AccessStep /\ UNCHANGED <<proxyVars, childVars>>

\* A step that asks the owner's recorder for a receipt.
Asks(rc) ==
  /\ call[Owner] = Idle /\ Running(Owner)
  /\ call' = [call EXCEPT ![Owner] = [stage |-> "write", receipt |-> rc]]
  /\ UNCHANGED <<fileVars, life, memory, faults, crashes>>
  /\ rc \in Receipt

LEMMA DecideAsks ==
  ASSUME InvocationTypeOK, NEW decision \in {"allowed", "blocked"}, Decide(decision)
  PROVE  /\ Asks([kind |-> "authorization", request |-> active, decision |-> decision])
         /\ reported' = reported
<1>1. active \in Request
  BY DEF Decide, InvocationTypeOK
<1> QED BY <1>1 DEF Decide, Authorize, Propose, Asks, Receipt, Authorization

LEMMA SettleAsks ==
  ASSUME InvocationTypeOK, OneActive, OperationSound,
         NEW disposition,
         \/ Settle /\ disposition = Disposition(active)
         \/ SettleBlocked /\ disposition = "blocked"
  PROVE  LET t == [kind |-> "terminal", request |-> active, disposition |-> disposition,
                   written |-> WriteFact(active)]
         IN  Asks(t) /\ t \in Terminal /\ reported' = reported \cup {t}
<1> DEFINE t == [kind |-> "terminal", request |-> active, disposition |-> disposition,
                 written |-> WriteFact(active)]
<1>1. active \in Request
  BY DEF Settle, SettleBlocked, InvocationTypeOK
<1>2. disposition \in Reported
  <2>1. CASE Settle /\ disposition = Disposition(active)
    <3>1. phase[active] = "settling" /\ disposition = verdict[active]
      BY <2>1 DEF Settle, Disposition
    <3>2. verdict[active] \in {"none", "completed", "tool_failure"} /\ verdict[active] # "none"
      BY <1>1, <3>1 DEF InvocationTypeOK, OperationSound
    <3> QED BY <3>1, <3>2, ProxyAssumption
  <2> QED BY <2>1, ProxyAssumption
<1>3. t \in Terminal /\ t \in Receipt
  BY <1>1, <1>2 DEF Terminal, Receipt, WriteFact
<1>4. Propose(Owner, t) /\ reported' = reported \cup {t}
  BY DEF Settle, SettleBlocked, Report
<1> QED BY <1>3, <1>4 DEF Propose, Asks

LEMMA AsksEffect ==
  ASSUME TypeOK, NEW rc, Asks(rc)
  PROVE  /\ OwnReceipts' = OwnReceipts \cup {rc}
         /\ Writing' /\ ~Writing
         /\ call'[Owner].stage = "write"
         /\ memory'[Owner] = memory[Owner]
<1>1. call'[Owner] = [stage |-> "write", receipt |-> rc] /\ memory' = memory
  BY OwnerIs DEF Asks, TypeOK
<1>2. ~Writing
  BY DEF Asks, Writing, Idle
<1> QED BY <1>1, <1>2 DEF OwnReceipts, Writing

\* The invocations keep out of each other's way.
LEMMA OneActiveStep ==
  ASSUME InvocationInv, Move
  PROVE  OneActive'
<1> USE DEF OneActive
<1>0. /\ IInv /\ InvocationTypeOK /\ OneActive /\ OperationSound
      /\ TypeOK /\ Owner \in Process /\ active \in Request \cup {None} /\ None \notin Request
  BY OwnerIs, ProxyAssumption DEF InvocationInv, IInv, InvocationTypeOK
<1>1. ASSUME Turn PROVE OneActive'
  <2>1. ~Writing /\ ~Writing'
    BY <1>1 DEF Turn, Free, Idle, Writing, accessVars
  <2>2. ASSUME NEW r \in Request
        PROVE  /\ phase'[r] \in {"deciding", "authorizing", "waiting", "settling", "reporting"}
                    <=> active' = r
               /\ phase'[r] = "waiting" <=> pending' = r
    <3>1. /\ phase[r] \notin {"deciding", "authorizing", "waiting", "settling", "reporting"}
          /\ pending' # r
      BY <1>0, <1>1 DEF Turn
    <3> QED BY <1>1, <3>1 DEF Turn
  <2> QED BY <2>1, <2>2
<1>2. ASSUME call'[Owner] = call[Owner], active # None, Free,
             phase[active] # "waiting", pending' = pending,
             \/ \E how \in {"threw", "done"} : Leave(active, how)
             \/ active' = active /\ phase' = [phase EXCEPT ![active] = "settling"]
      PROVE  OneActive'
  <2>1. ~Writing' /\ phase \in [Request -> Phase \cup {"discovering"}] /\ active \in Request
    BY <1>0, <1>2 DEF Free, Idle, Writing, InvocationTypeOK
  <2> QED BY <1>2, <2>1, <1>0 DEF Leave
<1>3. ASSUME NEW rc, Asks(rc), active # None, UNCHANGED <<active, pending>>,
             phase[active] # "waiting",
             \E how \in {"authorizing", "reporting"} : phase' = [phase EXCEPT ![active] = how]
      PROVE  OneActive'
  BY <1>0, <1>3, AsksEffect DEF InvocationTypeOK
<1>4. ASSUME Dispatch PROVE OneActive'
  BY <1>0, <1>4 DEF Dispatch, InvocationTypeOK, Writing, accessVars, Free, Idle
<1>6. ASSUME FinalizeAccess PROVE OneActive'
  BY <1>0, <1>6 DEF FinalizeAccess, Finalize, InvocationTypeOK, Writing, TypeOK, Stage
<1>7. ASSUME NEW r \in Request, Invoke(r) PROVE OneActive'
  <2>1. Writing' = Writing
    BY <1>7 DEF Invoke, Writing, accessVars
  <2> QED BY <1>0, <1>7, <2>1 DEF Invoke, InvocationTypeOK
<1>8. ASSUME AccessStep, UNCHANGED <<proxyVars, childVars>> PROVE OneActive'
  BY <1>0, <1>8, AccessEffect DEF RecorderFrame, proxyVars
<1>9. ASSUME Quiet PROVE OneActive'
  <2>1. Writing' = Writing
    BY <1>9 DEF Quiet, Writing, accessVars
  <2> QED BY <1>0, <1>9, <2>1 DEF Quiet, Conclude, InvocationTypeOK
<1>10. ASSUME Refuse \/ NotPersisted \/ NotDispatched \/ Finish \/ SettleThrows
       PROVE  OneActive'
  BY <1>2, <1>10 DEF Refuse, NotPersisted, NotDispatched, Finish, SettleThrows, accessVars
<1>11. ASSUME \/ Settle \/ SettleBlocked
              \/ \E decision \in {"allowed", "blocked"} : Decide(decision)
       PROVE  OneActive'
  BY <1>0, <1>3, <1>11, DecideAsks, SettleAsks DEF Decide, Settle, SettleBlocked
<1> QED
  BY <1>1, <1>4, <1>6, <1>7, <1>8, <1>9, <1>10, <1>11 DEF Move

\* Tail and Append on a queue of requests, by index.
LEMMA QueueSteps ==
  ASSUME NEW S, NEW q \in Seq(S)
  PROVE  /\ q # <<>> =>
              /\ Head(q) = q[1] /\ 1 \in 1 .. Len(q)
              /\ \A i \in 1 .. Len(Tail(q)) : i + 1 \in 1 .. Len(q) /\ Tail(q)[i] = q[i + 1]
         /\ \A e \in S : \A i \in 1 .. Len(Append(q, e)) :
              \/ i \in 1 .. Len(q) /\ Append(q, e)[i] = q[i]
              \/ i = Len(q) + 1 /\ Append(q, e)[i] = e
<1>1. Len(q) \in Nat
  OBVIOUS
<1>2. q # <<>> => /\ Head(q) = q[1] /\ 1 \in 1 .. Len(q)
                  /\ Len(Tail(q)) = Len(q) - 1
                  /\ \A i \in 1 .. Len(q) - 1 : Tail(q)[i] = q[i + 1]
  OBVIOUS
<1>3. ASSUME NEW e \in S
      PROVE  /\ Len(Append(q, e)) = Len(q) + 1
             /\ \A i \in 1 .. Len(q) : Append(q, e)[i] = q[i]
             /\ Append(q, e)[Len(q) + 1] = e
  OBVIOUS
<1> QED BY <1>1, <1>2, <1>3

LEMMA QueuedStep ==
  ASSUME InvocationInv, Move
  PROVE  Queued'
<1>0. /\ queue \in Seq(Request) /\ phase \in [Request -> Phase \cup {"discovering"}]
      /\ \A i \in 1 .. Len(queue) : queue[i] \in Request /\ phase[queue[i]] = "queued"
  BY DEF InvocationInv, InvocationTypeOK, Queued
<1>00. /\ OneActive /\ InvocationTypeOK
       /\ \A i, j \in 1 .. Len(queue) : queue[i] = queue[j] => i = j
  BY DEF InvocationInv, Queued
<1>1. ASSUME queue # <<>>, queue' = Tail(queue),
             \A r \in Request : phase'[r] # phase[r] => r = Head(queue)
      PROVE  Queued'
  <2>1. /\ queue' = Tail(queue) /\ queue # <<>>
        /\ \A r \in Request : phase'[r] = phase[r] \/ r = Head(queue)
    BY <1>0, <1>1
  <2>2. \A i \in 1 .. Len(Tail(queue)) : Tail(queue)[i] # Head(queue)
    BY <1>0, <1>00, <2>1, QueueSteps
  <2>3. \A i \in 1 .. Len(Tail(queue)) : i + 1 \in 1 .. Len(queue) /\ Tail(queue)[i] = queue[i + 1]
    BY <1>0, <2>1, QueueSteps
  <2>4. \A i \in 1 .. Len(queue') : phase'[queue'[i]] = "queued"
    BY <1>0, <2>1, <2>2, <2>3
  <2>5. \A i, j \in 1 .. Len(queue') : queue'[i] = queue'[j] => i = j
    BY <1>00, <2>1, <2>3
  <2> QED BY <2>4, <2>5 DEF Queued
<1>2. ASSUME queue' = queue,
             \A r \in Request : phase[r] = "queued" => phase'[r] = "queued"
      PROVE  Queued'
  BY <1>0, <1>00, <1>2 DEF Queued
<1>3. ASSUME NEW r \in Request, Invoke(r) PROVE Queued'
  <2>1. CASE closing = "no"
    <3>1. queue' = Append(queue, r) /\ phase' = [phase EXCEPT ![r] = "queued"] /\ phase[r] = "new"
      BY <1>3, <2>1 DEF Invoke
    <3>2. \A i \in 1 .. Len(queue') :
            \/ i \in 1 .. Len(queue) /\ queue'[i] = queue[i]
            \/ i = Len(queue) + 1 /\ queue'[i] = r
      BY <1>0, <3>1, QueueSteps
    <3>3. \A i \in 1 .. Len(queue) : queue[i] # r
      BY <1>0, <3>1
    <3> QED BY <1>0, <1>00, <3>1, <3>2, <3>3 DEF Queued
  <2>2. CASE closing # "no"
    BY <1>0, <1>2, <1>3, <2>2 DEF Invoke
  <2> QED BY <2>1, <2>2
<1>4. ASSUME Quiet PROVE Queued'
  <2>1. pending \in Request => phase[pending] = "waiting"
    BY <1>00 DEF OneActive
  <2> QED BY <1>0, <1>2, <1>4, <2>1 DEF Quiet, Conclude
<1>5. ASSUME \/ Refuse \/ NotPersisted \/ NotDispatched \/ Dispatch \/ Finish \/ SettleThrows
             \/ Settle \/ SettleBlocked
             \/ \E decision \in {"allowed", "blocked"} : Decide(decision)
      PROVE  Queued'
  <2>1. active \in Request /\ phase[active] # "queued"
    BY <1>00, <1>5 DEF InvocationTypeOK, OneActive, Refuse, NotPersisted, NotDispatched, Dispatch,
       Finish, SettleThrows, Settle, SettleBlocked, Decide
  <2>2. queue' = queue /\ \E how \in Phase : phase' = [phase EXCEPT ![active] = how]
    BY <1>5 DEF Refuse, NotPersisted, NotDispatched, Dispatch, Finish, SettleThrows, Settle,
       SettleBlocked, Decide, Leave, Phase
  <2> QED BY <1>0, <1>2, <2>1, <2>2
<1>6. ASSUME FinalizeAccess PROVE Queued'
  BY <1>2, <1>6 DEF FinalizeAccess
<1>7. ASSUME AccessStep, UNCHANGED <<proxyVars, childVars>> PROVE Queued'
  BY <1>2, <1>7 DEF proxyVars
<1>8. ASSUME Turn PROVE Queued'
  <2>1. CASE queue' = queue /\ \A r \in Request : phase'[r] # phase[r] => phase[r] = "discovering"
    <3>1. \A r \in Request : phase[r] = "queued" => phase'[r] = "queued"
      BY <2>1
    <3> QED BY <1>2, <2>1, <3>1
  <2> QED BY <1>1, <1>8, <2>1 DEF Turn
<1> QED BY <1>3, <1>4, <1>5, <1>6, <1>7, <1>8 DEF Move

\* The SDK recorder's knowledge of an operation follows its invocation.
LEMMA OperationStep ==
  ASSUME InvocationInv, Move
  PROVE  OperationSound'
<1> DEFINE Sound(r) ==
      /\ phase[r] \notin Begun => op[r] = "none" /\ ~written[r]
      /\ phase[r] = "authorizing" => op[r] \in {"open", "censored"} /\ ~written[r]
      /\ phase[r] \in {"waiting", "settling"} => op[r] = "open"
      /\ phase[r] = "settling" => verdict[r] # "none"
      /\ op[r] = "completed" => verdict[r] = "completed"
      /\ verdict[r] = "completed" => [request |-> r, result |-> "ok"] \in answers
<1>0. /\ queue \in Seq(Request) /\ phase \in [Request -> Phase \cup {"discovering"}]
      /\ op \in [Request -> {"none", "censored", "open", "completed", "tool_failure"}]
      /\ verdict \in [Request -> {"none", "completed", "tool_failure"}]
      /\ written \in [Request -> BOOLEAN]
      /\ active \in Request \cup {None}
  BY DEF InvocationInv, InvocationTypeOK
<1>00. OneActive
  BY DEF InvocationInv
<1> SUFFICES ASSUME NEW r \in Request PROVE Sound(r)'
  BY DEF OperationSound
<1> USE DEF Begun
<1>1. Sound(r)
  BY DEF InvocationInv, OperationSound
<1>2. ASSUME Turn PROVE Sound(r)'
  <2>1. queue # <<>> => Head(queue) \in Request /\ phase[Head(queue)] = "queued"
    BY <1>0, QueueSteps DEF InvocationInv, Queued
  <2>2. phase'[r] # phase[r] => phase[r] \in {"queued", "discovering"}
    BY <1>2, <2>1 DEF Turn
  <2>3. UNCHANGED <<op, written, verdict, answers>>
        /\ (phase'[r] # phase[r] => phase'[r] \in {"discovering", "deciding", "threw"})
    BY <1>2 DEF Turn
  <2> QED BY <1>0, <1>1, <2>2, <2>3
<1>3. ASSUME NEW x \in Request, Invoke(x) PROVE Sound(r)'
  BY <1>0, <1>1, <1>3 DEF Invoke, childVars
<1>4. ASSUME Quiet PROVE Sound(r)'
  BY <1>0, <1>00, <1>1, <1>4 DEF Quiet, Conclude, OneActive
<1>5. ASSUME Refuse \/ NotPersisted \/ Finish \/ SettleThrows PROVE Sound(r)'
  BY <1>0, <1>1, <1>5 DEF Refuse, NotPersisted, Finish, SettleThrows, Leave, childVars
<1>6. ASSUME NotDispatched \/ Dispatch PROVE Sound(r)'
  BY <1>0, <1>1, <1>6 DEF NotDispatched, Dispatch, childVars
<1>7. ASSUME \/ Settle \/ SettleBlocked
             \/ \E decision \in {"allowed", "blocked"} : Decide(decision)
      PROVE  Sound(r)'
  BY <1>0, <1>1, <1>7 DEF Settle, SettleBlocked, Decide, childVars
<1>8. ASSUME FinalizeAccess PROVE Sound(r)'
  BY <1>1, <1>8 DEF FinalizeAccess, childVars
<1>9. ASSUME AccessStep, UNCHANGED <<proxyVars, childVars>> PROVE Sound(r)'
  BY <1>1, <1>9 DEF proxyVars, childVars
<1> QED BY <1>2, <1>3, <1>4, <1>5, <1>6, <1>7, <1>8, <1>9 DEF Move

-----------------------------------------------------------------------------
(* Receipts against operations *)

LEMMA OwnTypes ==
  ASSUME TypeOK, CallSound
  PROVE  OwnReceipts \subseteq Receipt /\ ReceiptsIn(memory[Owner]) \subseteq OwnReceipts
<1>1. memory[Owner] \in Seq(Receipt)
  BY OwnerIs DEF TypeOK
<1>2. Writing => call[Owner].receipt \in Receipt
  BY OwnerIs DEF CallSound, Writing
<1> QED BY <1>1, <1>2 DEF OwnReceipts, ReceiptsIn

LEMMA ReceiptKinds ==
  /\ \A rc \in Receipt : rc.request \in Request /\ rc.kind \in {"authorization", "terminal"}
  /\ \A rc \in Receipt : rc.kind = "authorization" =>
       /\ rc.decision \in {"allowed", "blocked"}
       /\ rc.decision = "allowed" => rc = Allowed(rc.request)
  /\ \A rc \in Receipt : rc.kind = "terminal" => rc \in Terminal
BY DEF Receipt, Authorization, Terminal, Allowed

\* Each receipt of the owner says what became of the operation, whose fate is sealed by
\* the time its outcome is asked for.
LEMMA ReceiptStep ==
  ASSUME InvocationInv, Move
  PROVE  ReceiptSound'
<1> DEFINE Matches(rc) ==
             /\ rc.kind = "authorization" =>
                  /\ op[rc.request] # "none"
                  /\ rc.decision = "blocked" <=> op[rc.request] = "censored"
             /\ rc.kind = "terminal" => rc \in reported
           Told(t) ==
             /\ phase[t.request] \in {"reporting", "done", "threw"}
             /\ op[t.request] \notin {"none", "open"}
             /\ t.disposition = IF op[t.request] = "censored" THEN "blocked" ELSE op[t.request]
             /\ t.written = WriteFact(t.request)
           Covered(r) == written[r] => Allowed(r) \in ReceiptsIn(memory[Owner])
           Recorded ==
             faults = 0 /\ life[Owner] \in {"running", "done"} =>
               \A r \in Request : op[r] # "none" => \E rc \in OwnReceipts : rc.request = r
           AllSound == /\ \A rc \in OwnReceipts : Matches(rc)
                       /\ \A t \in reported : Told(t)
                       /\ \A r \in Request : Covered(r)
                       /\ Recorded
<1>0. /\ TypeOK /\ CallSound /\ InvocationTypeOK /\ OneActive /\ Queued /\ OperationSound
      /\ IInv
  BY DEF InvocationInv, IInv
<1>1. /\ queue \in Seq(Request) /\ phase \in [Request -> Phase \cup {"discovering"}]
      /\ op \in [Request -> {"none", "censored", "open", "completed", "tool_failure"}]
      /\ written \in [Request -> BOOLEAN]
      /\ active \in Request \cup {None}
      /\ reported \subseteq Terminal /\ \A t \in Terminal : t.request \in Request
      /\ \A rc \in OwnReceipts : rc.request \in Request
  BY <1>0, OwnTypes, ReceiptKinds DEF InvocationTypeOK, TypeOK, Terminal
<1>2. AllSound
  BY DEF InvocationInv, ReceiptSound
<1> SUFFICES AllSound'
  BY DEF ReceiptSound
\* Steps that leave the recorder's part alone and settle no operation.
<1>3. ASSUME RecorderFrame, UNCHANGED <<op, written>>,
             \A r \in Request : phase[r] \in {"reporting", "done", "threw"} =>
                                  phase'[r] \in {"reporting", "done", "threw"}
      PROVE  AllSound'
  BY <1>1, <1>2, <1>3 DEF RecorderFrame, WriteFact
<1>4. ASSUME UNCHANGED accessVars PROVE RecorderFrame
  BY <1>4 DEF RecorderFrame, OwnReceipts, Writing, Running, accessVars
<1>5. ASSUME Turn PROVE AllSound'
  <2>1. queue # <<>> => Head(queue) \in Request /\ phase[Head(queue)] = "queued"
    BY <1>0, <1>1, QueueSteps DEF Queued
  <2>2. UNCHANGED <<accessVars, op, written>>
        /\ \A r \in Request : phase'[r] # phase[r] => phase[r] \in {"queued", "discovering"}
    BY <1>5, <2>1 DEF Turn
  <2> QED BY <1>1, <1>3, <1>4, <2>2
<1>6. ASSUME NEW x \in Request, Invoke(x) PROVE AllSound'
  BY <1>1, <1>3, <1>4, <1>6 DEF Invoke
<1>7. ASSUME Quiet PROVE AllSound'
  <2>1. pending \in Request => phase[pending] = "waiting"
    BY <1>0 DEF OneActive
  <2> QED BY <1>1, <1>3, <1>4, <1>7, <2>1 DEF Quiet, Conclude
<1>8. ASSUME Refuse \/ Finish \/ NotDispatched PROVE AllSound'
  <2>1. \/ phase' = [phase EXCEPT ![active] = "threw"]
        \/ phase' = [phase EXCEPT ![active] = "done"]
        \/ phase' = [phase EXCEPT ![active] = "settling"] /\ phase[active] = "authorizing"
    BY <1>8 DEF Refuse, Finish, NotDispatched, Leave
  <2> QED BY <1>1, <1>3, <1>4, <1>8, <2>1 DEF Refuse, Finish, NotDispatched
<1>9. ASSUME AccessStep, UNCHANGED <<proxyVars, childVars>> PROVE AllSound'
  BY <1>0, <1>3, <1>9, AccessEffect DEF proxyVars
<1>10. ASSUME FinalizeAccess PROVE AllSound'
  <2>1. UNCHANGED <<life, memory, reported, faults, op, written, phase>>
        /\ call[Owner] = Idle /\ call'[Owner].stage = "link"
    BY <1>0, <1>10, OwnerIs DEF FinalizeAccess, Finalize, TypeOK, Stage
  <2>2. OwnReceipts' = OwnReceipts
    BY <2>1 DEF OwnReceipts, Writing, Idle
  <2> QED BY <1>2, <2>1, <2>2 DEF WriteFact
\* An outcome that no receipt can tell of yet.
<1>11. ASSUME UNCHANGED <<fileVars, life, memory, call, reported, written>>,
              active \in Request, phase[active] \notin {"reporting", "done", "threw"},
              op[active] \notin {"none", "censored"},
              \E result \in {"open", "completed", "tool_failure"} :
                op' = [op EXCEPT ![active] = result],
              phase' = [phase EXCEPT ![active] = "threw"], faults' \in {faults, faults + 1}
       PROVE  AllSound'
  <2>1. OwnReceipts' = OwnReceipts /\ UNCHANGED <<memory, reported, life>>
    BY <1>11 DEF OwnReceipts, Writing
  <2>2. faults \in Nat /\ (faults' = 0 => faults = 0)
    BY <1>0, <1>11 DEF TypeOK
  <2>3. \A t \in reported : t.request # active
    BY <1>2, <1>11
  <2>4. \A r \in Request : (op'[r] = "none" <=> op[r] = "none")
                           /\ (op'[r] = "censored" <=> op[r] = "censored")
                           /\ (r # active => op'[r] = op[r] /\ phase'[r] = phase[r])
    BY <1>1, <1>11
  <2>5. \A rc \in OwnReceipts' : Matches(rc)'
    BY <1>1, <1>2, <2>1, <2>4
  <2>6. \A t \in reported' : Told(t)'
    BY <1>1, <1>2, <1>11, <2>1, <2>3, <2>4 DEF WriteFact
  <2>7. (\A r \in Request : Covered(r)') /\ Recorded'
    BY <1>1, <1>2, <1>11, <2>1, <2>2, <2>4
  <2> QED BY <2>5, <2>6, <2>7
<1>12. ASSUME NotPersisted \/ SettleThrows PROVE AllSound'
  <2>1. active \in Request /\ phase[active] \in {"authorizing", "settling"}
    BY <1>1, <1>12 DEF NotPersisted, SettleThrows
  <2>2. CASE op[active] = "censored"
    <3>1. NotPersisted /\ op' = op
      BY <1>0, <1>1, <1>12, <2>1, <2>2 DEF NotPersisted, SettleThrows, OperationSound
    <3> QED BY <1>1, <1>3, <1>4, <2>1, <3>1 DEF NotPersisted, Leave
  <2>3. CASE op[active] # "censored"
    <3>1. op[active] = "open"
          /\ (phase[active] = "settling" => verdict[active] \in {"completed", "tool_failure"})
      BY <1>0, <2>1, <2>3 DEF OperationSound, InvocationTypeOK
    <3>2. \E result \in {"open", "completed", "tool_failure"} :
            op' = [op EXCEPT ![active] = result]
      BY <1>1, <1>12, <2>1, <3>1 DEF NotPersisted, SettleThrows
    <3> QED BY <1>11, <1>12, <2>1, <3>1, <3>2 DEF NotPersisted, SettleThrows, Leave, accessVars
  <2> QED BY <2>2, <2>3
<1>13. ASSUME Dispatch PROVE AllSound'
  <2>1. /\ active \in Request /\ phase[active] = "authorizing" /\ op[active] = "open"
        /\ UNCHANGED <<accessVars, op>>
        /\ written' = [written EXCEPT ![active] = TRUE]
        /\ phase' = [phase EXCEPT ![active] = "waiting"]
        /\ Persisted(active)
    BY <1>1, <1>13 DEF Dispatch
  <2>2. PICK rc \in ReceiptsIn(memory[Owner]) : rc.request = active
    BY <2>1 DEF Persisted, RequestsIn
  <2>3. \A t \in reported : t.request # active
    BY <1>2, <2>1
  <2>4. rc \in Receipt /\ rc \in OwnReceipts /\ rc.kind = "authorization"
    BY <1>0, <1>2, <2>2, <2>3, OwnTypes, ReceiptKinds
  <2>5. rc = Allowed(active)
    BY <1>2, <2>1, <2>2, <2>4, ReceiptKinds
  <2>6. OwnReceipts' = OwnReceipts /\ UNCHANGED <<memory, reported, life, faults, op>>
    BY <2>1 DEF OwnReceipts, Writing, accessVars
  <2>7. \A r \in Request : r # active => written'[r] = written[r] /\ phase'[r] = phase[r]
    BY <1>1, <2>1
  <2>8. \A t \in reported' : Told(t)'
    BY <1>1, <1>2, <2>3, <2>6, <2>7 DEF WriteFact
  <2>9. \A r \in Request : Covered(r)'
    BY <1>2, <2>2, <2>5, <2>6, <2>7
  <2> QED BY <1>2, <2>6, <2>8, <2>9
<1>14. ASSUME NEW decision \in {"allowed", "blocked"}, Decide(decision) PROVE AllSound'
  <2> DEFINE rc == [kind |-> "authorization", request |-> active, decision |-> decision]
  <2>1. Asks(rc) /\ reported' = reported
    BY <1>0, <1>14, DecideAsks
  <2>2. /\ active \in Request /\ phase[active] = "deciding" /\ op[active] = "none"
        /\ written' = written
        /\ op' = [op EXCEPT ![active] = IF decision = "allowed" THEN "open" ELSE "censored"]
        /\ phase' = [phase EXCEPT ![active] = "authorizing"]
    BY <1>0, <1>1, <1>14 DEF Decide, OperationSound, Begun
  <2>3. OwnReceipts' = OwnReceipts \cup {rc} /\ memory'[Owner] = memory[Owner]
        /\ UNCHANGED <<life, faults>>
    BY <1>0, <2>1, AsksEffect DEF Asks
  <2>4. \A x \in OwnReceipts : x.kind = "authorization" => x.request # active
    BY <1>2, <2>2
  <2>5. \A t \in reported : t.request # active
    BY <1>2, <2>2
  <2>6. \A r \in Request : r # active => op'[r] = op[r] /\ phase'[r] = phase[r]
    BY <1>1, <2>2
  <2>7. \A x \in OwnReceipts' : Matches(x)'
    BY <1>1, <1>2, <2>1, <2>2, <2>3, <2>4, <2>6
  <2>8. \A t \in reported' : Told(t)'
    BY <1>1, <1>2, <2>1, <2>2, <2>5, <2>6 DEF WriteFact
  <2>9. \A r \in Request : Covered(r)'
    BY <1>2, <2>2, <2>3
  <2>10. rc.request = active
    OBVIOUS
  <2>11. Recorded'
    <3> HIDE DEF rc
    <3> QED BY <1>2, <2>2, <2>3, <2>6, <2>10
  <2> QED BY <2>7, <2>8, <2>9, <2>11
<1>15. ASSUME Settle \/ SettleBlocked PROVE AllSound'
  <2> DEFINE disposition == IF Settle THEN Disposition(active) ELSE "blocked"
             t == [kind |-> "terminal", request |-> active, disposition |-> disposition,
                   written |-> WriteFact(active)]
  <2>1. Asks(t) /\ t \in Terminal /\ reported' = reported \cup {t}
    BY <1>0, <1>15, SettleAsks
  <2>2. /\ active \in Request /\ written' = written
        /\ phase[active] \in {"authorizing", "settling"}
        /\ phase' = [phase EXCEPT ![active] = "reporting"]
    BY <1>1, <1>15 DEF Settle, SettleBlocked
  <2>3. \/ /\ op[active] = "open" /\ op' = [op EXCEPT ![active] = disposition]
           /\ disposition \in {"completed", "tool_failure"}
        \/ op[active] = "censored" /\ op' = op /\ disposition = "blocked"
    BY <1>0, <1>15, <2>2 DEF Settle, SettleBlocked, Disposition, OperationSound, InvocationTypeOK
  <2>4. OwnReceipts' = OwnReceipts \cup {t} /\ memory'[Owner] = memory[Owner]
        /\ UNCHANGED <<life, faults>>
    BY <1>0, <2>1, AsksEffect DEF Asks
  <2>5. /\ t.kind = "terminal" /\ t.request = active
        /\ t.disposition = disposition /\ t.written = WriteFact(active)
    OBVIOUS
  <2> HIDE DEF disposition, t
  <2>6. \A x \in reported : x.request # active
    BY <1>2, <2>2
  <2>7. \A r \in Request : r # active => op'[r] = op[r] /\ phase'[r] = phase[r]
    BY <1>1, <2>2, <2>3
  <2>8. /\ op'[active] = "censored" <=> op[active] = "censored"
        /\ op'[active] # "none" /\ op[active] # "none"
    BY <1>1, <2>2, <2>3
  <2>9. \A x \in OwnReceipts' : Matches(x)'
    BY <1>1, <1>2, <2>1, <2>4, <2>7, <2>8, <2>5
  <2>10. ASSUME NEW x, x = t PROVE Told(x)'
    BY <1>1, <2>2, <2>3, <2>8, <2>10, <2>5 DEF WriteFact
  <2>11. \A x \in reported' : Told(x)'
    BY <1>1, <1>2, <2>1, <2>2, <2>6, <2>7, <2>10 DEF WriteFact
  <2>12. (\A r \in Request : Covered(r)') /\ Recorded'
    BY <1>2, <2>2, <2>4, <2>7, <2>8, <2>5
  <2> QED BY <2>9, <2>11, <2>12
<1> QED
  BY <1>0, <1>5, <1>6, <1>7, <1>8, <1>9, <1>10, <1>12, <1>13, <1>14, <1>15 DEF Move

-----------------------------------------------------------------------------
(* Closing, bundles, the child's output, types *)

\* The proxy finalizes with nothing active and nothing queued, and accepts no more.
LEMMA CloseStep ==
  ASSUME InvocationInv, Move
  PROVE  CloseSound'
<1>0. /\ CloseSound /\ IInv /\ TypeOK /\ CallSound /\ InvocationTypeOK
      /\ OneActive /\ OperationSound /\ queue \in Seq(Request)
  BY DEF InvocationInv, IInv, InvocationTypeOK
<1>1. ASSUME UNCHANGED <<call, life>>, active' \in {active, None}, queue' = queue,
             \/ closing' = closing
             \/ queue = <<>> /\ active = None /\ closing' \notin {"no", "draining", "closed"}
             \/ closing = "no" /\ closing' = "draining"
             \/ life[Owner] = "done" /\ closing = "finalizing" /\ closing' \in {"closed", "failed"}
                /\ queue = <<>> /\ active = None,
             closing = "finalizing" /\ closing' # "finalizing" =>
               call[Owner].stage \notin {"link", "syncdir"}
      PROVE  CloseSound'
  BY <1>0, <1>1 DEF CloseSound
<1>2. ASSUME Turn, Closes, ~Quiet PROVE CloseSound'
  <2>1. closing' \in {closing, "no", "draining"} /\ call[Owner] = Idle /\ life[Owner] = "running"
        /\ UNCHANGED <<call, life>>
    BY <1>2 DEF Turn, Closes, FinalizeAccess, Free, Running, accessVars
  <2> QED BY <1>0, <1>2, <2>1 DEF Turn, CloseSound, Idle
<1>3. ASSUME NEW r \in Request, Invoke(r) PROVE CloseSound'
  BY <1>0, <1>3 DEF Invoke, CloseSound, accessVars
<1>4. ASSUME Refuse \/ NotPersisted \/ Finish \/ SettleThrows PROVE CloseSound'
  BY <1>1, <1>4 DEF Refuse, NotPersisted, Finish, SettleThrows, Leave, accessVars
<1>5. ASSUME Dispatch \/ NotDispatched PROVE CloseSound'
  BY <1>1, <1>5 DEF Dispatch, NotDispatched, accessVars
<1>6. ASSUME Quiet, Closes PROVE CloseSound'
  <2>1. UNCHANGED <<call, life, queue, active>>
    BY <1>6 DEF Quiet, accessVars
  <2>2. CASE closing' = closing \/ (closing = "no" /\ closing' = "draining")
    BY <1>1, <2>1, <2>2
  <2>3. CASE queue = <<>> /\ active = None /\ Free /\ closing' \notin {"no", "draining", "closed"}
    BY <1>1, <2>1, <2>3 DEF Free, Idle
  <2>4. CASE /\ life[Owner] = "done" /\ closing = "finalizing" /\ closing' \in {"closed", "failed"}
             /\ queue = <<>> /\ active = None
    <3>1. call[Owner].stage \notin {"link", "syncdir"}
      BY <1>0, <2>4, OwnerIs DEF CallSound, Running
    <3> QED BY <1>1, <2>1, <2>4, <3>1
  <2>5. CASE FinalizeAccess
    BY <1>0, <2>5 DEF FinalizeAccess, Finalize, CloseSound
  <2> QED BY <1>6, <2>2, <2>3, <2>4, <2>5 DEF Closes
<1>8. ASSUME FinalizeAccess PROVE CloseSound'
  BY <1>0, <1>8 DEF FinalizeAccess, Finalize, CloseSound
<1>9. ASSUME NEW rc, Asks(rc), UNCHANGED <<closing, queue, active>> PROVE CloseSound'
  BY <1>0, <1>9, AsksEffect DEF Asks, CloseSound
<1>10. ASSUME AccessStep, UNCHANGED <<proxyVars, childVars>> PROVE CloseSound'
  BY <1>0, <1>10, AccessEffect DEF RecorderFrame, CloseSound, proxyVars
<1>11. ASSUME \/ Settle \/ SettleBlocked
              \/ \E decision \in {"allowed", "blocked"} : Decide(decision)
       PROVE  CloseSound'
  BY <1>0, <1>9, <1>11, DecideAsks, SettleAsks DEF Settle, SettleBlocked, Decide
<1> QED
  BY <1>2, <1>3, <1>4, <1>5, <1>6, <1>8, <1>10, <1>11 DEF Move

\* Only Link, and the host's crash, change the bundle.
LEMMA ProxyBundle ==
  ASSUME InvocationInv, Move
  PROVE  \/ bundle' \in {bundle, None}
         \/ \E p \in Process : Link(p) /\ AccessStep
<1>1. InvocationTypeOK /\ OneActive /\ OperationSound
  BY DEF InvocationInv
<1>2. CASE AccessStep
  BY <1>2
     DEF accessVars, fileVars, AccessStep, Progress, Recovery, Write, Sync, Link, LinkRefused,
         SyncDirectory, WriteFails, Kill, Recover, Synthesize, Propose, Finalize, HostCrash
<1>3. CASE UNCHANGED fileVars
  BY <1>3 DEF fileVars
<1>4. UNCHANGED fileVars \/ AccessStep
  BY <1>1, DecideAsks, SettleAsks
     DEF Move, accessVars, Asks, Turn, Quiet, Refuse, NotPersisted, Dispatch, NotDispatched,
         SettleThrows, Finish, FinalizeAccess, Finalize, Invoke
<1> QED BY <1>2, <1>3, <1>4

LEMMA ProxyMemory ==
  ASSUME InvocationInv, Move
  PROVE  /\ memory'[Owner] = memory[Owner] \/ Writing
         /\ Running(Owner)' => Running(Owner)
         /\ closing \notin {"no", "draining"} => closing' \notin {"no", "draining"}
<1>0. IInv /\ InvocationTypeOK /\ OneActive /\ OperationSound
  BY DEF InvocationInv
<1>1. CASE AccessStep /\ UNCHANGED <<proxyVars, childVars>>
  BY <1>0, <1>1, AccessEffect DEF RecorderFrame, proxyVars
<1>2. CASE ~(AccessStep /\ UNCHANGED <<proxyVars, childVars>>)
  <2>1. UNCHANGED <<memory, life>>
    BY <1>0, <1>2, DecideAsks, SettleAsks
       DEF Move, accessVars, Asks, Turn, Quiet, Refuse, NotPersisted, Dispatch, NotDispatched,
           SettleThrows, Finish, FinalizeAccess, Finalize, Invoke
  <2>2. closing \notin {"no", "draining"} => closing' \notin {"no", "draining"}
    BY DEF Move, Closes, FinalizeAccess
  <2> QED BY <2>1, <2>2 DEF Running
<1> QED BY <1>1, <1>2

\* A published bundle extends the owner's list, and that list grows no more.
LEMMA BundleSoundStep ==
  ASSUME InvocationInv, Move
  PROVE  BundleSound'
<1>0. /\ IInv /\ TypeOK /\ CallSound /\ Inherited /\ InvocationTypeOK /\ OneActive
      /\ OperationSound /\ CloseSound /\ BundleSound /\ Owner \in Process
  BY OwnerIs DEF InvocationInv, IInv
<1>1. /\ memory'[Owner] = memory[Owner] \/ Writing
      /\ Running(Owner)' => Running(Owner)
      /\ closing \notin {"no", "draining"} => closing' \notin {"no", "draining"}
  BY <1>0, ProxyMemory
<1>2. CASE bundle' \in {bundle, None}
  <2>1. SUFFICES ASSUME bundle # None, bundle' = bundle PROVE BundleSound'
    BY <1>2 DEF BundleSound
  <2>2. ~Overlap => memory'[Owner] = memory[Owner]
    <3>1. Writing => Running(Owner) /\ active # None
      BY <1>0 DEF CallSound, Writing, OneActive
    <3> QED BY <1>0, <1>1, <2>1, <3>1 DEF BundleSound, CloseSound
  <2> QED BY <1>0, <1>1, <2>1, <2>2 DEF BundleSound
<1>3. CASE \E p \in Process : Link(p) /\ AccessStep
  <2>1. PICK p \in Process : Link(p)
    BY <1>3
  <2>2. bundle'.receipts = memory[p] /\ OpenIn(memory[p]) = {} /\ Running(p)
        /\ memory' = memory
    BY <1>0, <2>1 DEF Link, CallSound
  <2>3. ~Overlap => IsPrefix(memory[Owner], memory[p]) /\ (Running(Owner) => p = Owner)
    BY <1>0, <2>2 DEF Inherited
  <2>4. p = Owner => closing \notin {"no", "draining"}
    BY <1>0, <2>1 DEF Link, CloseSound
  <2>5. OpenIn(bundle'.receipts) = {}
    BY <2>2
  <2> QED BY <1>1, <2>2, <2>3, <2>4, <2>5 DEF BundleSound
<1> QED BY <1>0, <1>2, <1>3, ProxyBundle

LEMMA InvocationTypeStep ==
  ASSUME InvocationInv, TypeOK', Move
  PROVE  InvocationTypeOK'
<1>0. /\ IInv /\ InvocationTypeOK /\ OneActive /\ Queued /\ OperationSound
      /\ None \notin Request
  BY ProxyAssumption DEF InvocationInv
<1> USE DEF InvocationTypeOK, Phase
<1>2. ASSUME Turn PROVE InvocationTypeOK'
  <2>1. queue # <<>> => Tail(queue) \in Seq(Request)
    BY <1>0
  <2> QED BY <1>0, <1>2, <2>1 DEF Turn
<1>3. ASSUME NEW r \in Request, Invoke(r) PROVE InvocationTypeOK'
  <2>1. Append(queue, r) \in Seq(Request)
    BY <1>0
  <2> QED BY <1>0, <1>3, <2>1 DEF Invoke
<1>4. ASSUME Refuse \/ NotPersisted \/ Finish \/ SettleThrows \/ Dispatch \/ NotDispatched
      PROVE  InvocationTypeOK'
  <2>1. CASE Refuse \/ Finish
    BY <1>0, <2>1 DEF Refuse, Finish, Leave
  <2>2. CASE NotPersisted
    BY <1>0, <2>2 DEF NotPersisted, Leave
  <2>3. CASE SettleThrows
    BY <1>0, <2>3 DEF SettleThrows, Leave, OperationSound
  <2>4. CASE Dispatch
    BY <1>0, <2>4 DEF Dispatch
  <2>5. CASE NotDispatched
    BY <1>0, <2>5 DEF NotDispatched
  <2> QED BY <1>4, <2>1, <2>2, <2>3, <2>4, <2>5
<1>5. ASSUME \/ Settle \/ SettleBlocked
             \/ \E decision \in {"allowed", "blocked"} : Decide(decision)
      PROVE  InvocationTypeOK'
  <2>1. CASE Settle
    <3>1. active \in Request /\ verdict[active] \in {"completed", "tool_failure"}
      BY <1>0, <2>1 DEF Settle, OperationSound
    <3> QED BY <1>0, <2>1, <3>1 DEF Settle
  <2>2. CASE SettleBlocked
    BY <1>0, <2>2 DEF SettleBlocked
  <2>3. CASE \E decision \in {"allowed", "blocked"} : Decide(decision)
    BY <1>0, <2>3 DEF Decide
  <2> QED BY <1>5, <2>1, <2>2, <2>3
<1>6. ASSUME Quiet PROVE InvocationTypeOK'
  BY <1>0, <1>6 DEF Quiet, Conclude
<1>7. ASSUME FinalizeAccess PROVE InvocationTypeOK'
  BY <1>0, <1>7 DEF FinalizeAccess
<1>8. ASSUME AccessStep, UNCHANGED <<proxyVars, childVars>> PROVE InvocationTypeOK'
  BY <1>0, <1>8 DEF proxyVars
<1> QED BY <1>2, <1>3, <1>4, <1>5, <1>6, <1>7, <1>8 DEF Move

\* Every step is one of the journal, or leaves it alone but for counting
\* a fault of the SDK recorder.
LEMMA InvocationAccess ==
  ASSUME InvocationInv, Move
  PROVE  IInv'
<1>0. IInv /\ InvocationTypeOK /\ OneActive /\ OperationSound
  BY DEF InvocationInv
<1>1. ASSUME Next \/ UNCHANGED accessVars PROVE IInv'
  BY <1>0, <1>1, IInvStep
<1>2. ASSUME Settle \/ SettleBlocked PROVE IInv'
  <2>1. active \in Request /\ verdict[active] \in {"none", "completed", "tool_failure"}
    BY <1>0, <1>2 DEF Settle, SettleBlocked, InvocationTypeOK
  <2>2. \E disposition \in Reported : Report(active, disposition, WriteFact(active))
    BY <1>0, <1>2, <2>1, ProxyAssumption DEF Settle, SettleBlocked, Disposition, OperationSound
  <2> QED BY <1>1, <2>1, <2>2 DEF Next, WriteFact
<1>3. ASSUME NEW decision \in {"allowed", "blocked"}, Decide(decision) PROVE IInv'
  BY <1>0, <1>1, <1>3 DEF Decide, InvocationTypeOK, Next
<1>4. ASSUME FinalizeAccess PROVE IInv'
  BY <1>1, <1>4 DEF FinalizeAccess, Next
<1>5. ASSUME AccessStep, UNCHANGED <<proxyVars, childVars>> PROVE IInv'
  BY <1>1, <1>5 DEF AccessStep, Next
<1>6. ASSUME SettleThrows PROVE IInv'
  <2>1. faults' \in Nat /\ UNCHANGED <<fileVars, life, memory, call, reported, crashes>>
    BY <1>0, <1>6 DEF SettleThrows, IInv, TypeOK
  <2> QED
    BY <1>0, <2>1 DEF IInv, TypeOK, CallSound, Durable, Inherited, Published, AllHonest,
       Honest, Running, fileVars
<1>7. ASSUME \/ Turn \/ Refuse \/ NotPersisted \/ Dispatch \/ NotDispatched \/ Finish
             \/ \E r \in Request : Invoke(r)
      PROVE  IInv'
  BY <1>1, <1>7 DEF Turn, Refuse, NotPersisted, Dispatch, NotDispatched, Finish, Invoke
<1>8. ASSUME Quiet PROVE IInv'
  BY <1>1, <1>8 DEF Quiet
<1> QED
  BY <1>0, <1>2, <1>3, <1>4, <1>5, <1>6, <1>7, <1>8 DEF Move

LEMMA InvocationStep ==
  ASSUME InvocationInv, Move
  PROVE  InvocationInv'
<1>1. IInv' /\ TypeOK'
  BY InvocationAccess DEF IInv
<1>2. OneActive' /\ Queued' /\ OperationSound' /\ InvocationTypeOK'
  BY <1>1, OneActiveStep, QueuedStep, OperationStep, InvocationTypeStep
<1>3. ReceiptSound' /\ CloseSound' /\ BundleSound'
  BY ReceiptStep, CloseStep, BundleSoundStep
<1> QED BY <1>1, <1>2, <1>3 DEF InvocationInv

-----------------------------------------------------------------------------
(* The proxy of version 1 *)

LEMMA FirstChunk ==
  ASSUME NEW answer, NEW line \in Lines(answer)
  PROVE  line[1].answer = answer
BY DEF Lines

LEMMA DataQuiet ==
  ASSUME NEW S, stdout \in Seq(S), buffer \in Seq(S), LinesAnswer,
         pending \in Request \cup {None}, Data
  PROVE  Quiet
<1>1. PICK n \in 1 .. Len(stdout) :
        LET line == buffer \o SubSeq(stdout, 1, n) IN
        IF pending = None THEN UNCHANGED <<buffer, pending, phase, verdict>>
        ELSE IF Ends(line) = {}
             THEN buffer' = line /\ UNCHANGED <<pending, phase, verdict>>
             ELSE Conclude(IF Ends(line) = {Len(line)} THEN Meaning(line)
                           ELSE "tool_failure")
  BY DEF Data
<1> DEFINE line == buffer \o SubSeq(stdout, 1, n)
           ok == [request |-> pending, result |-> "ok"]
<1>2. ASSUME line \in Lines(ok), pending # None PROVE ok \in answers
  <2>1. stdout \in Seq(S) /\ buffer \in Seq(S) /\ n \in 1 .. Len(stdout)
    OBVIOUS
  <2>2. line[1] = IF buffer = <<>> THEN stdout[1] ELSE buffer[1]
    BY <2>1
  <2>3. line[1].answer = ok
    BY <1>2, FirstChunk
  <2>4. buffer # <<>> => 1 \in 1 .. Len(buffer)
    BY <2>1
  <2>5. ok.request \in Request
    BY <1>2
  <2> QED BY <2>1, <2>2, <2>3, <2>4, <2>5 DEF LinesAnswer
<1>3. Meaning(line) \in {"completed", "tool_failure"}
      /\ (Meaning(line) = "completed" /\ pending # None => ok \in answers)
  BY <1>2 DEF Meaning
<1>4. UNCHANGED <<accessVars, queue, active, written, op, answers>>
  BY DEF Data, accessVars, fileVars
<1> HIDE DEF line
<1>5. \/ UNCHANGED <<phase, verdict, pending>>
      \/ pending # None /\ Conclude("tool_failure")
      \/ pending # None /\ Conclude("completed") /\ ok \in answers
  BY <1>1, <1>3 DEF line
<1> QED BY <1>4, <1>5 DEF Quiet

LEMMA RejectQuiet ==
  ASSUME pending \in Request \cup {None},
         GiveUp \/ ExitEvent \/ StdinError \/ Interrupt
  PROVE  Quiet
BY DEF GiveUp, TimerArmed, ExitEvent, StdinError, Interrupt, RejectPending, Quiet, childVars

LEMMA QuietSteps ==
  ASSUME \/ Drained \/ Terminated \/ CloseThrows \/ Closed \/ Close
         \/ ChildAnswers \/ ChildIgnores \/ ChildExits \/ UNCHANGED vars
  PROVE  Quiet
<1>1. CASE Drained \/ Terminated \/ CloseThrows \/ Closed \/ Close
  BY <1>1 DEF Drained, Terminated, CloseThrows, Closed, Close, Quiet, childVars
<1>2. CASE ChildAnswers \/ ChildIgnores \/ ChildExits \/ UNCHANGED vars
  BY <1>2 DEF ChildAnswers, ChildIgnores, ChildExits, vars, Quiet, proxyVars, childVars
<1> QED BY <1>1, <1>2

\* The proxy finalizes only when nothing is left to do.
LEMMA ClosingSteps ==
  ASSUME CloseSound, Drained \/ Terminated \/ CloseThrows \/ Closed \/ Close
  PROVE  Closes
BY QuietSteps
   DEF Closes, Drained, TailDone, Terminated, CloseThrows, Closed, Close, CloseSound, AtRest

LEMMA ProxyInvocations == ProxyIInv => InvocationInv
<1>1. ProxyTypeOK => InvocationTypeOK
  BY DEF ProxyTypeOK, InvocationTypeOK
<1> QED BY <1>1 DEF ProxyIInv, InvocationInv

LEMMA StartTurns ==
  ASSUME InvocationInv, Start
  PROVE  Turn
<1>1. /\ InvocationTypeOK /\ OneActive /\ Queued /\ CloseSound /\ None \notin Request
  BY ProxyAssumption DEF InvocationInv
<1>2. Head(queue) \in Request /\ phase[Head(queue)] = "queued" /\ queue # <<>>
  BY <1>1, QueueSteps DEF Start, Queued, InvocationTypeOK
<1>3. /\ active = None /\ pending' = pending /\ queue' = Tail(queue)
      /\ closing \in {"no", "draining"} /\ Free
      /\ UNCHANGED <<accessVars, written, op, verdict, answers>>
  BY <1>1, <1>2 DEF Start, MayStart, AtRest, CloseSound, childVars
<1>4. \A r \in Request : phase[r] # "deciding" /\ pending # r
  BY <1>1, <1>3 DEF OneActive
<1>5. \/ phase' = [phase EXCEPT ![Head(queue)] = "threw"] /\ active' = None
      \/ phase' = [phase EXCEPT ![Head(queue)] = "deciding"] /\ active' = Head(queue)
  BY <1>3 DEF Start
<1>6. phase \in [Request -> Phase \cup {"discovering"}]
  BY <1>1 DEF InvocationTypeOK
<1>7. /\ phase' \in [Request -> Phase \cup {"discovering"}] /\ active' \in Request \cup {None}
      /\ \A r \in Request :
           /\ phase'[r] # phase[r] => r = Head(queue) /\ phase'[r] \in {"deciding", "threw"}
           /\ phase'[r] = "deciding" <=> active' = r
  BY <1>1, <1>2, <1>4, <1>5, <1>6 DEF Phase
<1> QED BY <1>1, <1>2, <1>3, <1>4, <1>7 DEF Turn

LEMMA ProxyMoves ==
  ASSUME ProxyIInv, [ProxyNext]_vars
  PROVE  Move
<1>0. CloseSound /\ InvocationInv /\ LinesAnswer
      /\ pending \in Request \cup {None} /\ stdout \in Seq(Chunk) /\ buffer \in Seq(Chunk)
  BY ProxyInvocations DEF ProxyIInv, ProxyTypeOK, ChunksAnswer, LinesAnswer
<1>1. ASSUME \/ Data \/ GiveUp \/ ExitEvent \/ StdinError \/ Interrupt
             \/ ChildAnswers \/ ChildIgnores \/ ChildExits \/ UNCHANGED vars
      PROVE  Move
  <2>1. closing' = closing
    BY <1>1 DEF Data, GiveUp, ExitEvent, StdinError, Interrupt, ChildAnswers, ChildIgnores,
       ChildExits, vars, proxyVars
  <2> QED BY <1>0, <1>1, <2>1, DataQuiet, RejectQuiet, QuietSteps DEF Move, Closes
<1>2. ASSUME Drained \/ Terminated \/ CloseThrows \/ Closed \/ Close PROVE Move
  BY <1>0, <1>2, QuietSteps, ClosingSteps DEF Move
<1>3. ASSUME Start PROVE Move
  BY <1>0, <1>3, StartTurns DEF Move, Closes, Start
<1>4. ASSUME \/ Refuse \/ (\E decision \in {"allowed", "blocked"} : Decide(decision))
             \/ NotPersisted \/ Dispatch \/ NotDispatched \/ Settle \/ SettleBlocked
             \/ SettleThrows \/ Finish
             \/ \E r \in Request : Invoke(r)
             \/ AccessStep /\ UNCHANGED <<proxyVars, childVars>>
      PROVE  Move
  <2>1. closing' = closing
    BY <1>4 DEF Refuse, Decide, NotPersisted, Dispatch, NotDispatched, Settle, SettleBlocked,
       SettleThrows, Finish, Invoke, proxyVars
  <2> QED BY <1>4, <2>1 DEF Move, Closes
<1>5. ASSUME FinalizeAccess PROVE Move
  BY <1>5 DEF Move, Closes
<1> QED
  BY <1>1, <1>2, <1>3, <1>4, <1>5 DEF ProxyNext, ProxyStep, CallerStep, ChildStep

LEMMA LinesType ==
  ASSUME NEW answer \in Answer, NEW line \in Lines(answer)
  PROVE  line \in Seq(Chunk) /\ \A i \in 1 .. Len(line) : line[i].answer = answer
<1>1. ASSUME NEW c \in Chunk, c.answer = answer, NEW d \in Chunk, d.answer = answer,
             line = <<c>> \/ line = <<c, d>>
      PROVE  line \in Seq(Chunk) /\ \A i \in 1 .. Len(line) : line[i].answer = answer
  <2>1. CASE line = <<c>>
    BY <1>1, <2>1
  <2>2. CASE line = <<c, d>>
    BY <1>1, <2>2
  <2> QED BY <1>1, <2>1, <2>2
<1>2. \A part \in {"whole", "head", "rest"} :
        LET c == [answer |-> answer, part |-> part] IN c \in Chunk /\ c.answer = answer
  BY DEF Chunk
<1> QED BY <1>1, <1>2 DEF Lines

\* What the child printed and the proxy still holds are answers the child gave.
LEMMA ChunksStep ==
  ASSUME ProxyTypeOK, ChunksAnswer, [ProxyNext]_vars
  PROVE  /\ ChunksAnswer'
         /\ stdout' \in Seq(Chunk) /\ buffer' \in Seq(Chunk)
         /\ answers' \subseteq Answer /\ stdin' \in Seq(Request)
<1>0. /\ stdout \in Seq(Chunk) /\ buffer \in Seq(Chunk)
      /\ stdin \in Seq(Request) /\ answers \subseteq Answer
  BY DEF ProxyTypeOK
<1>1. CASE Data
  <2>1. PICK n \in 1 .. Len(stdout) :
          /\ stdout' = SubSeq(stdout, n + 1, Len(stdout))
          /\ buffer' \in {buffer, <<>>, buffer \o SubSeq(stdout, 1, n)}
    BY <1>1 DEF Data
  <2>2. UNCHANGED <<answers, stdin>>
    BY <1>1 DEF Data
  <2>3. /\ SubSeq(stdout, n + 1, Len(stdout)) \in Seq(Chunk)
        /\ \A i \in 1 .. Len(SubSeq(stdout, n + 1, Len(stdout))) :
             /\ i + n \in 1 .. Len(stdout)
             /\ SubSeq(stdout, n + 1, Len(stdout))[i] = stdout[i + n]
    BY <1>0
  <2>4. /\ buffer \o SubSeq(stdout, 1, n) \in Seq(Chunk)
        /\ \A i \in 1 .. Len(buffer \o SubSeq(stdout, 1, n)) :
             \/ /\ i \in 1 .. Len(buffer)
                /\ (buffer \o SubSeq(stdout, 1, n))[i] = buffer[i]
             \/ /\ i - Len(buffer) \in 1 .. Len(stdout)
                /\ (buffer \o SubSeq(stdout, 1, n))[i] = stdout[i - Len(buffer)]
    BY <1>0
  <2>5. \A i \in 1 .. Len(stdout') : stdout'[i].answer \in answers
    BY <2>1, <2>3 DEF ChunksAnswer
  <2>6. \A i \in 1 .. Len(buffer') : buffer'[i].answer \in answers
    <3>1. CASE buffer' = buffer
      BY <3>1 DEF ChunksAnswer
    <3>2. CASE buffer' = <<>>
      BY <3>2
    <3>3. CASE buffer' = buffer \o SubSeq(stdout, 1, n)
      BY <2>4, <3>3 DEF ChunksAnswer
    <3> QED BY <2>1, <3>1, <3>2, <3>3
  <2>7. stdout' \in Seq(Chunk) /\ buffer' \in Seq(Chunk)
    <3>1. <<>> \in Seq(Chunk)
      OBVIOUS
    <3> QED BY <1>0, <2>1, <2>3, <2>4, <3>1
  <2> QED BY <1>0, <2>2, <2>5, <2>6, <2>7 DEF ChunksAnswer
<1>2. CASE ChildAnswers
  <2>1. PICK result \in {"ok", "error"} :
          LET answer == [request |-> Head(stdin), result |-> result]
          IN  /\ \E line \in Lines(answer) : stdout' = stdout \o line
              /\ answers' = answers \cup {answer}
    BY <1>2 DEF ChildAnswers
  <2> DEFINE answer == [request |-> Head(stdin), result |-> result]
  <2>2. stdin # <<>> /\ stdin' = Tail(stdin) /\ buffer' = buffer
    BY <1>2 DEF ChildAnswers, proxyVars
  <2>3. answer \in Answer /\ stdin' \in Seq(Request)
    BY <1>0, <2>2 DEF Answer
  <2>4. PICK line \in Lines(answer) : stdout' = stdout \o line
    BY <2>1
  <2>5. line \in Seq(Chunk) /\ \A i \in 1 .. Len(line) : line[i].answer = answer
    BY <2>3, LinesType
  <2>6. /\ stdout \o line \in Seq(Chunk)
        /\ \A i \in 1 .. Len(stdout \o line) :
             \/ i \in 1 .. Len(stdout) /\ (stdout \o line)[i] = stdout[i]
             \/ /\ i - Len(stdout) \in 1 .. Len(line)
                /\ (stdout \o line)[i] = line[i - Len(stdout)]
    BY <1>0, <2>5
  <2>7. answers' = answers \cup {answer}
    BY <2>1
  <2> HIDE DEF answer
  <2>8. \A i \in 1 .. Len(stdout') : stdout'[i].answer \in answers'
    BY <2>4, <2>5, <2>6, <2>7 DEF ChunksAnswer
  <2> QED BY <1>0, <2>2, <2>3, <2>4, <2>6, <2>7, <2>8 DEF ChunksAnswer
<1>3. CASE ChildIgnores
  BY <1>0, <1>3 DEF ChildIgnores, proxyVars, ChunksAnswer
<1>4. CASE Dispatch
  BY <1>0, <1>4 DEF Dispatch, ProxyTypeOK, ChunksAnswer
<1>5. CASE ~(Data \/ ChildAnswers \/ ChildIgnores \/ Dispatch)
  <2>1. UNCHANGED <<stdin, stdout, buffer, answers>>
    BY <1>5
       DEF ProxyNext, ProxyStep, CallerStep, ChildStep, vars, proxyVars, childVars,
           Start, Refuse, Decide, NotPersisted, NotDispatched, Settle,
           SettleBlocked, SettleThrows, Finish, GiveUp, ExitEvent, StdinError, Drained,
           Terminated, FinalizeAccess, CloseThrows, Closed, Interrupt, Close, Invoke,
           ChildExits
  <2> QED BY <1>0, <2>1 DEF ChunksAnswer
<1> QED BY <1>1, <1>2, <1>3, <1>4, <1>5

LEMMA ProxyTypeStep ==
  ASSUME ProxyIInv, InvocationInv', [ProxyNext]_vars
  PROVE  ProxyTypeOK'
<1>0. ProxyTypeOK /\ ChunksAnswer /\ OneActive' /\ InvocationTypeOK'
  BY DEF ProxyIInv, InvocationInv
<1> USE DEF ProxyTypeOK, Phase
<1>9. \A r \in Request : phase'[r] # "discovering"
  BY <1>0
     DEF ProxyNext, ProxyStep, CallerStep, ChildStep, vars, proxyVars, childVars, RejectPending,
         Conclude, Leave, Start, Refuse, Decide, NotPersisted, Dispatch, NotDispatched, Settle,
         SettleBlocked, SettleThrows, Finish, Data, GiveUp, ExitEvent, StdinError, Drained,
         Terminated, FinalizeAccess, CloseThrows, Closed, Interrupt, Close, Invoke,
         ChildAnswers, ChildIgnores, ChildExits
<1>10. pending' \in {None, active'}
  <2>1. pending' \in {pending, None, active}
    BY <1>0
       DEF ProxyNext, ProxyStep, CallerStep, ChildStep, vars, proxyVars, childVars, RejectPending,
         Conclude, Start, Refuse, Decide, NotPersisted, Dispatch, NotDispatched, Settle,
         SettleBlocked, SettleThrows, Finish, Data, GiveUp, ExitEvent, StdinError, Drained,
         Terminated, FinalizeAccess, CloseThrows, Closed, Interrupt, Close, Invoke,
         ChildAnswers, ChildIgnores, ChildExits
  <2> QED BY <1>0, <2>1 DEF OneActive
<1>11. failed' \in BOOLEAN
  BY <1>0
     DEF ProxyNext, ProxyStep, CallerStep, ChildStep, vars, proxyVars, childVars, Signalled,
         Start, Refuse, Decide, NotPersisted, Dispatch, NotDispatched, Settle,
         SettleBlocked, SettleThrows, Finish, Data, GiveUp, ExitEvent, StdinError, Drained,
         Terminated, FinalizeAccess, CloseThrows, Closed, Interrupt, Close, Invoke,
         ChildAnswers, ChildIgnores, ChildExits
<1>12. exited' \in BOOLEAN
  BY <1>0
     DEF ProxyNext, ProxyStep, CallerStep, ChildStep, vars, proxyVars, childVars, Signalled,
         Start, Refuse, Decide, NotPersisted, Dispatch, NotDispatched, Settle,
         SettleBlocked, SettleThrows, Finish, Data, GiveUp, ExitEvent, StdinError, Drained,
         Terminated, FinalizeAccess, CloseThrows, Closed, Interrupt, Close, Invoke,
         ChildAnswers, ChildIgnores, ChildExits
<1>13. closing' \in {"no", "draining", "terminating", "sdk", "access", "finalizing",
                     "closed", "failed"}
  BY <1>0
     DEF ProxyNext, ProxyStep, CallerStep, ChildStep, vars, proxyVars, childVars, Signalled,
         Start, Refuse, Decide, NotPersisted, Dispatch, NotDispatched, Settle,
         SettleBlocked, SettleThrows, Finish, Data, GiveUp, ExitEvent, StdinError, Drained,
         Terminated, FinalizeAccess, CloseThrows, Closed, Interrupt, Close, Invoke,
         ChildAnswers, ChildIgnores, ChildExits
<1>14. adapter' \in {"absent", "open", "finalized"}
  BY <1>0
     DEF ProxyNext, ProxyStep, CallerStep, ChildStep, vars, proxyVars, childVars, Signalled,
         Start, Refuse, Decide, NotPersisted, Dispatch, NotDispatched, Settle,
         SettleBlocked, SettleThrows, Finish, Data, GiveUp, ExitEvent, StdinError, Drained,
         Terminated, FinalizeAccess, CloseThrows, Closed, Interrupt, Close, Invoke,
         ChildAnswers, ChildIgnores, ChildExits
<1>15. child' \in {"running", "sigterm", "sigkill", "gone"}
  BY <1>0
     DEF ProxyNext, ProxyStep, CallerStep, ChildStep, vars, proxyVars, childVars, Signalled,
         Start, Refuse, Decide, NotPersisted, Dispatch, NotDispatched, Settle,
         SettleBlocked, SettleThrows, Finish, Data, GiveUp, ExitEvent, StdinError, Drained,
         Terminated, FinalizeAccess, CloseThrows, Closed, Interrupt, Close, Invoke,
         ChildAnswers, ChildIgnores, ChildExits
<1>16. phase' \in [Request -> Phase]
  BY <1>0, <1>9 DEF InvocationTypeOK
<1> QED
  BY <1>0, <1>10, <1>11, <1>12, <1>13, <1>14, <1>15, <1>16, ChunksStep DEF InvocationTypeOK

-----------------------------------------------------------------------------
(* What the evidence of a session is worth *)

LEMMA ProxyInit_IInv == ProxyInit => ProxyIInv
<1> SUFFICES ASSUME ProxyInit PROVE ProxyIInv
  OBVIOUS
<1>1. IInv
  BY Init_IInv DEF ProxyInit
<1>2. OwnReceipts = {} /\ ~Writing /\ reported = {} /\ bundle = None
  BY OwnerIs DEF ProxyInit, Init, OwnReceipts, ReceiptsIn, Writing, Idle
<1>3. ProxyTypeOK
  <2>1. <<>> \in Seq(Request) /\ <<>> \in Seq(Chunk)
    OBVIOUS
  <2>2. /\ phase \in [Request -> Phase] /\ written \in [Request -> BOOLEAN]
        /\ verdict \in [Request -> {"none", "completed", "tool_failure"}]
        /\ op \in [Request -> {"none", "censored", "open", "completed", "tool_failure"}]
    BY DEF ProxyInit, Phase
  <2>3. TypeOK
    BY <1>1 DEF IInv
  <2> QED BY <2>1, <2>2, <2>3 DEF ProxyInit, ProxyTypeOK
<1>4. OneActive /\ Queued /\ OperationSound /\ ChunksAnswer
  BY <1>2, ProxyAssumption DEF ProxyInit, OneActive, Queued, OperationSound, ChunksAnswer
<1>5. ReceiptSound /\ CloseSound /\ BundleSound
  BY <1>2, OwnerIs DEF ProxyInit, Init, Idle, ReceiptSound, CloseSound, BundleSound
<1> QED BY <1>1, <1>3, <1>4, <1>5 DEF ProxyIInv

\* The invariant of a session: what the owner's recorder holds matches what the SDK
\* recorder knows and what became of each request, under any interleaving with the
\* child, failed writes, deaths, host crashes and recoveries.
THEOREM ProxyInvariance == ProxySpec => []ProxyIInv
<1>1. ProxyInit => ProxyIInv
  BY ProxyInit_IInv
<1>2. ProxyIInv /\ [ProxyNext]_vars => ProxyIInv'
  <2> SUFFICES ASSUME ProxyIInv, [ProxyNext]_vars PROVE ProxyIInv'
    OBVIOUS
  <2>1. /\ IInv /\ ProxyTypeOK /\ OneActive /\ Queued /\ OperationSound
        /\ ReceiptSound /\ CloseSound /\ BundleSound /\ ChunksAnswer
    BY DEF ProxyIInv
  <2>2. InvocationInv'
    BY ProxyInvocations, ProxyMoves, InvocationStep
  <2>3. ChunksAnswer' /\ ProxyTypeOK'
    BY <2>1, <2>2, ChunksStep, ProxyTypeStep
  <2> QED BY <2>2, <2>3 DEF ProxyIInv, InvocationInv
<1> QED BY <1>1, <1>2, PTL DEF ProxySpec

\* The variables of the proxy, the adapter and the child keep their types.
THEOREM ProxyTypeCorrect == ProxySpec => []ProxyTypeOK
<1>1. ProxyIInv => ProxyTypeOK
  BY DEF ProxyIInv
<1> QED BY <1>1, ProxyInvariance, PTL

LEMMA ExtendsReceipts ==
  ASSUME NEW s \in Seq(Receipt), NEW t \in Seq(Receipt), IsPrefix(s, t)
  PROVE  ReceiptsIn(s) \subseteq ReceiptsIn(t)
<1>1. Len(s) <= Len(t) /\ \A i \in 1 .. Len(s) : s[i] = t[i]
  BY PrefixMeans
<1>2. /\ DOMAIN s = 1 .. Len(s) /\ DOMAIN t = 1 .. Len(t)
      /\ Len(s) \in Nat /\ Len(t) \in Nat
  OBVIOUS
<1>3. 1 .. Len(s) \subseteq 1 .. Len(t)
  BY <1>1, <1>2
<1> QED BY <1>1, <1>2, <1>3 DEF ReceiptsIn

\* Every authorization of a list that leaves nothing open has a terminal receipt.
LEMMA NothingOpenMeans ==
  ASSUME NEW list, OpenIn(list) = {}, NEW a \in ReceiptsIn(list), a.kind = "authorization"
  PROVE  \E t \in ReceiptsIn(list) : t.kind = "terminal" /\ t.request = a.request
BY DEF OpenIn

\* The evidence covers what was dispatched, and answers what it calls completed, for as
\* long as the recorder's receipts match the operations.
LEMMA CoversDispatches ==
  ASSUME ~Overlap, InvocationInv
  PROVE  DispatchIsCovered
<1> SUFFICES ASSUME NEW r \in Request, written[r]
             PROVE  /\ \E i \in 1 .. durable : Allowed(r) \in ReceiptsIn(journal[i])
                    /\ bundle # None =>
                         \E t \in ReceiptsIn(bundle.receipts) :
                           t.kind = "terminal" /\ t.request = r /\ t.written # "not_called"
  BY DEF DispatchIsCovered, Allowed
<1>1. /\ TypeOK /\ Durable /\ AllHonest /\ ReceiptSound /\ BundleSound
      /\ Owner \in Process
      /\ Allowed(r) \in ReceiptsIn(memory[Owner])
  BY OwnerIs DEF InvocationInv, IInv, ReceiptSound
<1>2. Allowed(r).kind = "authorization" /\ Allowed(r).request = r
  BY DEF Allowed
<1>3. memory[Owner] # <<>>
  BY <1>1 DEF ReceiptsIn
<1>4. \E i \in 1 .. durable : Allowed(r) \in ReceiptsIn(journal[i])
  BY <1>1, <1>3 DEF Durable
<1>5. ASSUME bundle # None
      PROVE  \E t \in ReceiptsIn(bundle.receipts) :
               t.kind = "terminal" /\ t.request = r /\ t.written # "not_called"
  <2>1. Allowed(r) \in ReceiptsIn(bundle.receipts)
    BY <1>1, <1>5, ExtendsReceipts DEF BundleSound, TypeOK
  <2>2. PICK t \in ReceiptsIn(bundle.receipts) : t.kind = "terminal" /\ t.request = r
    BY <1>1, <1>2, <1>5, <2>1, NothingOpenMeans DEF BundleSound
  <2>3. t \in reported \/ t = Interrupted(r)
    BY <1>1, <1>5, <2>2 DEF AllHonest, Honest
  <2>4. t \in reported => t.written = "called"
    BY <1>1, <2>2 DEF ReceiptSound, WriteFact
  <2>5. Interrupted(r).written = "unknown"
    BY DEF Interrupted
  <2> QED BY <2>2, <2>3, <2>4, <2>5
<1> QED BY <1>4, <1>5

LEMMA CreditsAnswers ==
  ASSUME InvocationInv
  PROVE  CompletedWasAnswered
<1> SUFFICES ASSUME bundle # None, NEW t \in ReceiptsIn(bundle.receipts),
                    t.kind = "terminal", t.disposition = "completed"
             PROVE  /\ [request |-> t.request, result |-> "ok"] \in answers
                    /\ op[t.request] = "completed"
  BY DEF CompletedWasAnswered
<1>1. /\ TypeOK /\ AllHonest /\ ReceiptSound /\ OperationSound
  BY DEF InvocationInv, IInv
<1>2. t # Interrupted(t.request)
  BY DEF Interrupted
<1>3. t \in reported
  BY <1>1, <1>2 DEF AllHonest, Honest
<1>4. t.request \in Request /\ op[t.request] = "completed"
  BY <1>1, <1>3 DEF TypeOK, Terminal, ReceiptSound
<1> QED BY <1>1, <1>4 DEF OperationSound

LEMMA TellsTheSame ==
  ASSUME InvocationInv
  PROVE  BundlesAgree
<1> SUFFICES ASSUME closing = "closed", faults = 0, NEW r \in Request
             PROVE  IF op[r] = "none" THEN r \notin RequestsIn(bundle.receipts)
                    ELSE \E t \in ReceiptsIn(bundle.receipts) :
                           /\ t.kind = "terminal" /\ t.request = r
                           /\ t.disposition = IF op[r] = "censored" THEN "blocked" ELSE op[r]
  BY DEF BundlesAgree
<1>1. /\ TypeOK /\ CallSound /\ Published /\ ReceiptSound /\ CloseSound /\ BundleSound
      /\ OneActive /\ Owner \in Process
  BY OwnerIs DEF InvocationInv, IInv
<1>2. life[Owner] = "done" /\ active = None
  BY <1>1 DEF CloseSound
<1>3. bundle # None /\ bundle.receipts = memory[Owner] /\ OpenIn(bundle.receipts) = {}
  BY <1>1, <1>2 DEF Published, BundleSound
<1>4. OwnReceipts = ReceiptsIn(bundle.receipts)
  BY <1>1, <1>2, <1>3 DEF OwnReceipts, OneActive
<1>5. \A t \in ReceiptsIn(bundle.receipts) :
        t.kind \in {"authorization", "terminal"}
  BY <1>1, <1>4, OwnTypes, ReceiptKinds
<1>6. \A t \in ReceiptsIn(bundle.receipts) : t.kind = "terminal" =>
        /\ op[t.request] # "none"
        /\ t.disposition = IF op[t.request] = "censored" THEN "blocked" ELSE op[t.request]
  BY <1>1, <1>4 DEF ReceiptSound
<1>7. CASE op[r] = "none"
  <2>1. \A t \in ReceiptsIn(bundle.receipts) : op[t.request] # "none"
    BY <1>1, <1>4, <1>5, <1>6 DEF ReceiptSound
  <2> QED BY <1>7, <2>1 DEF RequestsIn
<1>8. CASE op[r] # "none"
  <2>1. PICK rc \in ReceiptsIn(bundle.receipts) : rc.request = r
    BY <1>1, <1>2, <1>4, <1>8 DEF ReceiptSound
  <2>2. \E t \in ReceiptsIn(bundle.receipts) : t.kind = "terminal" /\ t.request = r
    BY <1>3, <1>5, <2>1, NothingOpenMeans
  <2> QED BY <1>6, <1>8, <2>2
<1> QED BY <1>7, <1>8

\* A request is handed to the child only after its allowed authorization is durable,
\* and no bundle, the owner's or a recovery's, denies that it was written.
THEOREM DispatchesAreCovered ==
  ASSUME ~Overlap
  PROVE  ProxySpec => []DispatchIsCovered
<1>1. ProxyIInv => DispatchIsCovered
  BY ProxyInvocations, CoversDispatches
<1> QED BY <1>1, ProxyInvariance, PTL

\* What a bundle calls completed the child answered under that request's id, and the
\* SDK recorder knows as completed, even with recoveries that overlap.
THEOREM CompletionsWereAnswered == ProxySpec => []CompletedWasAnswered
<1>1. ProxyIInv => CompletedWasAnswered
  BY ProxyInvocations, CreditsAnswers
<1> QED BY <1>1, ProxyInvariance, PTL

\* After a close without failed writes, each operation of the SDK recorder is a
\* transaction of the access bundle with the same outcome, and no other is.
THEOREM SessionBundlesAgree == ProxySpec => []BundlesAgree
<1>1. ProxyIInv => BundlesAgree
  BY ProxyInvocations, TellsTheSame
<1> QED BY <1>1, ProxyInvariance, PTL

\* After an interrupt no verdict becomes completed, whatever lines still arrive.
THEOREM InterruptsAreFinal == ProxySpec => InterruptIsFinal
<1>1. ProxyIInv /\ [ProxyNext]_vars =>
        [\A r \in Request :
           failed /\ verdict[r] # "completed" => verdict'[r] # "completed"]_vars
  <2> SUFFICES ASSUME ProxyIInv, [ProxyNext]_vars, NEW r \in Request,
                      failed, verdict[r] # "completed"
               PROVE  verdict'[r] # "completed"
    OBVIOUS
  <2>1. verdict \in [Request -> {"none", "completed", "tool_failure"}]
    BY DEF ProxyIInv, ProxyTypeOK
  <2>2. \A line : Meaning(line) = "tool_failure"
    BY DEF Meaning
  <2> QED
    BY <2>1, <2>2
       DEF ProxyNext, ProxyStep, CallerStep, ChildStep, vars, proxyVars, RejectPending,
           Conclude, Start, Refuse, Decide, NotPersisted, Dispatch, NotDispatched, Settle,
           SettleBlocked, SettleThrows, Finish, Data, GiveUp, ExitEvent, StdinError, Drained,
           Terminated, FinalizeAccess, CloseThrows, Closed, Interrupt, Close, Invoke,
           ChildAnswers, ChildIgnores, ChildExits
<1> QED BY <1>1, ProxyInvariance, PTL DEF ProxySpec, InterruptIsFinal

-----------------------------------------------------------------------------
(* The session of either version *)

LEMMA MessageNames ==
  /\ None \notin Request
  /\ \A m \in Message : m \notin Request /\ m # None
  /\ "control" \in Message
BY ProxyAssumption, SessionAssumption DEF Message

\* What an event says was got is the result of a whole line that answers what is pending.
LEMMA EventGot ==
  ASSUME NEW lines, Event(lines).got # "nothing"
  PROVE  /\ pending # None
         /\ \E i \in DOMAIN lines :
              /\ lines[i].part # "head"
              /\ lines[i].answer.request = pending
              /\ lines[i].answer.result = Event(lines).got
<1> DEFINE whole == {i \in DOMAIN lines : lines[i].part # "head"}
           response == IF pending = None THEN {}
                       ELSE {i \in whole : /\ lines[i].answer.request = pending
                                           /\ \A j \in {k \in whole : lines[k].answer.request = pending} :
                                                i <= j}
           found == CHOOSE i \in response : TRUE
<1>1. response # {} /\ Event(lines).got = lines[found].answer.result
  BY DEF Event
<1>2. found \in response
  BY <1>1
<1> QED BY <1>1, <1>2

\* A journal that is full stays full.
LEMMA EventRows ==
  ASSUME NEW S, NEW lines \in Seq(S), rows \in Nat
  PROVE  /\ Event(lines).rows \in Nat
         /\ Full => Event(lines).rows >= MaxRows
<1>1. /\ Len(lines) \in Nat /\ DOMAIN lines = 1 .. Len(lines) /\ MaxRows \in Nat
  BY SessionAssumption
<1>2. IsFiniteSet(DOMAIN lines)
  BY <1>1, FS_Interval
<1>3. ASSUME NEW T \in SUBSET (DOMAIN lines) PROVE Cardinality(T) \in Nat
  BY <1>2, <1>3, FS_Subset, FS_CardinalityType
<1>4. PICK m \in Nat, n \in Nat :
        Event(lines).rows = IF rows + m + n > MaxRows THEN MaxRows ELSE rows + m + n
  <2> DEFINE whole == {i \in DOMAIN lines : lines[i].part # "head"}
             Are(what) == {i \in whole : lines[i].answer.request = what}
             Rows(n) == rows + Cardinality({i \in whole : i <= n})
                             + Cardinality({i \in Are("ping") : i <= n})
             response == IF pending = None THEN {}
                         ELSE {i \in Are(pending) : \A j \in Are(pending) : i <= j}
             failing == {i \in whole :
                           \/ Rows(i - 1) >= MaxRows
                           \/ i \in Are("ping") /\ Rows(i) > MaxRows
                           \/ i \in Are("progress") /\ Token = None
                           \/ i \notin Are("ping") \cup Are("progress") \cup Are("list_changed")
                                        \cup response}
             A == {i \in whole : \A j \in failing : i <= j}
             B == {i \in Are("ping") : \A j \in failing : i <= j}
             needed == rows + Cardinality(A) + Cardinality(B)
  <2>1. Event(lines).rows = IF needed > MaxRows THEN MaxRows ELSE needed
    BY DEF Event
  <2>2. A \in SUBSET (DOMAIN lines) /\ B \in SUBSET (DOMAIN lines)
    OBVIOUS
  <2>3. Cardinality(A) \in Nat /\ Cardinality(B) \in Nat
    BY <1>3, <2>2
  <2> QED BY <2>1, <2>3
<1> QED BY <1>1, <1>4 DEF Full

\* The lines of an event.
LEMMA EventLines ==
  ASSUME SessionTypeOK, NEW n \in 1 .. Len(stdout)
  PROVE  LET lines == buffer \o SubSeq(stdout, 1, n) IN
         /\ lines \in Seq(Line) /\ Len(lines) = Len(buffer) + n /\ Len(lines) > 0
         /\ \A i \in 1 .. Len(lines) :
              IF i <= Len(buffer) THEN lines[i] = buffer[i] /\ i \in 1 .. Len(buffer)
              ELSE /\ lines[i] = stdout[i - Len(buffer)]
                   /\ i - Len(buffer) \in 1 .. n /\ i - Len(buffer) \in 1 .. Len(stdout)
BY DEF SessionTypeOK

LEMMA CallDataQuiet ==
  ASSUME SessionIInv, version = 2, SessionData, pending # "control"
  PROVE  Quiet
<1>0. SessionTypeOK /\ LinesAnswer /\ pending \in Request \cup {None}
  BY DEF SessionIInv, SessionTypeOK
<1>1. PICK n \in 1 .. Len(stdout) : SessionCallData(Event(buffer \o SubSeq(stdout, 1, n)))
  BY DEF SessionData
<1> DEFINE lines == buffer \o SubSeq(stdout, 1, n)
           e == Event(lines)
<1>2. UNCHANGED <<accessVars, queue, active, written, op, answers>>
  BY <1>1 DEF SessionData, SessionCallData
<1>3. ASSUME e.got = "ok" PROVE [request |-> pending, result |-> "ok"] \in answers
  <2>1. PICK i \in DOMAIN lines : /\ lines[i].answer.request = pending
                                  /\ lines[i].answer.result = "ok"
    BY <1>3, EventGot
  <2>2. pending \in Request
    BY <1>0, <1>3, EventGot
  <2>3. lines[i].answer \in answers /\ lines \in Seq(Line) /\ i \in 1 .. Len(lines)
    BY <1>0, <2>1, <2>2, EventLines DEF LinesAnswer
  <2>4. lines[i].answer = [request |-> pending, result |-> "ok"]
    <3>1. lines[i] \in Line
      BY <2>3
    <3> QED BY <2>1, <3>1 DEF Line
  <2> QED BY <2>3, <2>4
<1>4. e.got # "nothing" => pending # None
  BY EventGot
<1> HIDE DEF e
<1>5. SessionCallData(e)
  BY <1>1 DEF e
<1>6. CASE e.got # "nothing" \/ (e.fail /\ pending # None)
  <2>1. Conclude(Resumed(e)) /\ pending \in Request
    BY <1>0, <1>4, <1>5, <1>6 DEF SessionCallData, Conclude
  <2>2. \/ Resumed(e) = "tool_failure"
        \/ Resumed(e) = "completed" /\ e.got = "ok"
    BY DEF Resumed
  <2> QED BY <1>2, <1>3, <2>1, <2>2 DEF Quiet
<1>7. CASE ~(e.got # "nothing" \/ (e.fail /\ pending # None))
  <2>1. UNCHANGED <<phase, verdict>> /\ pending' = pending
    BY <1>5, <1>7 DEF SessionCallData
  <2> QED BY <1>2, <2>1 DEF Quiet
<1> QED BY <1>6, <1>7

\* With a control message awaited nothing is active.
LEMMA ControlIdle ==
  ASSUME SessionIInv, control # "none" \/ pending = "control" \/ Discovering # {}
  PROVE  /\ active = None /\ closing \in {"no", "draining"} /\ version = 2
         /\ \A r \in Request : pending # r /\ phase[r] # "deciding"
<1>1. /\ ControlSound /\ SessionTypeOK /\ OneActive
  BY DEF SessionIInv, InvocationInv
<1>2. control # "none" /\ active = None /\ closing \in {"no", "draining"}
  BY <1>1 DEF ControlSound
<1>3. version = 2
  BY <1>1, <1>2 DEF ControlSound, SessionTypeOK
<1> QED BY <1>1, <1>2, <1>3, MessageNames DEF OneActive

\* A step of the session, as its invocations see it: the tool list is read while the
\* invocation that waits for it has no turn yet.
LEMMA SessionStartMoves ==
  ASSUME SessionIInv, SessionStart
  PROVE  Turn /\ closing' = closing
<1>1. /\ InvocationTypeOK /\ OneActive /\ Queued /\ CloseSound
  BY DEF SessionIInv, InvocationInv
<1>2. Head(queue) \in Request /\ phase[Head(queue)] = "queued" /\ queue # <<>>
  BY <1>1, QueueSteps DEF SessionStart, Queued, InvocationTypeOK
<1>3. /\ active = None /\ active' = None /\ pending' = pending /\ queue' = Tail(queue)
      /\ closing \in {"no", "draining"} /\ closing' = closing /\ Free
      /\ UNCHANGED <<accessVars, written, op, verdict, answers>>
  BY <1>1, <1>2
     DEF SessionStart, NeedsListing, MayStart, AtRest, CloseSound, childVars
<1>4. \A r \in Request : phase[r] # "deciding" /\ pending # r
  BY <1>1, <1>3, MessageNames DEF OneActive
<1>5. \/ phase' = [phase EXCEPT ![Head(queue)] = "threw"]
      \/ phase' = [phase EXCEPT ![Head(queue)] = "discovering"]
  BY DEF SessionStart, NeedsListing
<1>6. phase \in [Request -> Phase \cup {"discovering"}]
  BY <1>1 DEF InvocationTypeOK
<1>7. /\ phase' \in [Request -> Phase \cup {"discovering"}]
      /\ \A r \in Request :
           /\ phase'[r] # phase[r] => r = Head(queue) /\ phase'[r] \in {"discovering", "threw"}
           /\ phase'[r] # "deciding"
  BY <1>4, <1>5, <1>6 DEF Phase
<1> QED BY <1>2, <1>3, <1>4, <1>7, MessageNames DEF Turn

\* Waiting calls throw when the session fails.
LEMMA ThrowsTurn ==
  ASSUME SessionIInv, active = None, closing \in {"no", "draining"}, Free, SessionThrows,
         {pending, pending'} \cap Request = {}, \A r \in Request : phase[r] # "deciding",
         UNCHANGED <<accessVars, queue, active, written, op, verdict, answers>>
  PROVE  Turn /\ Closes
<1>1. phase \in [Request -> Phase \cup {"discovering"}]
  BY DEF SessionIInv, InvocationInv, InvocationTypeOK
<1>2. /\ phase' \in [Request -> Phase \cup {"discovering"}]
      /\ \A r \in Request :
           /\ phase'[r] # phase[r] => phase[r] = "discovering" /\ phase'[r] = "threw"
           /\ phase'[r] # "deciding"
  BY <1>1 DEF SessionThrows, Discovering, Phase
<1>3. Turn
  BY <1>2, MessageNames DEF Turn
<1>4. closing' = closing \/ (closing = "no" /\ closing' = "draining")
  BY DEF SessionThrows
<1> QED BY <1>3, <1>4 DEF Closes

LEMMA ControlSteps ==
  ASSUME SessionIInv,
         \/ ControlRefused \/ ControlLost
         \/ SessionData /\ pending = "control"
  PROVE  Move
<1>1. /\ active = None /\ closing \in {"no", "draining"} /\ Free
      /\ \A r \in Request : pending # r /\ phase[r] # "deciding"
  BY ControlIdle DEF ControlRefused, ControlLost, SessionData, AtRest
<1>2. CASE ControlRefused \/ ControlLost
  <2>1. /\ SessionThrows /\ pending' \in {pending, None}
        /\ UNCHANGED <<accessVars, queue, active, written, op, verdict, answers>>
    BY <1>2 DEF ControlRefused, ControlLost
  <2> QED BY <1>1, <2>1, ThrowsTurn, MessageNames DEF Move
<1>3. CASE SessionData /\ pending = "control"
  <2>1. PICK n \in 1 .. Len(stdout) : SessionControlData(Event(buffer \o SubSeq(stdout, 1, n)))
    BY <1>3 DEF SessionData
  <2> DEFINE e == Event(buffer \o SubSeq(stdout, 1, n))
  <2>2. UNCHANGED <<accessVars, queue, written, op, verdict, answers>>
    BY <1>3, <2>1 DEF SessionData, SessionControlData
  <2> HIDE DEF e
  <2>3. SessionControlData(e)
    BY <2>1 DEF e
  <2>4. pending' \in {pending, None}
    BY <2>3 DEF SessionControlData
  <2>5. CASE SessionThrows /\ UNCHANGED active
    BY <1>1, <2>2, <2>4, <2>5, ThrowsTurn, MessageNames DEF Move
  <2>6. CASE closing' = closing /\ UNCHANGED <<phase, active>>
    <3>1. Turn
      BY <1>1, <2>2, <2>4, <2>6, MessageNames
         DEF Turn, SessionIInv, InvocationInv, InvocationTypeOK
    <3> QED BY <2>6, <3>1 DEF Move, Closes
  <2>7. CASE \E r \in Discovering : /\ phase' = [phase EXCEPT ![r] = "deciding"]
                                    /\ active' = r
                                    /\ closing' = closing
    <3>1. PICK r \in Discovering : /\ phase' = [phase EXCEPT ![r] = "deciding"]
                                   /\ active' = r /\ closing' = closing
      BY <2>7
    <3>2. phase \in [Request -> Phase \cup {"discovering"}] /\ r \in Request
          /\ phase[r] = "discovering"
      BY <3>1 DEF SessionIInv, InvocationInv, InvocationTypeOK, Discovering
    <3>3. Turn
      <4>1. phase' \in [Request -> Phase \cup {"discovering"}]
        BY <3>1, <3>2 DEF Phase
      <4>2. \A q \in Request :
              /\ phase'[q] # phase[q] => q = r /\ phase'[q] = "deciding"
              /\ phase'[q] = "deciding" <=> active' = q
        BY <1>1, <3>1, <3>2
      <4> QED BY <1>1, <2>2, <2>4, <3>1, <3>2, <4>1, <4>2, MessageNames DEF Turn
    <3> QED BY <3>1, <3>3 DEF Move, Closes
  <2> QED BY <2>3, <2>5, <2>6, <2>7 DEF SessionControlData
<1> QED BY <1>2, <1>3

LEMMA SessionMoves ==
  ASSUME SessionIInv, [SessionNext]_svars
  PROVE  Move
<1>0. /\ CloseSound /\ InvocationInv /\ LinesAnswer /\ ControlSound
      /\ pending \in Request \cup {None, "control"} /\ stdout \in Seq(Line) /\ buffer \in Seq(Line)
      /\ version \in {1, 2}
  BY DEF SessionIInv, InvocationInv, SessionTypeOK
<1>1. ASSUME pending # "control", GiveUp \/ ExitEvent \/ StdinError \/ Interrupt PROVE Move
  <2>1. closing' = closing
    BY <1>1 DEF GiveUp, ExitEvent, StdinError, Interrupt
  <2> QED BY <1>0, <1>1, <2>1, RejectQuiet DEF Move, Closes
<1>2. ASSUME version = 1, Data PROVE Move
  <2>1. closing' = closing
    BY <1>2 DEF Data
  <2>2. pending # "control"
    BY <1>0, <1>2 DEF ControlSound
  <2> QED BY <1>0, <1>2, <2>1, <2>2, DataQuiet DEF Move, Closes
<1>3. ASSUME Drained \/ Terminated \/ CloseThrows \/ Closed \/ Close PROVE Move
  BY <1>0, <1>3, QuietSteps, ClosingSteps DEF Move
<1>4. ASSUME ChildAnswers \/ ChildIgnores \/ ChildExits \/ UNCHANGED vars PROVE Move
  <2>1. closing' = closing
    BY <1>4 DEF ChildAnswers, ChildIgnores, ChildExits, vars, proxyVars
  <2> QED BY <1>4, <2>1, QuietSteps DEF Move, Closes
<1>5. ASSUME Start PROVE Move
  BY <1>0, <1>5, StartTurns DEF Move, Closes, Start
<1>6. ASSUME \/ Refuse \/ (\E decision \in {"allowed", "blocked"} : Decide(decision))
             \/ NotPersisted \/ Dispatch \/ NotDispatched \/ Settle \/ SettleBlocked
             \/ SettleThrows \/ Finish
             \/ \E r \in Request : Invoke(r)
             \/ AccessStep /\ UNCHANGED <<proxyVars, childVars, sessionVars>>
      PROVE  Move
  <2>1. closing' = closing
    BY <1>6 DEF Refuse, Decide, NotPersisted, Dispatch, NotDispatched, Settle, SettleBlocked,
       SettleThrows, Finish, Invoke, proxyVars
  <2> QED BY <1>6, <2>1 DEF Move, Closes
<1>7. ASSUME FinalizeAccess PROVE Move
  BY <1>7 DEF Move, Closes
<1>8. ASSUME ChildControls \/ ChildUpgrades \/ ChildNotifies PROVE Move
  <2>1. Quiet /\ closing' = closing
    BY <1>8 DEF ChildControls, ChildUpgrades, ChildNotifies, Quiet, vars, proxyVars, childVars
  <2> QED BY <2>1 DEF Move, Closes
<1>9. ASSUME SessionStart PROVE Move
  BY <1>9, SessionStartMoves DEF Move, Closes
<1>10. ASSUME ControlSend PROVE Move
  <2>1. Quiet /\ closing' = closing
    <3>1. \A r \in Request : pending # r
      BY <1>10, ControlIdle DEF ControlSend
    <3> QED BY <1>10, <3>1, MessageNames DEF ControlSend, Quiet
  <2> QED BY <2>1 DEF Move, Closes
<1>11. ASSUME SessionData, pending # "control" PROVE Move
  <2>1. closing' = closing
    BY <1>11 DEF SessionData, SessionCallData
  <2> QED BY <1>11, <2>1, CallDataQuiet DEF Move, Closes, SessionData
<1>12. ASSUME SessionClosed PROVE Move
  <2>1. CASE Closed
    BY <1>3, <2>1
  <2>2. CASE ~Closed
    <3>1. Quiet /\ life[Owner] = "done" /\ closing = "finalizing" /\ closing' = "failed"
      BY <1>12, <2>2 DEF SessionClosed, Quiet, childVars
    <3>2. queue = <<>> /\ active = None
      BY <1>0, <3>1 DEF CloseSound
    <3> QED BY <3>1, <3>2 DEF Move, Closes
  <2> QED BY <2>1, <2>2
<1>13. ASSUME ControlRefused \/ ControlLost \/ (SessionData /\ pending = "control") PROVE Move
  BY <1>13, ControlSteps
<1>14. ASSUME CommonStep PROVE Move
  BY <1>1, <1>2, <1>3, <1>5, <1>6, <1>7, <1>14 DEF CommonStep
<1>15. ASSUME CommonCall \/ SessionInterrupt PROVE Move
  BY <1>1, <1>3, <1>6, <1>15 DEF CommonCall, SessionInterrupt
<1>16. ASSUME SessionStep PROVE Move
  BY <1>6, <1>9, <1>10, <1>11, <1>12, <1>13, <1>14, <1>16 DEF SessionStep, SessionDispatch
<1> QED
  BY <1>4, <1>6, <1>8, <1>15, <1>16 DEF SessionNext, ChildReplies, svars

\* The steps that have a part in the control messages, and the others, which leave what
\* those are about alone.
ControlStep == SessionStart \/ ControlSend \/ ControlRefused \/ ControlLost \/ SessionData

LEMMA OtherCases ==
  ASSUME [SessionNext]_svars, ~ControlStep, NEW ACTION P,
         ASSUME version = 1, Start, UNCHANGED sessionVars PROVE P,
         ASSUME version = 1, Data, UNCHANGED sessionVars PROVE P,
         ASSUME \/ Refuse \/ (\E decision \in {"allowed", "blocked"} : Decide(decision))
                \/ NotPersisted \/ NotDispatched \/ Settle \/ SettleBlocked
                \/ SettleThrows \/ Finish \/ FinalizeAccess,
                UNCHANGED sessionVars
         PROVE  P,
         ASSUME SessionDispatch PROVE P,
         ASSUME pending # "control", GiveUp \/ ExitEvent \/ StdinError, UNCHANGED sessionVars
         PROVE  P,
         ASSUME SessionInterrupt PROVE P,
         ASSUME control = "none", Drained, UNCHANGED sessionVars PROVE P,
         ASSUME Terminated \/ CloseThrows, UNCHANGED sessionVars PROVE P,
         ASSUME SessionClosed PROVE P,
         ASSUME Started, Close, UNCHANGED sessionVars PROVE P,
         ASSUME Started, NEW r \in Request, Invoke(r), UNCHANGED sessionVars PROVE P,
         ASSUME ChildReplies \/ ChildIgnores \/ ChildExits, UNCHANGED sessionVars PROVE P,
         ASSUME ChildControls PROVE P,
         ASSUME ChildUpgrades \/ ChildNotifies PROVE P,
         ASSUME AccessStep, UNCHANGED <<proxyVars, childVars, sessionVars>> PROVE P,
         ASSUME UNCHANGED svars PROVE P
  PROVE  P
BY DEF SessionNext, SessionStep, CommonStep, CommonCall, ControlStep

LEMMA OtherEffect ==
  ASSUME SessionIInv, [SessionNext]_svars, ~ControlStep
  PROVE  /\ UNCHANGED <<version, stage, control>> /\ vouched \subseteq vouched'
         /\ failed => failed'
         /\ pending' = "control" <=> pending = "control"
         /\ Discovering' = Discovering
         /\ rows' \in Nat /\ (Full => Full')
<1> DEFINE Kept == /\ UNCHANGED <<version, stage, control>> /\ vouched \subseteq vouched'
                   /\ failed => failed'
                   /\ pending' = "control" <=> pending = "control"
                   /\ Discovering' = Discovering
                   /\ rows' \in Nat /\ (Full => Full')
<1>0. /\ phase \in [Request -> Phase \cup {"discovering"}] /\ pending \in Request \cup {None, "control"}
      /\ queue \in Seq(Request) /\ active \in Request \cup {None} /\ rows \in Nat
      /\ OneActive /\ Queued /\ MaxRows \in Nat
  BY SessionAssumption DEF SessionIInv, InvocationInv, InvocationTypeOK, SessionTypeOK
<1>1. ASSUME UNCHANGED sessionVars, failed' = failed \/ failed' = TRUE,
             pending' = "control" <=> pending = "control",
             \A r \in Request : phase'[r] = "discovering" <=> phase[r] = "discovering"
      PROVE  Kept
  BY <1>0, <1>1 DEF sessionVars, Discovering, Full
<1>2. ASSUME version = 1, Start, UNCHANGED sessionVars PROVE Kept
  <2>1. queue # <<>> /\ Head(queue) \in Request /\ phase[Head(queue)] = "queued"
    BY <1>0, <1>2, QueueSteps DEF Start, Queued
  <2> QED BY <1>0, <1>1, <1>2, <2>1 DEF Start
<1>3. ASSUME Conclude("completed") \/ Conclude("tool_failure"), pending # "control",
             pending # None
      PROVE  /\ pending' # "control"
             /\ \A r \in Request : phase'[r] = "discovering" <=> phase[r] = "discovering"
  <2>1. pending \in Request /\ phase[pending] = "waiting" /\ pending' = None
    BY <1>0, <1>3 DEF OneActive, Conclude
  <2> QED BY <1>0, <1>3, <2>1, MessageNames DEF Conclude
<1>4. ASSUME version = 1, Data, UNCHANGED sessionVars PROVE Kept
  <2>1. failed' = failed
    BY <1>4 DEF Data
  <2>2. pending # "control"
    BY <1>4 DEF SessionIInv, ControlSound
  <2>3. UNCHANGED <<pending, phase>>
        \/ (pending # None /\ (Conclude("completed") \/ Conclude("tool_failure")))
    BY <1>4 DEF Data, Meaning
  <2> QED BY <1>1, <1>3, <1>4, <2>1, <2>2, <2>3
<1>5. ASSUME \/ Refuse \/ (\E decision \in {"allowed", "blocked"} : Decide(decision))
             \/ NotPersisted \/ NotDispatched \/ Settle \/ SettleBlocked
             \/ SettleThrows \/ Finish \/ FinalizeAccess,
             UNCHANGED sessionVars
      PROVE  Kept
  <2>1. UNCHANGED <<failed, pending>>
    BY <1>5 DEF Refuse, Decide, NotPersisted, NotDispatched, Settle, SettleBlocked,
       SettleThrows, Finish, FinalizeAccess
  <2>2. \/ phase' = phase
        \/ /\ active \in Request /\ phase[active] # "discovering"
           /\ \E how \in Phase : phase' = [phase EXCEPT ![active] = how]
    BY <1>0, <1>5 DEF Refuse, Decide, NotPersisted, NotDispatched, Settle, SettleBlocked,
       SettleThrows, Finish, FinalizeAccess, Leave, Phase
  <2>3. "discovering" \notin Phase
    BY DEF Phase
  <2> QED BY <1>0, <1>1, <1>5, <2>1, <2>2, <2>3
<1>6. ASSUME SessionDispatch PROVE Kept
  <2>1. /\ active \in Request /\ phase[active] = "authorizing" /\ pending = None
        /\ pending' = active /\ phase' = [phase EXCEPT ![active] = "waiting"] /\ failed' = failed
        /\ UNCHANGED <<version, stage, control, vouched>> /\ rows' \in {rows, rows + 1}
    BY <1>0, <1>6 DEF SessionDispatch, Dispatch
  <2>2. Discovering' = Discovering
    BY <1>0, <2>1 DEF Discovering
  <2> QED BY <1>0, <2>1, <2>2, MessageNames DEF Full
<1>7. ASSUME pending # "control", GiveUp \/ ExitEvent \/ StdinError \/ Interrupt
      PROVE  /\ failed' = failed \/ failed' = TRUE
             /\ pending' # "control"
             /\ Discovering' = Discovering
  <2>1. failed' = failed \/ failed' = TRUE
    BY <1>7 DEF GiveUp, ExitEvent, StdinError, Interrupt
  <2>2. UNCHANGED <<pending, phase>> \/ (pending # None /\ Conclude("tool_failure"))
    BY <1>7 DEF GiveUp, TimerArmed, ExitEvent, StdinError, Interrupt, RejectPending
  <2> QED BY <1>3, <1>7, <2>1, <2>2 DEF Discovering
<1>8. ASSUME pending # "control", GiveUp \/ ExitEvent \/ StdinError, UNCHANGED sessionVars
      PROVE  Kept
  <2>1. /\ failed' = failed \/ failed' = TRUE
        /\ pending' # "control" /\ Discovering' = Discovering
    BY <1>7, <1>8
  <2>2. UNCHANGED <<version, stage, control, rows, vouched>>
    BY <1>8 DEF sessionVars
  <2>3. failed => failed'
    BY <2>1
  <2> QED BY <1>0, <1>8, <2>1, <2>2, <2>3 DEF Full
<1>9. ASSUME SessionInterrupt PROVE Kept
  <2>1. UNCHANGED <<version, stage, control, vouched>> /\ rows' \in {rows, rows + 1}
        /\ pending # "control" /\ Interrupt
    BY <1>9 DEF SessionInterrupt
  <2>2. /\ failed' = failed \/ failed' = TRUE
        /\ pending' # "control" /\ Discovering' = Discovering
    BY <1>7, <2>1
  <2>3. failed => failed'
    BY <2>2
  <2>4. rows' \in Nat /\ (Full => Full')
    BY <1>0, <2>1 DEF Full
  <2> QED BY <2>1, <2>2, <2>3, <2>4
<1>10. ASSUME Drained \/ Terminated \/ CloseThrows \/ Close, UNCHANGED sessionVars PROVE Kept
  BY <1>1, <1>10 DEF Drained, Terminated, CloseThrows, Close
<1>11. ASSUME SessionClosed PROVE Kept
  BY <1>0, <1>11 DEF SessionClosed, Closed, Full, Discovering
<1>12. ASSUME NEW r \in Request, Invoke(r), UNCHANGED sessionVars PROVE Kept
  BY <1>0, <1>1, <1>12 DEF Invoke
<1>13. ASSUME ChildReplies \/ ChildIgnores \/ ChildExits, UNCHANGED sessionVars PROVE Kept
  BY <1>1, <1>13 DEF ChildReplies, ChildAnswers, ChildIgnores, ChildExits, proxyVars
<1>14. ASSUME ChildControls PROVE Kept
  BY <1>0, <1>14 DEF ChildControls, proxyVars, Discovering, Full
<1>15. ASSUME ChildUpgrades \/ ChildNotifies PROVE Kept
  BY <1>0, <1>15 DEF ChildUpgrades, ChildNotifies, vars, proxyVars, Discovering, Full
<1>16. ASSUME UNCHANGED <<proxyVars, sessionVars>> PROVE Kept
  BY <1>1, <1>16 DEF proxyVars
<1> QED
  BY <1>2, <1>4, <1>5, <1>6, <1>8, <1>9, <1>10, <1>11, <1>12, <1>13, <1>14, <1>15, <1>16,
     OtherCases
     DEF svars, vars
\* Nothing becomes active, accepted or closed beside a control message.
LEMMA OtherWaits ==
  ASSUME SessionIInv, [SessionNext]_svars, ~ControlStep
  PROVE  /\ control # "none" \/ ~Started => active' = None
         /\ ~Started => queue' = <<>> /\ (closing' # "no" => closing # "no" \/ control = "none")
         /\ control # "none" => closing' \in {"no", "draining"}
<1> DEFINE Waits ==
      /\ control # "none" \/ ~Started => active' = None
      /\ ~Started => queue' = <<>> /\ (closing' # "no" => closing # "no" \/ control = "none")
      /\ control # "none" => closing' \in {"no", "draining"}
<1>0. /\ control # "none" \/ ~Started => active = None
      /\ ~Started => queue = <<>>
      /\ control # "none" => closing \in {"no", "draining"} /\ version = 2
      /\ version = 1 => Started
  BY DEF SessionIInv, ControlSound, SessionTypeOK, Started
<1>1. ASSUME active' \in {active, None}, ~Started => queue' = queue,
             \/ closing' = closing
             \/ Started /\ closing' = "draining"
             \/ control = "none" /\ closing # "no"
      PROVE  Waits
  BY <1>0, <1>1
<1>2. ASSUME version = 1, Start PROVE Waits
  BY <1>0, <1>2
<1>3. ASSUME \/ Refuse \/ (\E decision \in {"allowed", "blocked"} : Decide(decision))
             \/ NotPersisted \/ NotDispatched \/ Settle \/ SettleBlocked
             \/ SettleThrows \/ Finish
      PROVE  Waits
  BY <1>1, <1>3 DEF Refuse, Decide, NotPersisted, NotDispatched, Settle, SettleBlocked,
     SettleThrows, Finish, Leave
<1>4. ASSUME \/ Data \/ SessionDispatch \/ GiveUp \/ ExitEvent \/ StdinError
             \/ SessionInterrupt
      PROVE  Waits
  BY <1>1, <1>4 DEF Data, SessionDispatch, Dispatch, GiveUp, ExitEvent, StdinError,
     SessionInterrupt, Interrupt
<1>5. ASSUME FinalizeAccess \/ (control = "none" /\ Drained) \/ Terminated \/ CloseThrows PROVE Waits
  <2>1. closing # "no" /\ control = "none"
    BY <1>0, <1>5 DEF FinalizeAccess, Drained, Terminated, CloseThrows
  <2> QED BY <1>1, <1>5, <2>1 DEF FinalizeAccess, Drained, Terminated, CloseThrows
<1>6. ASSUME SessionClosed PROVE Waits
  <2>1. closing = "finalizing" /\ control = "none" /\ UNCHANGED <<active, queue>>
    BY <1>0, <1>6 DEF SessionClosed, Closed
  <2> QED BY <1>1, <2>1
<1>7. ASSUME Started, Close \/ \E r \in Request : Invoke(r) PROVE Waits
  BY <1>1, <1>7 DEF Close, Invoke
<1>8. ASSUME ChildReplies \/ ChildIgnores \/ ChildExits \/ ChildControls \/ ChildUpgrades \/ ChildNotifies
      PROVE  Waits
  BY <1>1, <1>8 DEF ChildReplies, ChildAnswers, ChildIgnores, ChildExits, ChildControls,
     ChildUpgrades, ChildNotifies, vars, proxyVars
<1>9. ASSUME UNCHANGED proxyVars PROVE Waits
  BY <1>1, <1>9 DEF proxyVars
<1> QED
  BY <1>2, <1>3, <1>4, <1>5, <1>6, <1>7, <1>8, <1>9, OtherCases DEF svars, vars

\* What the lines an event takes can be, and what the proxy makes of a response.
LEMMA ControlDataCases ==
  ASSUME SessionData, pending = "control"
  PROVE  \E n \in 1 .. Len(stdout) :
           LET lines == buffer \o SubSeq(stdout, 1, n)
               e == Event(lines)
           IN  /\ stdout' = SubSeq(stdout, n + 1, Len(stdout))
               /\ buffer' \in {<<>>, <<lines[Len(lines)]>>}
               /\ buffer' # <<>> => lines[Len(lines)].part = "head"
               /\ rows' \in {e.rows, e.rows + 1}
               /\ \/ UNCHANGED <<pending, phase, failed, active, closing, stage, control>>
                  \/ pending' = None /\ SessionThrows /\ UNCHANGED <<active, stage>>
                  \/ /\ pending' = None /\ ~failed /\ e.got = "ok"
                     /\ UNCHANGED <<failed, closing>>
                     /\ \/ /\ stage = "initializing" /\ stage' = "listing"
                           /\ control' = "checking" /\ UNCHANGED <<phase, active>>
                        \/ /\ stage # "initializing" /\ control' = "checking"
                           /\ UNCHANGED <<phase, active, stage>>
                        \/ /\ stage # "initializing"
                           /\ stage' = "ready" /\ control' = "none"
                           /\ IF Discovering = {} THEN UNCHANGED <<phase, active>>
                              ELSE \E r \in Discovering :
                                     /\ phase' = [phase EXCEPT ![r] = "deciding"]
                                     /\ active' = r
<1>1. PICK n \in 1 .. Len(stdout) :
        LET lines == buffer \o SubSeq(stdout, 1, n)
            e == Event(lines)
        IN  /\ stdout' = SubSeq(stdout, n + 1, Len(stdout))
            /\ buffer' = IF e.fail \/ lines[Len(lines)].part # "head" THEN <<>>
                         ELSE <<lines[Len(lines)]>>
            /\ SessionControlData(e)
  BY DEF SessionData
<1> DEFINE lines == buffer \o SubSeq(stdout, 1, n)
           e == Event(lines)
<1>2. /\ stdout' = SubSeq(stdout, n + 1, Len(stdout))
      /\ buffer' = IF e.fail \/ lines[Len(lines)].part # "head" THEN <<>>
                   ELSE <<lines[Len(lines)]>>
      /\ SessionControlData(e)
  BY <1>1
<1> HIDE DEF lines, e
<1>3. buffer' \in {<<>>, <<lines[Len(lines)]>>} /\ (buffer' # <<>> => lines[Len(lines)].part = "head")
  BY <1>2
<1>4. rows' \in {e.rows, e.rows + 1}
  BY <1>2 DEF SessionControlData
<1>5. \/ UNCHANGED <<pending, phase, failed, active, closing, stage, control>>
      \/ pending' = None /\ SessionThrows /\ UNCHANGED <<active, stage>>
      \/ /\ pending' = None /\ ~failed /\ e.got = "ok"
         /\ UNCHANGED <<failed, closing>>
         /\ \/ /\ stage = "initializing" /\ stage' = "listing"
               /\ control' = "checking" /\ UNCHANGED <<phase, active>>
            \/ /\ stage # "initializing" /\ control' = "checking"
               /\ UNCHANGED <<phase, active, stage>>
            \/ /\ stage # "initializing"
               /\ stage' = "ready" /\ control' = "none"
               /\ IF Discovering = {} THEN UNCHANGED <<phase, active>>
                  ELSE \E r \in Discovering :
                         /\ phase' = [phase EXCEPT ![r] = "deciding"]
                         /\ active' = r
  BY <1>2 DEF SessionControlData, List
<1> QED BY <1>2, <1>3, <1>4, <1>5 DEF lines, e

LEMMA ThrowsDiscover ==
  ASSUME phase \in [Request -> Phase \cup {"discovering"}], SessionThrows
  PROVE  Discovering' = {}
BY DEF SessionThrows, Discovering

\* While a control message is awaited nothing else is.
LEMMA ControlSoundStep ==
  ASSUME SessionIInv, [SessionNext]_svars
  PROVE  ControlSound'
<1>0. /\ ControlSound /\ CloseSound /\ phase \in [Request -> Phase \cup {"discovering"}]
      /\ queue \in Seq(Request) /\ version \in {1, 2} /\ Queued /\ None # "control"
  BY MessageNames
     DEF SessionIInv, InvocationInv, InvocationTypeOK, SessionTypeOK
<1>1. ASSUME ~ControlStep PROVE ControlSound'
  <2>1. Started' = Started
    BY <1>1, OtherEffect DEF Started
  <2> QED BY <1>0, <1>1, <2>1, OtherEffect, OtherWaits DEF ControlSound
<1>2. ASSUME SessionStart PROVE ControlSound'
  <2>1. Started /\ control = "none" /\ closing \in {"no", "draining"} /\ version = 2
        /\ Discovering = {} /\ active = None /\ pending # "control"
    BY <1>0, <1>2 DEF SessionStart, ControlSound, CloseSound, MayStart
  <2>2. UNCHANGED <<version, stage, pending, closing, active>>
    BY <1>2, <2>1 DEF SessionStart, NeedsListing
  <2>3. \/ control' = "none" /\ phase' = [phase EXCEPT ![Head(queue)] = "threw"]
        \/ control' = "checking" /\ phase' = [phase EXCEPT ![Head(queue)] = "discovering"]
    BY <1>2, <2>1 DEF SessionStart, NeedsListing, List
  <2>4. Head(queue) \in Request
    BY <1>0, <1>2, QueueSteps DEF SessionStart
  <2>5. IF control' = "none" THEN Discovering' = {} ELSE Discovering' = {Head(queue)}
    BY <1>0, <2>1, <2>3, <2>4 DEF Discovering
  <2>6. Started' /\ (control' = "none" \/ control' = "checking")
    BY <2>1, <2>2, <2>3 DEF Started
  <2>7. Discovering' = {} <=> control' = "none"
    BY <2>3, <2>5
  <2>8. \A q, r \in Discovering' : q = r
    BY <2>3, <2>5
  <2>9. /\ version' = 1 <=> stage' = "off"
        /\ version' = 1 => control' = "none"
        /\ pending' = "control" <=> control' = "sent"
        /\ control' # "none" => active' = None /\ closing' \in {"no", "draining"}
    BY <1>0, <2>1, <2>2, <2>6 DEF ControlSound
  <2> QED BY <2>6, <2>7, <2>8, <2>9 DEF ControlSound
<1>3. ASSUME ControlSend PROVE ControlSound'
  BY <1>0, <1>3 DEF ControlSend, ControlSound, Started, Discovering
<1>4. ASSUME SessionThrows, UNCHANGED <<version, stage, queue, active>>,
             pending' # "control", control # "none"
      PROVE  ControlSound'
  <2>1. Discovering' = {} /\ control' = "none" /\ (closing' = closing \/ closing' = "draining")
    BY <1>0, <1>4, ThrowsDiscover DEF SessionThrows
  <2> QED BY <1>0, <1>4, <2>1 DEF ControlSound, Started
<1>5. ASSUME ControlRefused \/ ControlLost PROVE ControlSound'
  <2>1. pending' # "control" /\ control # "none"
    BY <1>0, <1>5 DEF ControlRefused, ControlLost, ControlSound
  <2> QED BY <1>4, <1>5, <2>1 DEF ControlRefused, ControlLost
<1>6. ASSUME SessionData, pending # "control" PROVE ControlSound'
  <2>1. UNCHANGED <<version, stage, control, queue, active, closing>> /\ pending' \in {pending, None}
    BY <1>6 DEF SessionData, SessionCallData
  <2>2. Discovering' = Discovering
    <3>1. phase' = phase \/ (pending # None /\ phase' = [phase EXCEPT ![pending] = "settling"])
      BY <1>6, EventGot DEF SessionData, SessionCallData
    <3>2. pending # None => pending \in Request /\ phase[pending] = "waiting"
      BY <1>6 DEF SessionIInv, SessionTypeOK, InvocationInv, OneActive
    <3> QED BY <1>0, <3>1, <3>2 DEF Discovering
  <2> QED BY <1>0, <1>6, <2>1, <2>2 DEF ControlSound, Started
<1>7. ASSUME SessionData, pending = "control" PROVE ControlSound'
  <2>1. /\ UNCHANGED <<version, queue>> /\ version = 2 /\ active = None /\ control = "sent"
        /\ closing \in {"no", "draining"} /\ stage # "off"
    BY <1>0, <1>7, ControlIdle DEF SessionData, ControlSound
  <2>2. CASE UNCHANGED <<pending, phase, failed, active, closing, stage, control>>
    BY <1>0, <2>1, <2>2 DEF ControlSound, Started, Discovering
  <2>3. CASE pending' = None /\ SessionThrows /\ UNCHANGED <<active, stage>>
    BY <1>0, <1>4, <2>1, <2>3
  <2>4. CASE /\ pending' = None /\ closing' = closing /\ control' = "checking"
             /\ UNCHANGED <<phase, active>>
             /\ \/ stage = "initializing" /\ stage' = "listing"
                \/ stage' = stage
    BY <1>0, <2>1, <2>4 DEF ControlSound, Started, Discovering
  <2>5. CASE /\ pending' = None /\ closing' = closing /\ stage' = "ready" /\ control' = "none"
             /\ IF Discovering = {} THEN UNCHANGED <<phase, active>>
                ELSE \E r \in Discovering :
                       /\ phase' = [phase EXCEPT ![r] = "deciding"]
                       /\ active' = r
    <3>1. Discovering' = {}
      BY <1>0, <2>5 DEF ControlSound, Discovering
    <3> QED BY <1>0, <2>1, <2>5, <3>1 DEF ControlSound, Started
  <2> QED BY <1>7, <2>2, <2>3, <2>4, <2>5, ControlDataCases
<1> QED BY <1>1, <1>2, <1>3, <1>5, <1>6, <1>7 DEF ControlStep

-----------------------------------------------------------------------------
(* The lines between the proxy and the child *)

\* What is left of the output, and the lines an event takes, by index.
LEMMA Remainder ==
  ASSUME NEW S, NEW s \in Seq(S), NEW b \in Seq(S), NEW n \in 1 .. Len(s)
  PROVE  LET rest == SubSeq(s, n + 1, Len(s))
             lines == b \o SubSeq(s, 1, n)
         IN  /\ rest \in Seq(S)
             /\ \A i \in 1 .. Len(rest) : i + n \in 1 .. Len(s) /\ rest[i] = s[i + n]
             /\ lines \in Seq(S) /\ Len(lines) \in 1 .. Len(lines)
             /\ \A i \in 1 .. Len(lines) :
                  \/ i \in 1 .. Len(b) /\ lines[i] = b[i]
                  \/ i - Len(b) \in 1 .. n /\ i - Len(b) \in 1 .. Len(s) /\ lines[i] = s[i - Len(b)]
OBVIOUS

\* Each step takes lines from one end of a stream or adds them to the other.
LEMMA StreamCases ==
  ASSUME SessionIInv, [SessionNext]_svars
  PROVE  \/ UNCHANGED <<stdin, stdout, buffer, answers>>
         \/ /\ UNCHANGED <<stdout, buffer, answers>>
            /\ \E x \in Request : stdin' = Append(stdin, x)
         \/ (version = 1 /\ Data) \/ ControlSend \/ SessionData
         \/ ChildReplies \/ ChildIgnores \/ ChildControls \/ ChildNotifies
<1>1. ASSUME SessionDispatch PROVE active \in Request /\ UNCHANGED <<stdout, buffer, answers>>
                                   /\ stdin' \in {stdin, Append(stdin, active)}
  BY <1>1 DEF SessionDispatch, Dispatch, SessionIInv, InvocationInv, InvocationTypeOK
<1>3. ASSUME \/ Start \/ Refuse \/ (\E decision \in {"allowed", "blocked"} : Decide(decision))
             \/ NotPersisted \/ NotDispatched \/ Settle \/ SettleBlocked
             \/ SettleThrows \/ Finish \/ FinalizeAccess
             \/ GiveUp \/ ExitEvent \/ StdinError \/ Interrupt \/ Drained \/ Terminated \/ CloseThrows
             \/ Closed \/ Close \/ \E r \in Request : Invoke(r)
      PROVE  UNCHANGED <<stdin, stdout, buffer, answers>>
  BY <1>3 DEF childVars, Start, Refuse, Decide, NotPersisted, NotDispatched, Settle,
       SettleBlocked, SettleThrows, Finish, FinalizeAccess, GiveUp, ExitEvent, StdinError,
       Interrupt, Drained, Terminated, CloseThrows, Closed, Close, Invoke
<1>4. ASSUME SessionClosed \/ SessionInterrupt PROVE UNCHANGED <<stdin, stdout, buffer, answers>>
  BY <1>3, <1>4 DEF SessionClosed, SessionInterrupt, childVars
<1>5. ASSUME \/ ChildExits \/ ChildUpgrades \/ UNCHANGED svars \/ UNCHANGED <<proxyVars, childVars>>
             \/ SessionStart \/ ControlRefused \/ ControlLost
      PROVE  UNCHANGED <<stdin, stdout, buffer, answers>>
  BY <1>5 DEF ChildExits, ChildUpgrades, svars, vars, proxyVars, childVars, SessionStart,
     ControlRefused, ControlLost
<1> QED
  BY <1>1, <1>3, <1>4, <1>5, OtherCases DEF ControlStep

\* What the child printed of a call and the proxy still holds the child gave as its answer.
LEMMA StreamStep ==
  ASSUME SessionIInv, [SessionNext]_svars
  PROVE  /\ LinesAnswer'
         /\ stdin' \in Seq(Request \cup {"control"})
         /\ stdout' \in Seq(Line) /\ buffer' \in Seq(Line)
<1>0. /\ stdout \in Seq(Line) /\ buffer \in Seq(Line) /\ LinesAnswer
      /\ stdin \in Seq(Request \cup {"control"}) /\ <<>> \in Seq(Line)
  BY DEF SessionIInv, SessionTypeOK
<1>00. /\ \A i \in 1 .. Len(stdout) :
            stdout[i].answer.request \in Request => stdout[i].answer \in answers
       /\ \A i \in 1 .. Len(buffer) :
            buffer[i].answer.request \in Request => buffer[i].answer \in answers
  BY <1>0 DEF LinesAnswer
<1> DEFINE Goal == /\ LinesAnswer'
                   /\ stdin' \in Seq(Request \cup {"control"})
                   /\ stdout' \in Seq(Line) /\ buffer' \in Seq(Line)
<1>1. ASSUME UNCHANGED <<stdout, buffer, answers>>, stdin' \in Seq(Request \cup {"control"})
      PROVE  Goal
  BY <1>0, <1>1 DEF LinesAnswer
<1>2. ASSUME Data \/ SessionData PROVE Goal
  <2>1. PICK n \in 1 .. Len(stdout) :
          LET lines == buffer \o SubSeq(stdout, 1, n)
          IN  /\ stdout' = SubSeq(stdout, n + 1, Len(stdout))
              /\ buffer' \in {buffer, <<>>, lines, <<lines[Len(lines)]>>}
    BY <1>2 DEF Data, SessionData
  <2>2. UNCHANGED <<answers, stdin>>
    BY <1>2 DEF Data, SessionData
  <2> DEFINE rest == SubSeq(stdout, n + 1, Len(stdout))
             lines == buffer \o SubSeq(stdout, 1, n)
  <2>3. /\ rest \in Seq(Line)
        /\ \A i \in 1 .. Len(rest) : i + n \in 1 .. Len(stdout) /\ rest[i] = stdout[i + n]
        /\ lines \in Seq(Line) /\ Len(lines) \in 1 .. Len(lines)
        /\ \A i \in 1 .. Len(lines) :
             \/ i \in 1 .. Len(buffer) /\ lines[i] = buffer[i]
             \/ i - Len(buffer) \in 1 .. Len(stdout) /\ lines[i] = stdout[i - Len(buffer)]
    BY <1>0, Remainder
  <2>4. stdout' = rest /\ buffer' \in {buffer, <<>>, lines, <<lines[Len(lines)]>>}
    BY <2>1
  <2> HIDE DEF rest, lines
  <2>5. \A i \in 1 .. Len(rest) : rest[i].answer.request \in Request => rest[i].answer \in answers
    BY <1>00, <2>3
  <2>6. \A i \in 1 .. Len(lines) : lines[i].answer.request \in Request => lines[i].answer \in answers
    BY <1>00, <2>3
  <2>7. /\ buffer' \in Seq(Line)
        /\ \A i \in 1 .. Len(buffer') :
             buffer'[i].answer.request \in Request => buffer'[i].answer \in answers
    <3>1. CASE buffer' = <<lines[Len(lines)]>>
      <4>1. lines[Len(lines)] \in Line
        BY <2>3
      <4>2. buffer' \in Seq(Line) /\ \A i \in 1 .. Len(buffer') : buffer'[i] = lines[Len(lines)]
        BY <3>1, <4>1
      <4> QED BY <2>3, <2>6, <4>2
    <3>2. CASE buffer' = <<>>
      BY <1>0, <3>2
    <3>3. CASE buffer' = buffer
      BY <1>0, <1>00, <3>3
    <3>4. CASE buffer' = lines
      BY <2>3, <2>6, <3>4
    <3> QED BY <2>4, <3>1, <3>2, <3>3, <3>4
  <2> QED BY <1>0, <2>2, <2>3, <2>4, <2>5, <2>7 DEF LinesAnswer
<1>3. ASSUME ChildReplies PROVE Goal
  <2>1. stdin # <<>> /\ Head(stdin) \in Request /\ stdin' = Tail(stdin) /\ buffer' = buffer
    BY <1>0, <1>3 DEF ChildReplies, ChildAnswers, proxyVars
  <2>2. PICK result \in {"ok", "error"} :
          LET answer == [request |-> Head(stdin), result |-> result]
          IN  /\ \E line \in Lines(answer) : stdout' = stdout \o line
              /\ answers' = answers \cup {answer}
    BY <1>3 DEF ChildReplies, ChildAnswers
  <2> DEFINE answer == [request |-> Head(stdin), result |-> result]
  <2>3. answer \in Answer
    BY <2>1 DEF Answer
  <2>4. PICK line \in Lines(answer) : stdout' = stdout \o line
    BY <2>2
  <2>5. line \in Seq(Chunk) /\ \A i \in 1 .. Len(line) : line[i].answer = answer
    BY <2>3, LinesType
  <2>6. line \in Seq(Line)
    <3>1. Chunk \subseteq Line
      BY DEF Chunk, Line, Answer
    <3> QED BY <2>5, <3>1
  <2>7. /\ stdout \o line \in Seq(Line)
        /\ \A i \in 1 .. Len(stdout \o line) :
             \/ i \in 1 .. Len(stdout) /\ (stdout \o line)[i] = stdout[i]
             \/ /\ i - Len(stdout) \in 1 .. Len(line)
                /\ (stdout \o line)[i] = line[i - Len(stdout)]
    BY <1>0, <2>6
  <2>8. answers' = answers \cup {answer}
    BY <2>2
  <2> HIDE DEF answer
  <2>9. \A i \in 1 .. Len(stdout') :
          stdout'[i].answer.request \in Request => stdout'[i].answer \in answers'
    BY <1>00, <2>4, <2>5, <2>7, <2>8
  <2> QED BY <1>0, <1>00, <2>1, <2>4, <2>7, <2>8, <2>9 DEF LinesAnswer
<1>4. ASSUME NEW l \in Line, l.answer.request \notin Request, stdout' = Append(stdout, l),
             UNCHANGED <<buffer, answers>>, stdin' \in {stdin, Tail(stdin)}, stdin' \in Seq(Request \cup {"control"})
      PROVE  Goal
  <2>1. /\ stdout' \in Seq(Line)
        /\ \A i \in 1 .. Len(stdout') :
             \/ i \in 1 .. Len(stdout) /\ stdout'[i] = stdout[i]
             \/ i = Len(stdout) + 1 /\ stdout'[i] = l
    BY <1>0, <1>4, QueueSteps
  <2> QED BY <1>0, <1>00, <1>4, <2>1 DEF LinesAnswer
<1>5. ASSUME NEW what \in {None} \cup Message, NEW result \in {"ok", "error"}
      PROVE  LET l == [answer |-> [request |-> what, result |-> result], part |-> "whole"]
             IN  l \in Line /\ l.answer.request \notin Request
  BY <1>5, MessageNames DEF Line
<1>6. stdin # <<>> => Tail(stdin) \in Seq(Request \cup {"control"})
  BY <1>0
<1>7. ASSUME ChildControls PROVE Goal
  BY <1>4, <1>5, <1>6, <1>7, MessageNames DEF ChildControls, proxyVars
<1>8. ASSUME ChildNotifies PROVE Goal
  BY <1>0, <1>4, <1>5, <1>8 DEF ChildNotifies, Unasked, Message, proxyVars
<1>9. ASSUME ChildIgnores PROVE Goal
  BY <1>1, <1>6, <1>9 DEF ChildIgnores, proxyVars
<1>10. ASSUME NEW x \in Request \cup {"control"}, stdin' = Append(stdin, x)
       PROVE  stdin' \in Seq(Request \cup {"control"})
  BY <1>0, <1>10
<1>11. ASSUME ControlSend PROVE Goal
  BY <1>0, <1>1, <1>10, <1>11 DEF ControlSend
<1> QED BY <1>0, <1>1, <1>2, <1>3, <1>7, <1>8, <1>9, <1>10, <1>11, StreamCases

LEMMA SessionTypeStep ==
  ASSUME SessionIInv, InvocationTypeOK', [SessionNext]_svars
  PROVE  SessionTypeOK'
<1>0. /\ SessionTypeOK /\ active \in Request \cup {None} /\ rows \in Nat /\ failed \in BOOLEAN
      /\ pending \in Request \cup {None, "control"}
  BY DEF SessionIInv, SessionTypeOK, InvocationTypeOK
<1> DEFINE Types == /\ pending' \in Request \cup {None, "control"}
                    /\ failed' \in BOOLEAN
                    /\ version' \in {1, 2}
                    /\ stage' \in {"off", "initializing", "listing", "ready"}
                    /\ control' \in {"none", "checking", "sent"}
                    /\ rows' \in Nat
<1>1. ASSUME ~ControlStep PROVE Types
  <2>1. pending' \in {pending, None, active}
    <3> DEFINE P == pending' \in {pending, None, active}
    <3>1. ASSUME \/ UNCHANGED proxyVars \/ UNCHANGED svars
                 \/ ChildControls \/ ChildUpgrades \/ ChildNotifies
          PROVE  P
      BY <3>1 DEF proxyVars, svars, vars, ChildControls, ChildUpgrades, ChildNotifies
    <3>2. ASSUME GiveUp \/ ExitEvent \/ StdinError \/ SessionInterrupt PROVE P
      BY <3>2 DEF GiveUp, ExitEvent, StdinError, SessionInterrupt, Interrupt, RejectPending, Conclude
    <3>3. ASSUME Data \/ SessionDispatch PROVE P
      BY <3>3 DEF Data, Conclude, SessionDispatch, Dispatch
    <3>4. ASSUME \/ Start \/ Refuse \/ (\E decision \in {"allowed", "blocked"} : Decide(decision))
                 \/ NotPersisted \/ NotDispatched \/ Settle \/ SettleBlocked
                 \/ SettleThrows \/ Finish \/ FinalizeAccess
          PROVE  P
      BY <3>4 DEF Start, Refuse, Decide, NotPersisted, NotDispatched, Settle, SettleBlocked,
                  SettleThrows, Finish, FinalizeAccess
    <3>5. ASSUME Drained \/ Terminated \/ CloseThrows \/ SessionClosed \/ Close PROVE P
      BY <3>5 DEF Drained, Terminated, CloseThrows, SessionClosed, Closed, Close
    <3>6. ASSUME \/ (\E r \in Request : Invoke(r)) \/ ChildReplies \/ ChildIgnores \/ ChildExits
          PROVE  P
      BY <3>6 DEF Invoke, ChildReplies, ChildAnswers, ChildIgnores, ChildExits, proxyVars
    <3> HIDE DEF P
    <3>7. P
      BY <1>1, <3>1, <3>2, <3>3, <3>4, <3>5, <3>6, OtherCases
    <3> QED BY <3>7 DEF P
  <2>2. failed' \in {failed, TRUE}
    <3>1. ASSUME UNCHANGED proxyVars \/ UNCHANGED svars \/ UNCHANGED vars PROVE failed' = failed
      BY <3>1 DEF proxyVars, svars, vars
    <3> QED
      BY <1>1, <3>1, OtherCases
         DEF Start, Refuse, Decide, NotPersisted, SessionDispatch,
             Dispatch, NotDispatched, Settle, SettleBlocked, SettleThrows, Finish, Data, GiveUp,
             ExitEvent, StdinError, Drained, Terminated, FinalizeAccess, CloseThrows,
             SessionClosed, Closed, SessionInterrupt, Interrupt, Close, Invoke, ChildReplies,
             ChildAnswers, ChildIgnores, ChildExits, ChildControls, ChildUpgrades, ChildNotifies
  <2>3. UNCHANGED <<version, stage, control>> /\ rows' \in Nat
    BY <1>1, OtherEffect
  <2> QED BY <1>0, <2>1, <2>2, <2>3 DEF SessionTypeOK
<1>2. ASSUME SessionStart \/ ControlSend \/ ControlRefused \/ ControlLost PROVE Types
  <2>1. CASE SessionStart
    BY <1>0, <2>1 DEF SessionTypeOK, SessionStart, NeedsListing, List
  <2>2. CASE ControlSend
    BY <1>0, <2>2 DEF SessionTypeOK, ControlSend
  <2>3. CASE ControlRefused \/ ControlLost
    BY <1>0, <2>3 DEF SessionTypeOK, ControlRefused, ControlLost, SessionThrows
  <2> QED BY <1>2, <2>1, <2>2, <2>3
<1>3. ASSUME SessionData PROVE Types
  <2>1. version' = version /\ \A n \in 1 .. Len(stdout) : Event(buffer \o SubSeq(stdout, 1, n)).rows \in Nat
    <3>1. \A n \in 1 .. Len(stdout) : buffer \o SubSeq(stdout, 1, n) \in Seq(Line)
      BY <1>0, EventLines
    <3> QED BY <1>0, <1>3, <3>1, EventRows DEF SessionData
  <2>2. CASE pending # "control"
    <3>1. PICK n \in 1 .. Len(stdout) : SessionCallData(Event(buffer \o SubSeq(stdout, 1, n)))
      BY <1>3, <2>2 DEF SessionData
    <3> QED BY <1>0, <2>1, <3>1 DEF SessionCallData, SessionTypeOK
  <2>3. CASE pending = "control"
    <3>1. PICK n \in 1 .. Len(stdout) :
            LET e == Event(buffer \o SubSeq(stdout, 1, n)) IN rows' \in {e.rows, e.rows + 1}
      BY <1>3, <2>3, ControlDataCases
    <3>2. rows' \in Nat
      BY <2>1, <3>1
    <3>3. pending' \in {pending, None} /\ failed' \in BOOLEAN
          /\ stage' \in {stage, "listing", "ready"} /\ control' \in {control, "checking", "none"}
      BY <1>0, <1>3, <2>3, ControlDataCases DEF SessionThrows
    <3> QED BY <1>0, <2>1, <3>2, <3>3 DEF SessionTypeOK
  <2> QED BY <2>2, <2>3
<1>4. Types
  BY <1>1, <1>2, <1>3 DEF ControlStep
<1> HIDE DEF Types
<1>5. InvocationTypeOK' /\ stdin' \in Seq(Request \cup {"control"})
      /\ stdout' \in Seq(Line) /\ buffer' \in Seq(Line)
  BY StreamStep
<1> QED BY <1>4, <1>5 DEF SessionTypeOK, Types

-----------------------------------------------------------------------------
(* One control message on its way *)

HeadsOnly == version = 2 => \A i \in 1 .. Len(buffer) : buffer[i].part = "head"

\* Streams that lose lines, or are added others to, hold no more control messages.
LEMMA OneControlKept ==
  ASSUME OneControl, HeadsOnly', NEW a \in Nat, NEW b \in Nat,
         \A i \in AskedAt' : i + a \in AskedAt,
         \A i \in ToldAt' : i + b \in ToldAt /\ stdout'[i] = stdout[i + b],
         AskedAt \subseteq Int, ToldAt \subseteq Int, AskedAt' \subseteq Int, ToldAt' \subseteq Int,
         failed => failed',
         pending' = "control" <=> pending = "control",
         stage' = stage, Discovering' = Discovering, vouched \subseteq vouched'
  PROVE  OneControl'
<1>1. \A i \in ToldAt' : stdout'[i].part = "whole"
  BY DEF OneControl
<1>2. ASSUME ~failed'
      PROVE  /\ AskedAt' \cup ToldAt' # {} => pending' = "control"
             /\ AskedAt' = {} \/ ToldAt' = {}
             /\ \A i, j \in AskedAt' : i = j
             /\ \A i, j \in ToldAt' : i = j
             /\ \A i \in ToldAt' : stdout'[i].answer.result = "ok" /\ stage' # "initializing"
                                   => Discovering' \subseteq vouched'
  <2>1. /\ AskedAt \cup ToldAt # {} => pending = "control"
        /\ AskedAt = {} \/ ToldAt = {}
        /\ \A i, j \in AskedAt : i = j
        /\ \A i, j \in ToldAt : i = j
        /\ \A i \in ToldAt : stdout[i].answer.result = "ok" /\ stage # "initializing"
                             => Discovering \subseteq vouched
    BY <1>2 DEF OneControl
  <2>2. ASSUME NEW i \in AskedAt', NEW j \in AskedAt' PROVE i = j
    <3>1. i + a = j + a /\ i \in Int /\ j \in Int
      BY <2>1
    <3> QED BY <3>1
  <2>3. ASSUME NEW i \in ToldAt', NEW j \in ToldAt' PROVE i = j
    <3>1. i + b = j + b /\ i \in Int /\ j \in Int
      BY <2>1
    <3> QED BY <3>1
  <2>4. \A i \in ToldAt' : stdout'[i].answer.result = "ok" /\ stage' # "initializing"
                           => Discovering' \subseteq vouched'
    BY <2>1
  <2> QED BY <2>1, <2>2, <2>3, <2>4
<1> QED BY <1>1, <1>2 DEF OneControl, HeadsOnly

LEMMA OneControlSilent ==
  ASSUME HeadsOnly', \A i \in ToldAt' : stdout'[i].part = "whole",
         ~failed' => AskedAt' = {} /\ ToldAt' = {}
  PROVE  OneControl'
BY DEF OneControl, HeadsOnly

\* The control messages in what is left of a stream, or in one that is added to.
LEMMA AskedSteps ==
  ASSUME stdin \in Seq(Request \cup {"control"})
  PROVE  /\ AskedAt \subseteq Int
         /\ stdin' = stdin => \A i \in AskedAt' : i + 0 \in AskedAt
         /\ stdin # <<>> /\ stdin' = Tail(stdin) => \A i \in AskedAt' : i + 1 \in AskedAt
         /\ \A x \in Request \cup {"control"} : stdin' = Append(stdin, x) =>
              \A i \in AskedAt' : (i \in AskedAt /\ i + 0 \in AskedAt)
                                  \/ (i = Len(stdin) + 1 /\ x = "control")
<1>1. ASSUME stdin # <<>>, stdin' = Tail(stdin) PROVE \A i \in AskedAt' : i + 1 \in AskedAt
  BY <1>1, QueueSteps DEF AskedAt
<1>2. ASSUME NEW x \in Request \cup {"control"}, stdin' = Append(stdin, x), NEW i \in AskedAt'
      PROVE  (i \in AskedAt /\ i + 0 \in AskedAt) \/ (i = Len(stdin) + 1 /\ x = "control")
  BY <1>2, QueueSteps DEF AskedAt
<1>3. ASSUME stdin' = stdin PROVE \A i \in AskedAt' : i + 0 \in AskedAt
  BY <1>3 DEF AskedAt
<1>4. AskedAt \subseteq Int
  BY DEF AskedAt
<1> QED BY <1>1, <1>2, <1>3, <1>4

LEMMA ToldSteps ==
  ASSUME stdout \in Seq(Line)
  PROVE  /\ ToldAt \subseteq Int
         /\ stdout' = stdout =>
              \A i \in ToldAt' : i + 0 \in ToldAt /\ stdout'[i] = stdout[i + 0]
         /\ \A n \in 1 .. Len(stdout) : stdout' = SubSeq(stdout, n + 1, Len(stdout)) =>
              \A i \in ToldAt' : i + n \in ToldAt /\ stdout'[i] = stdout[i + n]
         /\ \A l \in Line : stdout' = Append(stdout, l) =>
              \A i \in ToldAt' :
                \/ i \in ToldAt /\ i + 0 \in ToldAt /\ stdout'[i] = stdout[i + 0]
                \/ i = Len(stdout) + 1 /\ stdout'[i] = l /\ l.answer.request = "control"
<1>1. ASSUME NEW n \in 1 .. Len(stdout), stdout' = SubSeq(stdout, n + 1, Len(stdout)),
             NEW i \in ToldAt'
      PROVE  i + n \in ToldAt /\ stdout'[i] = stdout[i + n]
  <2>1. i \in 1 .. Len(SubSeq(stdout, n + 1, Len(stdout)))
        /\ SubSeq(stdout, n + 1, Len(stdout))[i].answer.request = "control"
    BY <1>1 DEF ToldAt
  <2>2. i + n \in 1 .. Len(stdout) /\ SubSeq(stdout, n + 1, Len(stdout))[i] = stdout[i + n]
    BY <2>1, Remainder
  <2> QED BY <1>1, <2>1, <2>2 DEF ToldAt
<1>2. ASSUME NEW l \in Line, stdout' = Append(stdout, l), NEW i \in ToldAt'
      PROVE  \/ i \in ToldAt /\ i + 0 \in ToldAt /\ stdout'[i] = stdout[i + 0]
             \/ i = Len(stdout) + 1 /\ stdout'[i] = l /\ l.answer.request = "control"
  <2>1. i \in 1 .. Len(Append(stdout, l)) /\ Append(stdout, l)[i].answer.request = "control"
    BY <1>2 DEF ToldAt
  <2>2. \/ i \in 1 .. Len(stdout) /\ Append(stdout, l)[i] = stdout[i]
        \/ i = Len(stdout) + 1 /\ Append(stdout, l)[i] = l
    BY <2>1, QueueSteps
  <2>3. i \in 1 .. Len(stdout) => i + 0 = i
    OBVIOUS
  <2> QED BY <1>2, <2>1, <2>2, <2>3 DEF ToldAt
<1>3. ASSUME stdout' = stdout, NEW i \in ToldAt'
      PROVE  i + 0 \in ToldAt /\ stdout'[i] = stdout[i + 0]
  <2>1. i \in 1 .. Len(stdout)
    BY <1>3 DEF ToldAt
  <2>2. i + 0 = i
    BY <2>1
  <2> QED BY <1>3, <2>2 DEF ToldAt
<1>4. ToldAt \subseteq Int
  BY DEF ToldAt
<1> QED BY <1>1, <1>2, <1>3, <1>4

\* A response that an event takes is the one the child gave.
LEMMA ControlTaken ==
  ASSUME SessionIInv, pending = "control", NEW n \in 1 .. Len(stdout),
         version = 2, Event(buffer \o SubSeq(stdout, 1, n)).got = "ok"
  PROVE  \E k \in ToldAt : k <= n /\ stdout[k].answer.result = "ok"
<1> DEFINE lines == buffer \o SubSeq(stdout, 1, n)
<1>0. /\ SessionTypeOK /\ OneControl /\ n \in Nat /\ Len(buffer) \in Nat
      /\ \A i \in 1 .. Len(buffer) : buffer[i].part = "head"
  BY DEF SessionIInv, OneControl, SessionTypeOK
<1>1. PICK i \in DOMAIN lines : /\ lines[i].part # "head" /\ lines[i].answer.request = "control"
                                /\ lines[i].answer.result = "ok"
  BY EventGot
<1>2. i \in 1 .. Len(lines)
  BY <1>0, EventLines
<1>3. IF i <= Len(buffer) THEN lines[i] = buffer[i] /\ i \in 1 .. Len(buffer)
      ELSE /\ lines[i] = stdout[i - Len(buffer)]
           /\ i - Len(buffer) \in 1 .. n /\ i - Len(buffer) \in 1 .. Len(stdout)
  BY <1>0, <1>2, EventLines
<1>4. /\ lines[i] = stdout[i - Len(buffer)]
      /\ i - Len(buffer) \in 1 .. n /\ i - Len(buffer) \in 1 .. Len(stdout)
  BY <1>0, <1>1, <1>3
<1>5. i - Len(buffer) \in ToldAt
  BY <1>1, <1>4 DEF ToldAt
<1> QED BY <1>1, <1>4, <1>5

LEMMA OneControlStep ==
  ASSUME SessionIInv, [SessionNext]_svars
  PROVE  OneControl'
<1>0. /\ SessionTypeOK /\ OneControl /\ ControlSound
      /\ stdin \in Seq(Request \cup {"control"}) /\ stdout \in Seq(Line) /\ buffer \in Seq(Line)
      /\ \A i \in ToldAt : stdout[i].part = "whole"
      /\ HeadsOnly /\ Len(stdout) \in Nat
  BY DEF SessionIInv, SessionTypeOK, OneControl, HeadsOnly
<1>01. /\ AskedAt \subseteq Int /\ ToldAt \subseteq Int
       /\ AskedAt' \subseteq Int /\ ToldAt' \subseteq Int
  BY DEF AskedAt, ToldAt
<1>02. pending # "control" /\ ~failed => AskedAt = {} /\ ToldAt = {}
  BY <1>0 DEF OneControl
<1> DEFINE Context == /\ failed => failed'
                      /\ pending' = "control" <=> pending = "control"
                      /\ stage' = stage /\ Discovering' = Discovering /\ vouched \subseteq vouched'
                      /\ version' = version
<1>1. ASSUME ~ControlStep PROVE Context
  BY <1>1, OtherEffect
<1>2. ASSUME Context, UNCHANGED <<stdin, stdout, buffer>> PROVE OneControl'
  BY <1>0, <1>01, <1>2, AskedSteps, ToldSteps, OneControlKept DEF HeadsOnly
<1>3. ASSUME Context, UNCHANGED <<stdout, buffer>>, NEW x \in Request, stdin' = Append(stdin, x)
      PROVE  OneControl'
  <2>1. \A i \in AskedAt' : i + 0 \in AskedAt
    BY <1>0, <1>3, AskedSteps, MessageNames
  <2> QED BY <1>0, <1>01, <1>3, <2>1, ToldSteps, OneControlKept DEF HeadsOnly
<1>4. ASSUME Context, version = 1, Data PROVE OneControl'
  <2>1. PICK n \in 1 .. Len(stdout) : stdout' = SubSeq(stdout, n + 1, Len(stdout))
    BY <1>4 DEF Data
  <2>2. \A i \in ToldAt' : i + n \in ToldAt /\ stdout'[i] = stdout[i + n]
    BY <1>0, <2>1, ToldSteps
  <2>3. \A i \in AskedAt' : i + 0 \in AskedAt
    BY <1>0, <1>4, AskedSteps DEF Data
  <2>4. HeadsOnly'
    BY <1>4 DEF HeadsOnly
  <2> DEFINE a == 0
  <2> HIDE DEF a
  <2>5. a \in Nat /\ \A i \in AskedAt' : i + a \in AskedAt
    BY <2>3 DEF a
  <2>6. n \in Nat
    BY <1>0
  <2> QED BY <1>0, <1>01, <1>4, <2>2, <2>4, <2>5, <2>6, OneControlKept
<1>5. ASSUME Context, ChildReplies PROVE OneControl'
  <2>1. /\ Head(stdin) \in Request /\ stdin # <<>> /\ stdin' = Tail(stdin) /\ buffer' = buffer
    BY <1>0, <1>5 DEF ChildReplies, ChildAnswers, proxyVars
  <2>2. PICK answer \in Answer : /\ answer.request \in Request
                                 /\ \E line \in Lines(answer) : stdout' = stdout \o line
    BY <1>5, <2>1 DEF ChildReplies, ChildAnswers, Answer
  <2>3. PICK line \in Lines(answer) : stdout' = stdout \o line
    BY <2>2
  <2>4. line \in Seq(Chunk) /\ \A i \in 1 .. Len(line) : line[i].answer = answer
    BY LinesType
  <2>5. \A i \in 1 .. Len(stdout \o line) :
          \/ i \in 1 .. Len(stdout) /\ (stdout \o line)[i] = stdout[i]
          \/ /\ i - Len(stdout) \in 1 .. Len(line)
             /\ (stdout \o line)[i] = line[i - Len(stdout)]
    BY <1>0, <2>4
  <2>6. \A i \in ToldAt' : i + 0 \in ToldAt /\ stdout'[i] = stdout[i + 0]
    <3>1. SUFFICES ASSUME NEW i \in ToldAt' PROVE i \in ToldAt /\ stdout'[i] = stdout[i] /\ i + 0 = i
      OBVIOUS
    <3>2. i \in 1 .. Len(stdout \o line) /\ (stdout \o line)[i].answer.request = "control"
      BY <2>3 DEF ToldAt
    <3>3. i \in 1 .. Len(stdout) /\ stdout'[i] = stdout[i]
      BY <2>2, <2>3, <2>4, <2>5, <3>2, MessageNames
    <3> QED BY <2>3, <3>2, <3>3 DEF ToldAt
  <2>7. \A i \in AskedAt' : i + 1 \in AskedAt
    BY <1>0, <2>1, AskedSteps
  <2>8. HeadsOnly'
    BY <1>0, <1>5, <2>1 DEF HeadsOnly
  <2> QED BY <1>0, <1>01, <1>5, <2>6, <2>7, <2>8, OneControlKept
<1>6. ASSUME Context, ChildIgnores PROVE OneControl'
  <2>1. stdin # <<>> /\ stdin' = Tail(stdin) /\ UNCHANGED <<stdout, buffer>>
    BY <1>6 DEF ChildIgnores, proxyVars
  <2>2. HeadsOnly' /\ \A i \in AskedAt' : i + 1 \in AskedAt
    BY <1>0, <1>6, <2>1, AskedSteps DEF HeadsOnly
  <2>3. \A i \in ToldAt' : i + 0 \in ToldAt /\ stdout'[i] = stdout[i + 0]
    BY <1>0, <2>1, ToldSteps
  <2> QED BY <1>0, <1>01, <1>6, <2>2, <2>3, OneControlKept
<1>7. ASSUME Context, ChildNotifies PROVE OneControl'
  <2>1. PICK what \in Unasked :
          stdout' = Append(stdout, [answer |-> [request |-> what, result |-> "ok"], part |-> "whole"])
    BY <1>7 DEF ChildNotifies
  <2> DEFINE l == [answer |-> [request |-> what, result |-> "ok"], part |-> "whole"]
  <2>2. l \in Line /\ l.answer.request # "control"
    BY MessageNames DEF Unasked, Line, Message
  <2>3. UNCHANGED <<stdin, buffer>> /\ stdout' = Append(stdout, l)
    BY <1>7, <2>1 DEF ChildNotifies, proxyVars
  <2> HIDE DEF l
  <2>4. \A i \in ToldAt' : i + 0 \in ToldAt /\ stdout'[i] = stdout[i + 0]
    BY <1>0, <2>2, <2>3, ToldSteps
  <2>5. HeadsOnly' /\ \A i \in AskedAt' : i + 0 \in AskedAt
    BY <1>0, <1>7, <2>3, AskedSteps DEF HeadsOnly
  <2> QED BY <1>0, <1>01, <1>7, <2>4, <2>5, OneControlKept
<1>8. ASSUME Context, ChildControls PROVE OneControl'
  <2>1. PICK result \in {"ok", "error"} :
          /\ stdout' = Append(stdout, [answer |-> [request |-> "control", result |-> result],
                                       part |-> "whole"])
          /\ vouched' = IF result = "ok" /\ stage # "initializing" THEN vouched \cup Discovering
                        ELSE vouched
    BY <1>8 DEF ChildControls
  <2> DEFINE l == [answer |-> [request |-> "control", result |-> result], part |-> "whole"]
  <2>2. l \in Line /\ l.part = "whole" /\ l.answer.result = result
    BY MessageNames DEF Line
  <2>3. /\ stdin # <<>> /\ Head(stdin) = "control" /\ stdin' = Tail(stdin)
        /\ stdout' = Append(stdout, l)
        /\ UNCHANGED <<buffer, version, stage, failed, pending, phase>>
    BY <1>8, <2>1 DEF ChildControls, proxyVars
  <2> HIDE DEF l
  <2>4. 1 \in AskedAt
    BY <1>0, <2>3, QueueSteps DEF AskedAt
  <2>5. \A i \in AskedAt' : i + 1 \in AskedAt
    BY <1>0, <2>3, AskedSteps
  <2>6. \A i \in ToldAt' : \/ i \in ToldAt /\ stdout'[i] = stdout[i + 0] /\ i + 0 = i
                           \/ i = Len(stdout) + 1 /\ stdout'[i] = l
    <3>1. \A i \in ToldAt : i + 0 = i
      BY <1>01
    <3> QED BY <1>0, <2>2, <2>3, <3>1, ToldSteps
  <2>7. \A i \in ToldAt' : stdout'[i].part = "whole"
    BY <1>0, <2>2, <2>6
  <2>8. ASSUME ~failed
        PROVE  /\ ToldAt = {} /\ pending = "control"
               /\ AskedAt' = {}
    <3>1. ToldAt = {} /\ pending = "control" /\ \A i, j \in AskedAt : i = j
      BY <1>0, <2>4, <2>8 DEF OneControl
    <3>2. ASSUME NEW i \in AskedAt' PROVE FALSE
      <4>1. i + 1 = 1 /\ i \in 1 .. Len(stdin')
        BY <2>4, <2>5, <3>1 DEF AskedAt
      <4> QED BY <4>1
    <3> QED BY <3>1, <3>2
  <2>9. HeadsOnly'
    BY <1>0, <2>3 DEF HeadsOnly
  <2>10. stage # "initializing" /\ result = "ok" => Discovering' \subseteq vouched'
    BY <2>1, <2>3 DEF Discovering
  <2> QED BY <2>2, <2>3, <2>6, <2>7, <2>8, <2>9, <2>10 DEF OneControl, HeadsOnly
<1>9. ASSUME SessionStart \/ ControlRefused \/ ControlLost PROVE OneControl'
  <2>1. UNCHANGED <<stdin, stdout, buffer, version>>
    BY <1>9 DEF SessionStart, ControlRefused, ControlLost, childVars
  <2>2. HeadsOnly' /\ (\A i \in ToldAt' : stdout'[i].part = "whole")
        /\ AskedAt' = AskedAt /\ ToldAt' = ToldAt
    BY <1>0, <2>1 DEF HeadsOnly, AskedAt, ToldAt
  <2>3. ~failed' => pending # "control" /\ ~failed
    <3>1. CASE SessionStart
      BY <1>0, <3>1 DEF SessionStart, ControlSound
    <3> QED BY <1>9, <3>1 DEF ControlRefused, ControlLost, SessionThrows
  <2> QED BY <1>02, <2>2, <2>3, OneControlSilent
<1>10. ASSUME ControlSend PROVE OneControl'
  <2>1. /\ UNCHANGED <<stdout, buffer, version, failed, stage, phase, vouched>>
        /\ stdin' = stdin \/ stdin' = Append(stdin, "control")
        /\ pending' = "control" /\ control = "checking"
    BY <1>10 DEF ControlSend
  <2>2. pending # "control"
    BY <1>0, <2>1 DEF ControlSound
  <2>3. HeadsOnly' /\ ToldAt' = ToldAt
    BY <1>0, <2>1 DEF HeadsOnly, ToldAt
  <2>4. \A i \in AskedAt' : i \in AskedAt \/ i = Len(stdin) + 1
    BY <1>0, <2>1, AskedSteps DEF AskedAt
  <2> QED BY <1>0, <1>02, <2>1, <2>2, <2>3, <2>4 DEF OneControl, HeadsOnly
<1>11. ASSUME SessionData PROVE OneControl'
  <2>1. PICK n \in 1 .. Len(stdout) :
          LET lines == buffer \o SubSeq(stdout, 1, n)
              e == Event(lines)
          IN  /\ stdout' = SubSeq(stdout, n + 1, Len(stdout))
              /\ buffer' = IF e.fail \/ lines[Len(lines)].part # "head" THEN <<>>
                           ELSE <<lines[Len(lines)]>>
              /\ IF pending = "control" THEN SessionControlData(e) ELSE SessionCallData(e)
    BY <1>11 DEF SessionData
  <2> DEFINE e == Event(buffer \o SubSeq(stdout, 1, n))
  <2>2. version = 2 /\ UNCHANGED <<version, stdin, vouched>>
    BY <1>11 DEF SessionData
  <2>3. HeadsOnly'
    BY <2>1 DEF HeadsOnly
  <2>4. \A i \in ToldAt' : i + n \in ToldAt /\ stdout'[i] = stdout[i + n]
    BY <1>0, <2>1, ToldSteps
  <2>5. AskedAt' = AskedAt /\ \A i \in ToldAt' : stdout'[i].part = "whole"
    BY <1>0, <2>2, <2>4 DEF AskedAt
  <2>6. ASSUME AskedAt = {}, ToldAt = {} PROVE OneControl'
    BY <2>3, <2>4, <2>5, <2>6, OneControlSilent
  <2>7. CASE pending # "control"
    <3>1. failed => failed'
      BY <2>1, <2>7 DEF SessionCallData
    <3> QED BY <1>02, <2>3, <2>5, <2>6, <2>7, <3>1, OneControlSilent
  <2>8. CASE pending = "control"
    <3> HIDE DEF e
    <3>1. SessionControlData(e)
      BY <2>1, <2>8 DEF e
    <3>2. CASE UNCHANGED <<pending, phase, failed, stage>>
      <4>1. Discovering' = Discovering
        BY <3>2 DEF Discovering
      <4>2. \A i \in AskedAt' : i + 0 \in AskedAt
        BY <1>01, <2>5
      <4> DEFINE a == 0
      <4> HIDE DEF a
      <4>3. a \in Nat /\ n \in Nat /\ \A i \in AskedAt' : i + a \in AskedAt
        BY <1>0, <4>2 DEF a
      <4>4. failed => failed'
        BY <3>2
      <4> QED BY <1>0, <1>01, <2>2, <2>3, <2>4, <3>2, <4>1, <4>3, <4>4, OneControlKept
    <3>3. CASE SessionThrows
      BY <2>3, <2>5, <3>3, OneControlSilent DEF SessionThrows
    <3>4. CASE ~failed /\ e.got = "ok"
      <4>1. PICK k \in ToldAt : k <= n
        BY <2>2, <2>8, <3>4, ControlTaken DEF e
      <4>2. AskedAt = {} /\ \A i, j \in ToldAt : i = j
        BY <1>0, <3>4, <4>1 DEF OneControl
      <4>3. ASSUME NEW i \in ToldAt' PROVE FALSE
        <5>1. i + n = k /\ i \in 1 .. Len(stdout')
          BY <2>4, <4>1, <4>2 DEF ToldAt
        <5> QED BY <4>1, <5>1
      <4> QED BY <2>3, <2>5, <4>2, <4>3, OneControlSilent
    <3> QED BY <3>1, <3>2, <3>3, <3>4 DEF SessionControlData
  <2> QED BY <2>7, <2>8
<1> QED
  BY <1>1, <1>2, <1>3, <1>4, <1>5, <1>6, <1>7, <1>8, <1>9, <1>10, <1>11, StreamCases
     DEF ControlStep

-----------------------------------------------------------------------------
(* Why a call is pinned *)

\* Calls that are past the listing, and those the child has been handed.
Through == {r \in Request : phase[r] \in {"deciding", "authorizing", "waiting"} \/ written[r]}

LEMMA PinnedKept ==
  ASSUME Pinned, version' = version, vouched \subseteq vouched',
         version = 2 => Through' \subseteq Through \cup vouched'
  PROVE  Pinned'
<1>1. version = 2 => Through \subseteq vouched
  BY DEF Pinned, Through
<1>2. version = 2 => Through' \subseteq vouched'
  BY <1>1
<1> QED BY <1>2 DEF Pinned, Through

\* The listing a call was let through on was given while that call waited for it.
LEMMA PinnedStep ==
  ASSUME SessionIInv, [SessionNext]_svars
  PROVE  Pinned'
<1>0. /\ Pinned /\ OneActive /\ ControlSound /\ OneControl /\ Queued /\ queue \in Seq(Request)
      /\ phase \in [Request -> Phase \cup {"discovering"}] /\ written \in [Request -> BOOLEAN]
      /\ active \in Request \cup {None}
  BY DEF SessionIInv, InvocationInv, InvocationTypeOK
<1> DEFINE Goal == Through' \subseteq Through \cup vouched'
<1>1. ASSUME UNCHANGED written,
             \/ phase' = phase
             \/ \E r \in Request, how \in {"queued", "discovering", "settling", "reporting", "done", "threw"} :
                  phase' = [phase EXCEPT ![r] = how]
      PROVE  Goal
  BY <1>0, <1>1 DEF Through
<1>2. ASSUME pending \in Request, Conclude("completed") \/ Conclude("tool_failure"), UNCHANGED written
      PROVE  Goal
  BY <1>1, <1>2 DEF Conclude
<1>3. ASSUME ~ControlStep PROVE Pinned'
  <2>1. version' = version /\ vouched \subseteq vouched'
    BY <1>3, OtherEffect
  <2>2. ASSUME version = 2 PROVE Goal
    <3>1. ASSUME UNCHANGED proxyVars \/ UNCHANGED vars \/ UNCHANGED svars PROVE Goal
      BY <1>1, <3>1 DEF proxyVars, vars, svars
    <3>2. ASSUME Refuse \/ NotPersisted \/ NotDispatched \/ Settle \/ SettleBlocked
                 \/ SettleThrows \/ Finish \/ FinalizeAccess
          PROVE  Goal
      BY <1>0, <1>1, <3>2 DEF Refuse, NotPersisted, NotDispatched, Settle, SettleBlocked,
         SettleThrows, Finish, FinalizeAccess, Leave
    <3>3. ASSUME NEW decision \in {"allowed", "blocked"}, Decide(decision) PROVE Goal
      BY <1>0, <3>3 DEF Decide, Through
    <3>4. ASSUME SessionDispatch PROVE Goal
      BY <1>0, <3>4 DEF SessionDispatch, Dispatch, Through
    <3>5. ASSUME pending # "control", GiveUp \/ ExitEvent \/ StdinError \/ Interrupt PROVE Goal
      <4>1. pending \in Request \cup {None}
        BY <3>5 DEF SessionIInv, SessionTypeOK
      <4> QED BY <1>1, <1>2, <3>5, <4>1 DEF GiveUp, TimerArmed, ExitEvent, StdinError, Interrupt,
         RejectPending
    <3>6. ASSUME Drained \/ Terminated \/ CloseThrows \/ SessionClosed \/ Close PROVE Goal
      BY <1>1, <3>6 DEF Drained, Terminated, CloseThrows, SessionClosed, Closed, Close
    <3>7. ASSUME NEW r \in Request, Invoke(r) PROVE Goal
      BY <1>1, <3>7 DEF Invoke
    <3>8. ASSUME ChildReplies \/ ChildIgnores \/ ChildExits \/ ChildControls \/ ChildUpgrades
                 \/ ChildNotifies
          PROVE  Goal
      BY <1>1, <3>8 DEF ChildReplies, ChildAnswers, ChildIgnores, ChildExits, ChildControls,
         ChildUpgrades, ChildNotifies, proxyVars, vars
    <3>9. version # 1
      BY <2>2
    <3> HIDE DEF Goal
    <3> QED
      BY <1>3, <3>1, <3>2, <3>3, <3>4, <3>5, <3>6, <3>7, <3>8, <3>9, OtherCases
         DEF SessionInterrupt
  <2> QED BY <1>0, <2>1, <2>2, PinnedKept
<1>4. ASSUME SessionThrows, UNCHANGED written PROVE Goal
  BY <1>0, <1>4 DEF SessionThrows, Through, Discovering
<1>5. ASSUME SessionStart \/ ControlSend \/ ControlRefused \/ ControlLost PROVE Pinned'
  <2>1. UNCHANGED <<version, vouched, written>>
    BY <1>5 DEF SessionStart, ControlSend, ControlRefused, ControlLost
  <2>2. CASE SessionStart
    <3>1. Head(queue) \in Request
      BY <1>0, <2>2, QueueSteps DEF SessionStart
    <3> QED BY <1>0, <1>1, <2>1, <2>2, <3>1, PinnedKept DEF SessionStart, NeedsListing
  <2>3. CASE ControlSend
    BY <1>0, <1>1, <2>1, <2>3, PinnedKept DEF ControlSend
  <2>4. CASE ControlRefused \/ ControlLost
    BY <1>0, <1>4, <2>1, <2>4, PinnedKept DEF ControlRefused, ControlLost
  <2> QED BY <1>5, <2>2, <2>3, <2>4
<1>6. ASSUME SessionData PROVE Pinned'
  <2>1. PICK n \in 1 .. Len(stdout) :
          LET e == Event(buffer \o SubSeq(stdout, 1, n))
          IN  IF pending = "control" THEN SessionControlData(e) ELSE SessionCallData(e)
    BY <1>6 DEF SessionData
  <2> DEFINE e == Event(buffer \o SubSeq(stdout, 1, n))
  <2>2. version = 2 /\ UNCHANGED <<version, vouched, written>>
    BY <1>6 DEF SessionData
  <2>3. CASE pending # "control"
    <3>1. e.got # "nothing" => pending # None
      BY EventGot
    <3>2. pending \in Request \cup {None}
      BY <2>3 DEF SessionIInv, SessionTypeOK
    <3> HIDE DEF e
    <3>3. phase' = phase \/ (pending \in Request /\ phase' = [phase EXCEPT ![pending] = "settling"])
      BY <2>1, <2>3, <3>1, <3>2 DEF SessionCallData, e
    <3>4. Goal
      BY <1>1, <2>2, <3>3
    <3> QED BY <1>0, <2>2, <3>4, PinnedKept
  <2>4. CASE pending = "control"
    <3>1. e.got = "ok" => \E k \in ToldAt : stdout[k].answer.result = "ok"
      BY <2>2, <2>4, ControlTaken
    <3> HIDE DEF e
    <3>2. SessionControlData(e)
      BY <2>1, <2>4 DEF e
    <3>3. CASE phase' = phase \/ SessionThrows
      BY <1>0, <1>1, <1>4, <2>2, <3>3, PinnedKept
    <3>4. CASE /\ ~failed /\ e.got = "ok" /\ stage # "initializing"
               /\ \E r \in Discovering : phase' = [phase EXCEPT ![r] = "deciding"]
      <4>1. Discovering \subseteq vouched
        BY <1>0, <3>1, <3>4 DEF OneControl
      <4>2. Goal
        BY <1>0, <2>2, <3>4, <4>1 DEF Through, Discovering
      <4> QED BY <1>0, <2>2, <4>2, PinnedKept
    <3> QED BY <3>2, <3>3, <3>4 DEF SessionControlData
  <2> QED BY <2>3, <2>4
<1> QED BY <1>3, <1>5, <1>6 DEF ControlStep

-----------------------------------------------------------------------------
(* Why a session can be closed *)

\* What the owner recorded it keeps.
LEMMA MemoryKept ==
  ASSUME InvocationInv, Move
  PROVE  /\ ReceiptsIn(memory[Owner]) \subseteq ReceiptsIn(memory'[Owner])
         /\ faults' = 0 => faults = 0
<1>0. IInv /\ TypeOK /\ InvocationTypeOK /\ OneActive /\ OperationSound
  BY DEF InvocationInv, IInv
<1>1. CASE AccessStep /\ UNCHANGED <<proxyVars, childVars>>
  <2>1. ReceiptsIn(memory[Owner]) \subseteq ReceiptsIn(memory'[Owner])
    BY <1>0, <1>1, AccessEffect DEF RecorderFrame
  <2>2. faults' = faults \/ faults' = faults + 1
    BY <1>1
       DEF AccessStep, Progress, Recovery, Write, Sync, Link, LinkRefused, SyncDirectory,
           WriteFails, Kill, Recover, Synthesize, Propose, Finalize, HostCrash
  <2>3. faults \in Nat
    BY <1>0 DEF TypeOK
  <2> QED BY <2>1, <2>2, <2>3
<1>2. CASE SettleThrows
  <2>1. memory' = memory /\ faults' = faults + 1 /\ faults \in Nat
    BY <1>0, <1>2 DEF SettleThrows, TypeOK
  <2> QED BY <2>1
<1>3. CASE ~SettleThrows /\ ~(AccessStep /\ UNCHANGED <<proxyVars, childVars>>)
  <2>1. UNCHANGED <<memory, faults>>
    BY <1>0, <1>3, DecideAsks, SettleAsks
       DEF Move, accessVars, Asks, Turn, Quiet, Refuse, NotPersisted, Dispatch, NotDispatched,
           Finish, FinalizeAccess, Finalize, Invoke
  <2> QED BY <2>1
<1> QED BY <1>1, <1>2, <1>3

\* How an invocation ends, and that it then stays as it is.
LEMMA PhaseSteps ==
  ASSUME InvocationInv, Move, NEW r \in Request
  PROVE  /\ phase[r] = "threw" => phase'[r] = "threw"
         /\ phase'[r] \in {"new", "queued", "discovering"} =>
              phase[r] \in {"new", "queued", "discovering"}
         /\ phase'[r] = "reporting" /\ phase[r] # "reporting" =>
              active = r /\ (Settle \/ SettleBlocked)
         /\ phase'[r] = "done" => (phase[r] = "done" /\ op'[r] = op[r]) \/ (active = r /\ Finish)
<1> DEFINE Goal ==
         /\ phase[r] = "threw" => phase'[r] = "threw"
         /\ phase'[r] \in {"new", "queued", "discovering"} =>
              phase[r] \in {"new", "queued", "discovering"}
         /\ phase'[r] = "reporting" /\ phase[r] # "reporting" =>
              active = r /\ (Settle \/ SettleBlocked)
         /\ phase'[r] = "done" => (phase[r] = "done" /\ op'[r] = op[r]) \/ (active = r /\ Finish)
<1>0. /\ phase \in [Request -> Phase \cup {"discovering"}]
      /\ op \in [Request -> {"none", "censored", "open", "completed", "tool_failure"}]
      /\ OneActive /\ queue \in Seq(Request) /\ Queued
  BY DEF InvocationInv, InvocationTypeOK
<1>1. ASSUME Turn PROVE Goal
  <2>1. queue # <<>> => Head(queue) \in Request /\ phase[Head(queue)] = "queued"
    BY <1>0, QueueSteps DEF Queued
  <2>2. phase'[r] # phase[r] => phase[r] \in {"queued", "discovering"}
                                 /\ phase'[r] \in {"discovering", "deciding", "threw"}
    BY <1>1, <2>1 DEF Turn
  <2>3. op' = op
    BY <1>1 DEF Turn
  <2> QED BY <2>2, <2>3
<1>2. ASSUME Quiet PROVE Goal
  <2>1. op' = op /\ (phase' = phase \/ (pending \in Request /\ phase' = [phase EXCEPT ![pending] = "settling"]))
    BY <1>2 DEF Quiet, Conclude
  <2>2. pending \in Request => phase[pending] = "waiting"
    BY <1>0 DEF OneActive
  <2> QED BY <1>0, <2>1, <2>2
<1>3. ASSUME \/ Refuse \/ NotPersisted \/ NotDispatched \/ Dispatch \/ SettleThrows \/ Finish
             \/ Settle \/ SettleBlocked \/ (\E decision \in {"allowed", "blocked"} : Decide(decision))
      PROVE  Goal
  <2>1. active \in Request /\ phase[active] \notin {"new", "queued", "discovering", "threw", "done"}
    BY <1>0, <1>3
       DEF InvocationInv, InvocationTypeOK, Refuse, NotPersisted, NotDispatched, Dispatch,
           SettleThrows, Finish, Settle, SettleBlocked, Decide
  <2>2. /\ \E how \in {"deciding", "authorizing", "waiting", "settling", "reporting", "done", "threw"} :
             /\ phase' = [phase EXCEPT ![active] = how]
             /\ how = "reporting" => Settle \/ SettleBlocked
             /\ how = "done" => Finish
        /\ \A q \in Request : q # active => op'[q] = op[q]
    <3>1. CASE Refuse \/ NotPersisted \/ SettleThrows
      BY <1>0, <3>1 DEF Refuse, NotPersisted, SettleThrows, Leave
    <3>2. CASE NotDispatched \/ Dispatch
      BY <1>0, <3>2 DEF NotDispatched, Dispatch
    <3>3. CASE Finish
      BY <1>0, <3>3 DEF Finish, Leave
    <3>4. CASE Settle \/ SettleBlocked
      BY <1>0, <3>4 DEF Settle, SettleBlocked
    <3>5. CASE \E decision \in {"allowed", "blocked"} : Decide(decision)
      BY <1>0, <3>5 DEF Decide
    <3> QED BY <1>3, <3>1, <3>2, <3>3, <3>4, <3>5
  <2> QED BY <1>0, <2>1, <2>2
<1>4. ASSUME NEW q \in Request, Invoke(q) PROVE Goal
  BY <1>0, <1>4 DEF Invoke
<1>5. ASSUME FinalizeAccess PROVE Goal
  BY <1>5 DEF FinalizeAccess
<1>6. ASSUME UNCHANGED <<proxyVars, childVars>> PROVE Goal
  BY <1>6 DEF proxyVars
<1> HIDE DEF Goal
<1>7. Goal
  BY <1>1, <1>2, <1>3, <1>4, <1>5, <1>6 DEF Move
<1> QED BY <1>7 DEF Goal

\* Only an invocation that threw leaves its operation or its transaction open.
LEMMA EndedStep ==
  ASSUME SessionIInv, [SessionNext]_svars
  PROVE  Ended'
<1>0. /\ InvocationInv /\ Move /\ Ended /\ ReceiptSound /\ TypeOK /\ CallSound
  BY SessionMoves DEF SessionIInv, InvocationInv, IInv
<1>1. ReceiptsIn(memory[Owner]) \subseteq ReceiptsIn(memory'[Owner])
  BY <1>0, MemoryKept
<1>2. RequestsIn(memory[Owner]) \subseteq RequestsIn(memory'[Owner])
  BY <1>1 DEF RequestsIn
<1>3. ASSUME NEW r \in Request, phase'[r] = "reporting" PROVE r \in RequestsIn(memory'[Owner])
  <2>1. CASE phase[r] = "reporting"
    BY <1>0, <1>2, <2>1 DEF Ended
  <2>2. CASE active = r /\ (Settle \/ SettleBlocked)
    <3>1. \E a \in OpenIn(memory[Owner]) : a.request = r
      BY <2>2 DEF Settle, SettleBlocked, Report
    <3>2. OpenIn(memory[Owner]) \subseteq ReceiptsIn(memory[Owner])
      BY DEF OpenIn
    <3> QED BY <1>2, <3>1, <3>2 DEF RequestsIn
  <2> QED BY <1>0, <1>3, <2>1, <2>2, PhaseSteps
<1>4. ASSUME NEW r \in Request, phase'[r] = "done"
      PROVE  /\ op'[r] \notin {"none", "open"}
             /\ \E t \in ReceiptsIn(memory'[Owner]) : t.kind = "terminal" /\ t.request = r
  <2>1. CASE phase[r] = "done" /\ op'[r] = op[r]
    BY <1>0, <1>1, <2>1 DEF Ended
  <2>2. CASE active = r /\ Finish
    <3>1. /\ phase[r] = "reporting" /\ op' = op /\ memory' = memory
          /\ ~\E a \in OpenIn(memory[Owner]) : a.request = r
      BY <1>0, <1>4, <2>2 DEF Finish, Leave, accessVars, InvocationInv, InvocationTypeOK
    <3>2. PICK rc \in ReceiptsIn(memory[Owner]) : rc.request = r
      BY <1>0, <3>1 DEF Ended, RequestsIn
    <3>3. rc.kind \in {"authorization", "terminal"}
      BY <1>0, OwnTypes, ReceiptKinds
    <3>4. PICK t \in ReceiptsIn(memory[Owner]) : t.kind = "terminal" /\ t.request = r
      BY <3>1, <3>2, <3>3 DEF OpenIn
    <3>5. t \in reported
      BY <1>0, <3>4, OwnTypes DEF ReceiptSound
    <3>6. op[r] \notin {"none", "open"}
      BY <1>0, <3>4, <3>5 DEF ReceiptSound
    <3> QED BY <3>1, <3>4, <3>6
  <2> QED BY <1>0, <1>4, <2>1, <2>2, PhaseSteps
<1> DEFINE Early == {"new", "queued", "discovering"}
<1>5. adapter' # "absent" => \/ adapter # "absent"
                             \/ \E r \in Request : phase'[r] = "deciding"
  <2>0. /\ queue \in Seq(Request) /\ phase \in [Request -> Phase \cup {"discovering"}]
    BY <1>0 DEF InvocationInv, InvocationTypeOK
  <2>1. ASSUME ~ControlStep PROVE adapter' = adapter \/ Terminated \/ Start
    <3>1. ASSUME UNCHANGED proxyVars \/ UNCHANGED vars \/ UNCHANGED svars PROVE adapter' = adapter
      BY <3>1 DEF proxyVars, vars, svars
    <3> QED
      BY <2>1, <3>1, OtherCases
         DEF Refuse, Decide, NotPersisted, SessionDispatch,
             Dispatch, NotDispatched, Settle, SettleBlocked, SettleThrows, Finish, Data, GiveUp,
             ExitEvent, StdinError, Drained, FinalizeAccess, CloseThrows,
             SessionClosed, Closed, SessionInterrupt, Interrupt, Close, Invoke, ChildReplies,
             ChildAnswers, ChildIgnores, ChildExits, ChildControls, ChildUpgrades, ChildNotifies
  <2>2. Terminated => adapter # "absent" \/ adapter' = adapter
    BY DEF Terminated
  <2>3. Start => adapter' = adapter \/ \E r \in Request : phase'[r] = "deciding"
    <3>1. ASSUME Start PROVE Head(queue) \in Request
      BY <2>0, <3>1, QueueSteps DEF Start
    <3> QED BY <2>0, <3>1 DEF Start
  <2>4. ASSUME SessionStart \/ ControlSend \/ ControlRefused \/ ControlLost PROVE adapter' = adapter
    BY <2>4 DEF SessionStart, NeedsListing, ControlSend, ControlRefused, ControlLost
  <2>5. ASSUME SessionData
        PROVE  adapter' = adapter \/ \E r \in Request : phase'[r] = "deciding"
    <3>1. PICK n \in 1 .. Len(stdout) :
            LET e == Event(buffer \o SubSeq(stdout, 1, n))
            IN  IF pending = "control" THEN SessionControlData(e) ELSE SessionCallData(e)
      BY <2>5 DEF SessionData
    <3> DEFINE e == Event(buffer \o SubSeq(stdout, 1, n))
    <3>2. SessionControlData(e) \/ SessionCallData(e)
      BY <3>1
    <3> HIDE DEF e
    <3> QED BY <2>0, <3>2 DEF SessionControlData, SessionCallData, Discovering
  <2> QED BY <2>1, <2>2, <2>3, <2>4, <2>5 DEF ControlStep
<1>6. adapter' # "absent" => \E r \in Request : phase'[r] \notin Early
  <2>1. ASSUME adapter # "absent" PROVE \E r \in Request : phase'[r] \notin Early
    <3>1. PICK r \in Request : phase[r] \notin Early
      BY <1>0, <2>1 DEF Ended
    <3> QED BY <1>0, <3>1, PhaseSteps
  <2> QED BY <1>5, <2>1
<1> QED BY <1>3, <1>4, <1>6 DEF Ended

\* The owner's finalize publishes, and returns, if no write fails.
LEMMA SealingStep ==
  ASSUME InvocationInv, Sealing, Move
  PROVE  Sealing'
<1>0. /\ IInv /\ TypeOK /\ CallSound /\ Inherited /\ InvocationTypeOK /\ OneActive /\ OperationSound
      /\ CloseSound /\ Owner \in Process
  BY OwnerIs DEF InvocationInv, IInv
<1> SUFFICES ASSUME ~Overlap, faults' = 0, Running(Owner)'
             PROVE  /\ bundle' = None \/ call'[Owner].stage = "syncdir"
                    /\ closing' = "finalizing" => call'[Owner].stage \in {"link", "syncdir"}
  BY DEF Sealing
<1> DEFINE Goal == /\ bundle' = None \/ call'[Owner].stage = "syncdir"
                   /\ closing' = "finalizing" => call'[Owner].stage \in {"link", "syncdir"}
<1>1. /\ faults = 0 /\ Running(Owner)
      /\ bundle = None \/ call[Owner].stage = "syncdir"
      /\ closing = "finalizing" => call[Owner].stage \in {"link", "syncdir"}
  BY <1>0, MemoryKept, ProxyMemory DEF Sealing
<1>2. \A p \in Process : Running(p) => p = Owner
  BY <1>0, <1>1 DEF Inherited
<1>3. CASE AccessStep /\ UNCHANGED <<proxyVars, childVars>>
  <2>1. closing' = closing
    BY <1>3 DEF proxyVars
  <2>2. \A p \in Process : call[p].stage # "idle" => p = Owner
    BY <1>0, <1>2 DEF CallSound
  <2>3. ASSUME Write(Owner) \/ Sync(Owner) PROVE Goal
    BY <1>0, <1>1, <2>1, <2>3 DEF Write, Sync, TypeOK
  <2>4. ASSUME Link(Owner) PROVE Goal
    <3>1. call'[Owner].stage = "syncdir"
      BY <1>0, <2>4 DEF Link, TypeOK
    <3> QED BY <3>1
  <2>5. ~LinkRefused(Owner)
    BY <1>1 DEF LinkRefused, MayLink
  <2>6. ~SyncDirectory(Owner)
    BY <1>0 DEF SyncDirectory, TypeOK, Running
  <2>7. ASSUME NEW p \in Process, Progress(p) PROVE Goal
    <3>1. p = Owner
      BY <2>2, <2>7 DEF Progress, Write, Sync, Link, LinkRefused, SyncDirectory
    <3> QED BY <2>3, <2>4, <2>5, <2>6, <2>7, <3>1 DEF Progress
  <2>8. ASSUME NEW p \in Process, WriteFails(p) PROVE FALSE
    <3>1. faults' = faults + 1
      BY <2>8 DEF WriteFails
    <3> QED BY <1>1, <3>1
  <2>9. ASSUME NEW p \in Process, Kill(p) PROVE FALSE
    <3>1. p = Owner
      BY <1>2, <2>9 DEF Kill
    <3> QED BY <1>0, <2>9, <3>1 DEF Kill, TypeOK, Running
  <2>10. ASSUME NEW p \in Recoverer, Recovery(p) PROVE FALSE
    <3>1. p \in Process /\ p # Owner
      BY OwnerIs
    <3> QED BY <1>0, <1>1, <1>2, <2>10, <3>1 DEF Recovery, Recover, Synthesize, Propose, Finalize
  <2>11. ~HostCrash
    BY <1>0 DEF HostCrash, Running
  <2> QED BY <1>3, <2>7, <2>8, <2>9, <2>10, <2>11 DEF AccessStep
<1>4. CASE FinalizeAccess
  BY <1>0, <1>1, <1>4 DEF FinalizeAccess, Finalize, TypeOK, Idle, fileVars
<1>5. ASSUME NEW rc, Asks(rc), closing' = closing PROVE Goal
  BY <1>0, <1>1, <1>5 DEF Asks, fileVars, Idle
<1>6. CASE \/ Settle \/ SettleBlocked \/ \E decision \in {"allowed", "blocked"} : Decide(decision)
  BY <1>0, <1>5, <1>6, DecideAsks, SettleAsks DEF Settle, SettleBlocked, Decide
<1>7. CASE \/ Turn \/ Quiet \/ Refuse \/ NotPersisted \/ Dispatch \/ NotDispatched
           \/ SettleThrows \/ Finish \/ \E r \in Request : Invoke(r)
  <2>1. UNCHANGED <<bundle, call>>
    BY <1>7 DEF Turn, Quiet, Refuse, NotPersisted, Dispatch, NotDispatched, SettleThrows, Finish,
       Invoke, accessVars, fileVars
  <2>2. closing' = "finalizing" => closing = "finalizing" \/ FinalizeAccess
    BY DEF Move, Closes
  <2> QED BY <1>1, <1>4, <2>1, <2>2
<1> QED BY <1>3, <1>4, <1>6, <1>7 DEF Move

\* With nothing active an operation that is begun but not ended belongs to a call that threw.
LEMMA LeftOpen ==
  ASSUME InvocationInv, Ended, active = None, NEW r \in Request, phase[r] # "threw"
  PROVE  /\ phase[r] # "done" => op[r] = "none" /\ phase[r] \in {"new", "queued", "discovering"}
         /\ phase[r] = "done" => op[r] \notin {"none", "open"}
         /\ r \notin {a.request : a \in OpenIn(memory[Owner])}
<1>0. /\ OneActive /\ OperationSound /\ ReceiptSound /\ TypeOK /\ CallSound /\ None \notin Request
      /\ phase[r] \in Phase \cup {"discovering"}
  BY ProxyAssumption DEF InvocationInv, InvocationTypeOK, IInv
<1>1. phase[r] \notin {"deciding", "authorizing", "waiting", "settling", "reporting"}
  BY <1>0 DEF OneActive
<1>2. phase[r] # "done" => op[r] = "none" /\ phase[r] \in {"new", "queued", "discovering"}
  BY <1>0, <1>1 DEF OperationSound, Begun, Phase
<1>3. phase[r] = "done" => op[r] \notin {"none", "open"}
  BY DEF Ended
<1>4. ASSUME NEW a \in OpenIn(memory[Owner]), a.request = r PROVE FALSE
  <2>1. a \in ReceiptsIn(memory[Owner]) /\ a.kind = "authorization"
        /\ \A t \in ReceiptsIn(memory[Owner]) : t.kind = "terminal" => t.request # r
    BY <1>4 DEF OpenIn
  <2>2. op[r] # "none"
    BY <1>0, <1>4, <2>1, OwnTypes DEF ReceiptSound
  <2>3. phase[r] = "done"
    BY <1>2, <2>2
  <2> QED BY <2>1, <2>3 DEF Ended
<1> QED BY <1>2, <1>3, <1>4

\* Close fails only for a reason that stays.
LEMMA CloseSucceedsStep ==
  ASSUME SessionIInv, [SessionNext]_svars, ~Overlap
  PROVE  CloseSucceeds'
<1>0. /\ InvocationInv /\ Move /\ Ended /\ CloseSucceeds /\ CloseSound /\ ControlSound /\ Sealing
      /\ SessionTypeOK /\ version \in {1, 2}
  BY SessionMoves DEF SessionIInv, InvocationInv, SessionTypeOK
<1> SUFFICES ASSUME closing' = "failed", faults' = 0
             PROVE  \/ \E r \in Request : phase'[r] = "threw"
                    \/ version' = 2 /\ (~Started' \/ Full')
  BY DEF CloseSucceeds
<1> DEFINE Goal == \/ \E r \in Request : phase'[r] = "threw"
                   \/ version' = 2 /\ (~Started' \/ Full')
<1>1. faults = 0
  BY <1>0, MemoryKept
<1>2. ASSUME NEW r \in Request, phase[r] = "threw" PROVE Goal
  BY <1>0, <1>2, PhaseSteps
<1>3. ASSUME closing = "failed" PROVE Goal
  <2>1. control = "none" /\ pending # "control"
    BY <1>0, <1>3 DEF ControlSound
  <2>2. version' = version /\ stage' = stage /\ (Full => Full')
    <3>1. CASE ~ControlStep
      BY <3>1, OtherEffect
    <3>2. ~ControlSend /\ ~ControlRefused /\ ~ControlLost
      BY <2>1 DEF ControlSend, ControlRefused, ControlLost
    <3>3. CASE SessionStart
      BY <3>3 DEF SessionStart, Full
    <3>4. CASE SessionData
      <4>1. PICK n \in 1 .. Len(stdout) : SessionCallData(Event(buffer \o SubSeq(stdout, 1, n)))
        BY <2>1, <3>4 DEF SessionData
      <4>2. rows \in Nat /\ buffer \o SubSeq(stdout, 1, n) \in Seq(Line)
        BY <1>0, EventLines DEF SessionTypeOK
      <4>3. version' = version /\ stage' = stage
            /\ rows' = Event(buffer \o SubSeq(stdout, 1, n)).rows
        BY <3>4, <4>1 DEF SessionData, SessionCallData
      <4> QED BY <4>2, <4>3, EventRows DEF Full
    <3> QED BY <3>1, <3>2, <3>3, <3>4 DEF ControlStep
  <2>3. (\E r \in Request : phase[r] = "threw") \/ (version = 2 /\ (~Started \/ Full))
    BY <1>0, <1>1, <1>3 DEF CloseSucceeds
  <2> QED BY <1>2, <2>2, <2>3 DEF Started
<1>4. ASSUME closing # "failed" PROVE Terminated \/ CloseThrows \/ SessionClosed
  <2>1. CASE ControlStep
    <3>1. closing' \in {closing, "draining"}
      BY <2>1 DEF ControlStep, SessionStart, ControlSend, ControlRefused, ControlLost, SessionData,
         SessionThrows, SessionControlData, SessionCallData
    <3> QED BY <1>4, <3>1
  <2>2. CASE ~ControlStep
    <3>1. ASSUME UNCHANGED proxyVars \/ UNCHANGED vars \/ UNCHANGED svars PROVE closing' = closing
      BY <3>1 DEF proxyVars, vars, svars
    <3> QED
      BY <1>4, <2>2, <3>1, OtherCases
         DEF Start, Refuse, Decide, NotPersisted, SessionDispatch,
             Dispatch, NotDispatched, Settle, SettleBlocked, SettleThrows, Finish, Data, GiveUp,
             ExitEvent, StdinError, Drained, FinalizeAccess,
             SessionInterrupt, Interrupt, Close, Invoke, ChildReplies,
             ChildAnswers, ChildIgnores, ChildExits, ChildControls, ChildUpgrades, ChildNotifies
  <2> QED BY <2>1, <2>2
<1>5. ASSUME closing # "failed", Terminated PROVE Goal
  <2>1. active = None /\ closing = "terminating" /\ adapter # "absent"
        /\ ((\E r \in Request : op[r] = "open") \/ (\A r \in Request : op[r] = "none"))
    BY <1>0, <1>5 DEF Terminated, CloseSound
  <2>2. PICK r \in Request : phase[r] = "threw"
    <3>1. SUFFICES ASSUME \A r \in Request : phase[r] # "threw" PROVE FALSE
      OBVIOUS
    <3>2. \A r \in Request :
            /\ phase[r] # "done" => op[r] = "none" /\ phase[r] \in {"new", "queued", "discovering"}
            /\ phase[r] = "done" => op[r] \notin {"none", "open"}
      BY <1>0, <2>1, <3>1, LeftOpen
    <3>3. PICK r \in Request : phase[r] \notin {"new", "queued", "discovering"}
      BY <1>0, <2>1 DEF Ended
    <3> QED BY <2>1, <3>2, <3>3
  <2> QED BY <1>2, <2>2
<1>6. ASSUME closing # "failed", CloseThrows PROVE Goal
  <2>1. CASE closing = "finalizing"
    BY <1>0, <1>1, <1>6, <2>1 DEF CloseThrows, Free, Sealing, Idle
  <2>2. CASE closing = "access" /\ ~NothingOpen(Owner)
    <3>1. active = None
      BY <1>0, <2>2 DEF CloseSound
    <3>2. PICK a \in OpenIn(memory[Owner]) : TRUE
      BY <2>2 DEF NothingOpen
    <3>3. a.request \in Request
      BY <1>0, <3>2, OwnTypes, ReceiptKinds DEF OpenIn, InvocationInv, IInv
    <3>4. phase[a.request] = "threw"
      BY <1>0, <3>1, <3>2, <3>3, LeftOpen
    <3> QED BY <1>2, <3>3, <3>4
  <2> QED BY <1>6, <2>1, <2>2 DEF CloseThrows
<1>7. ASSUME SessionClosed PROVE Goal
  <2>1. version = 2 /\ Full
    BY <1>0, <1>7 DEF SessionClosed, Closed
  <2>2. UNCHANGED <<version, rows>>
    BY <1>7, <2>1 DEF SessionClosed
  <2> QED BY <2>1, <2>2 DEF Full
<1> QED BY <1>3, <1>4, <1>5, <1>6, <1>7

-----------------------------------------------------------------------------
(* What a session of either version is worth *)

LEMMA SessionInit_IInv == SessionInit => SessionIInv
<1> SUFFICES ASSUME SessionInit PROVE SessionIInv
  OBVIOUS
<1>1. InvocationInv
  BY ProxyInit_IInv, ProxyInvocations DEF SessionInit
<1>2. /\ stdin = <<>> /\ stdout = <<>> /\ buffer = <<>> /\ queue = <<>> /\ active = None
      /\ pending = None /\ closing = "no" /\ failed = FALSE /\ adapter = "absent"
      /\ bundle = None
      /\ \A r \in Request : phase[r] = "new" /\ ~written[r]
      /\ version \in {1, 2}
  BY SessionAssumption DEF SessionInit, ProxyInit, Init
<1>3. Discovering = {} /\ AskedAt = {} /\ ToldAt = {}
  BY <1>2 DEF Discovering, AskedAt, ToldAt
<1>4. SessionTypeOK
  <2>1. <<>> \in Seq(Request \cup {"control"}) /\ <<>> \in Seq(Line)
    OBVIOUS
  <2>2. InvocationTypeOK
    BY <1>1 DEF InvocationInv
  <2>3. /\ stage \in {"off", "initializing"} /\ control \in {"none", "checking"}
        /\ rows \in {0, 1}
    BY DEF SessionInit
  <2>4. failed \in BOOLEAN
    BY <1>2
  <2>5. /\ stdin \in Seq(Request \cup {"control"}) /\ stdout \in Seq(Line) /\ buffer \in Seq(Line)
        /\ pending \in Request \cup {None, "control"}
    BY <1>2, <2>1
  <2>6. version \in {1, 2}
    BY <1>2
  <2>7. /\ stage \in {"off", "initializing", "listing", "ready"}
        /\ control \in {"none", "checking", "sent"} /\ rows \in Nat
    BY <2>3
  <2> QED BY <2>2, <2>4, <2>5, <2>6, <2>7 DEF SessionTypeOK
<1>5. LinesAnswer /\ OneControl
  BY <1>2, <1>3 DEF LinesAnswer, OneControl
<1>6. ControlSound
  BY <1>2, <1>3, MessageNames DEF SessionInit, ControlSound, Started
<1>7. Pinned /\ Ended /\ Sealing /\ CloseSucceeds
  BY <1>2 DEF Pinned, Ended, Sealing, CloseSucceeds
<1> QED BY <1>1, <1>4, <1>5, <1>6, <1>7 DEF SessionIInv

\* The invariant of a session of either version, whatever the child says and when: one
\* control message on its way at most, a call let through only on a listing of its own,
\* and nothing left open but by a call that threw.
THEOREM SessionInvariance == SessionSpec => []SessionIInv
<1>1. SessionInit => SessionIInv
  BY SessionInit_IInv
<1>2. SessionIInv /\ [SessionNext]_svars => SessionIInv'
  <2> SUFFICES ASSUME SessionIInv, [SessionNext]_svars PROVE SessionIInv'
    OBVIOUS
  <2>1. InvocationInv'
    BY SessionMoves, InvocationStep DEF SessionIInv
  <2>2. SessionTypeOK'
    BY <2>1, SessionTypeStep DEF InvocationInv
  <2>3. LinesAnswer' /\ ControlSound' /\ OneControl' /\ Pinned'
    BY StreamStep, ControlSoundStep, OneControlStep, PinnedStep
  <2>4. Ended' /\ Sealing'
    BY SessionMoves, EndedStep, SealingStep DEF SessionIInv
  <2>5. ~Overlap => CloseSucceeds'
    BY CloseSucceedsStep
  <2> QED BY <2>1, <2>2, <2>3, <2>4, <2>5 DEF SessionIInv
<1> QED BY <1>1, <1>2, PTL DEF SessionSpec

\* In a version 2 session a call reaches the child only if, while that very call waited
\* for it, the child itself named the pinned tools.
THEOREM CallsArePinned == SessionSpec => []SessionCallIsPinned
<1>1. SessionIInv => SessionCallIsPinned
  BY DEF SessionIInv, Pinned, SessionCallIsPinned
<1> QED BY <1>1, SessionInvariance, PTL

\* Where recovery waits for the session to end, close fails only after a failed write, an
\* invocation that threw, a session that never opened, or with a full journal.
THEOREM ClosesSucceed ==
  ASSUME ~Overlap
  PROVE  SessionSpec => []CloseSucceeds
<1>1. SessionIInv => CloseSucceeds
  BY DEF SessionIInv
<1> QED BY <1>1, SessionInvariance, PTL

\* In either version what is dispatched is covered by the evidence, though a session that
\* fails may reject the call at any moment.
THEOREM SessionDispatchesAreCovered ==
  ASSUME ~Overlap
  PROVE  SessionSpec => []DispatchIsCovered
<1>1. SessionIInv => DispatchIsCovered
  BY CoversDispatches DEF SessionIInv
<1> QED BY <1>1, SessionInvariance, PTL

\* In either version a call that a bundle says completed was answered by the child, amid
\* control messages, pings and notifications.
THEOREM SessionCompletionsWereAnswered == SessionSpec => []CompletedWasAnswered
<1>1. SessionIInv => CompletedWasAnswered
  BY CreditsAnswers DEF SessionIInv
<1> QED BY <1>1, SessionInvariance, PTL

\* In either version the two bundles of a closed session tell the same story.
THEOREM SessionBundlesTellTheSame == SessionSpec => []BundlesAgree
<1>1. SessionIInv => BundlesAgree
  BY TellsTheSame DEF SessionIInv
<1> QED BY <1>1, SessionInvariance, PTL

\* A session that failed, by an interrupt, a refused listing or an unexpected message,
\* completes no call any more.
THEOREM SessionFailureIsFinal == SessionSpec => InterruptIsFinal
<1>1. SessionIInv /\ [SessionNext]_svars =>
        [\A r \in Request :
           failed /\ verdict[r] # "completed" => verdict'[r] # "completed"]_vars
  <2> SUFFICES ASSUME SessionIInv, [SessionNext]_svars, NEW r \in Request,
                      failed, verdict[r] # "completed"
               PROVE  verdict'[r] # "completed"
    OBVIOUS
  <2>1. verdict \in [Request -> {"none", "completed", "tool_failure"}]
    BY DEF SessionIInv, SessionTypeOK, InvocationTypeOK
  <2>2. \A line : Meaning(line) = "tool_failure"
    BY DEF Meaning
  <2>3. ASSUME UNCHANGED proxyVars \/ UNCHANGED vars \/ UNCHANGED svars PROVE verdict' = verdict
    BY <2>3 DEF proxyVars, vars, svars
  <2>4. CASE ~ControlStep
    BY <2>1, <2>2, <2>3, <2>4, OtherCases
       DEF RejectPending, Conclude, Start, Refuse, Decide, NotPersisted, SessionDispatch,
           Dispatch, NotDispatched, Settle, SettleBlocked, SettleThrows, Finish, Data, GiveUp,
           ExitEvent, StdinError, Drained, Terminated, FinalizeAccess, CloseThrows,
           SessionClosed, Closed, SessionInterrupt, Interrupt, Close, Invoke, ChildReplies,
           ChildAnswers, ChildIgnores, ChildExits, ChildControls, ChildUpgrades, ChildNotifies
  <2>5. CASE SessionStart \/ ControlSend \/ ControlRefused \/ ControlLost
    <3>1. verdict' = verdict
      BY <2>5 DEF SessionStart, ControlSend, ControlRefused, ControlLost
    <3> QED BY <3>1
  <2>6. CASE SessionData
    <3>1. PICK n \in 1 .. Len(stdout) :
            LET e == Event(buffer \o SubSeq(stdout, 1, n))
            IN  IF pending = "control" THEN SessionControlData(e) ELSE SessionCallData(e)
      BY <2>6 DEF SessionData
    <3> DEFINE e == Event(buffer \o SubSeq(stdout, 1, n))
    <3>2. SessionControlData(e) \/ SessionCallData(e)
      BY <3>1
    <3>3. Resumed(e) = "tool_failure"
      BY DEF Resumed
    <3> HIDE DEF e
    <3> QED BY <2>1, <3>2, <3>3 DEF SessionControlData, SessionCallData
  <2> QED BY <2>4, <2>5, <2>6 DEF ControlStep
<1> QED BY <1>1, SessionInvariance, PTL DEF SessionSpec, InterruptIsFinal
=============================================================================
