----------------------------- MODULE LogProofs ------------------------------
(***************************************************************************)
(* Proofs about Log for every set of processes, blocks and contents and    *)
(* every log size: the inductive invariant LogInv, step by step, its       *)
(* consequences, and that the log implements AtomicDisk.                   *)
(***************************************************************************)
EXTENDS Log, FiniteSetTheorems, TLAPS

-----------------------------------------------------------------------------
(* Power-on, crashes, begin_op(), log_write() and end_op() *)

\* Everything is as it must be when the machine is first switched on.
LEMMA InitInv == Init => LogInv
<1> SUFFICES ASSUME Init PROVE LogInv
  BY Zenon
<1> USE LogAssumption DEF LogAssumption, Init
<1>1. StateType
  BY DEF StateType, Phases, Slots
<1>2. FlagType
  BY Zenon DEF FlagType
<1>3. PhaseInv
  BY DEF PhaseInv, Distinct
<1>4. CountInv
  <2>1. Active = {}
    BY Zenon DEF Active
  <2>2. Cardinality(Active) = 0
    BY <2>1, FS_EmptySet, Zenon
  <2>. QED BY <2>2, Zenon DEF CountInv, NoLostWakeup
<1>5. PinInv
  BY DEF PinInv
<1>6. DataInv
  BY Zenon DEF DataInv
<1>. QED BY <1>1, <1>2, <1>3, <1>4, <1>5, <1>6, Zenon DEF LogInv, TypeOK

\* A crash forgets everything but the disk.
LEMMA CrashInv == LogInv /\ Crash => LogInv'
<1> SUFFICES ASSUME LogInv, Crash PROVE LogInv'
  BY Zenon
<1> USE LogAssumption DEF LogAssumption, Crash, PowerOn, diskVars, LogInv, TypeOK
<1>1. StateType'
  BY DEF StateType, Phases, Slots
<1>2. FlagType'
  BY Zenon DEF FlagType
<1>3. PhaseInv'
  BY DEF PhaseInv, Distinct
<1>4. CountInv'
  <2>1. Active' = {}
    BY Zenon DEF Active
  <2>2. Cardinality(Active') = 0
    BY <2>1, FS_EmptySet, Zenon
  <2>. QED BY <2>2, Zenon DEF CountInv, NoLostWakeup, Active
<1>5. PinInv'
  BY DEF PinInv
<1>6. DataInv'
  BY Zenon DEF DataInv
<1>. QED BY <1>1, <1>2, <1>3, <1>4, <1>5, <1>6, Zenon

\* Facts about the set of operations in progress.
LEMMA ActiveFinite == IsFiniteSet(Active) /\ Cardinality(Active) \in Nat
<1>1. Active \subseteq Procs
  BY Zenon DEF Active
<1>. QED BY <1>1, LogAssumption, FS_Subset, FS_CardinalityType, Zenon DEF LogAssumption

\* begin_op() joins the open transaction, or sleeps while it is full or committing.
LEMMA BeginInv == ASSUME NEW p \in Procs, LogInv, begin_op(p) PROVE LogInv'
<1> USE LogAssumption DEF LogAssumption, begin_op, Running, LogInv, TypeOK, diskVars, ctlVars
<1>1. StateType'
  BY DEF StateType, Phases, Slots
<1>2. FlagType'
  BY Zenon DEF FlagType
<1>3. PhaseInv'
  BY DEF PhaseInv, Distinct
<1>4. CountInv'
  <2>1. CASE committing \/ LogFull
    <3>1. Active' = Active
      BY <2>1, Zenon DEF Active, StateType
    <3>2. CASE ~committing
      <4>1. phase = "idle"
        BY <3>2, Zenon DEF PhaseInv
      <4>2. outstanding > 0
        BY <2>1, <3>2, <4>1 DEF LogFull, CountInv, StateType
      <4>. QED BY <2>1, <3>1, <4>2, Zenon DEF CountInv, NoLostWakeup
    <3>3. CASE committing
      BY <2>1, <3>1, <3>3, Zenon DEF CountInv, NoLostWakeup
    <3>. QED BY <3>2, <3>3, Zenon
  <2>2. CASE ~(committing \/ LogFull)
    <3>1. Active' = Active \cup {p} /\ p \notin Active
      BY <2>2 DEF Active, StateType
    <3>2. Cardinality(Active') = Cardinality(Active) + 1
      BY <3>1, ActiveFinite, FS_AddElement, Zenon
    <3>. QED BY <2>2, <3>2 DEF CountInv, NoLostWakeup, StateType
  <2>. QED BY <2>1, <2>2, Zenon
<1>5. PinInv'
  BY Zenon DEF PinInv
<1>6. DataInv'
  BY Zenon DEF DataInv
<1>. QED BY <1>1, <1>2, <1>3, <1>4, <1>5, <1>6, Zenon

\* A panic stops the machine as it is.
LEMMA PanicInv == ASSUME LogInv, Running, Panic PROVE LogInv'
<1> USE DEF Panic, Running, LogInv, TypeOK, diskVars, memVars
<1>1. StateType' /\ CountInv' /\ PinInv' /\ DataInv'
  <2>1. StateType'
    BY Zenon DEF StateType
  <2>2. CountInv'
    BY Zenon DEF CountInv, NoLostWakeup, Active
  <2>3. PinInv' /\ DataInv'
    BY Zenon DEF PinInv, DataInv
  <2>. QED BY <2>1, <2>2, <2>3, Zenon
<1>2. FlagType'
  BY Zenon DEF FlagType
<1>3. PhaseInv'
  BY DEF PhaseInv, Distinct
<1>. QED BY <1>1, <1>2, <1>3, Zenon

\* Logging a block that is not in the log yet.
LEMMA AppendNew ==
  ASSUME NEW S, NEW s \in Seq(S), NEW e \in S, Distinct(s), e \notin Logged(s)
  PROVE  LET t == Append(s, e) IN
         /\ t \in Seq(S)
         /\ Len(t) = Len(s) + 1
         /\ \A i \in 1 .. Len(s) : t[i] = s[i] /\ t[i] # e
         /\ t[Len(s) + 1] = e
         /\ Distinct(t)
<1> DEFINE t == Append(s, e)
<1>1. /\ t \in Seq(S)
      /\ Len(t) = Len(s) + 1
      /\ \A i \in 1 .. Len(s) : t[i] = s[i]
      /\ t[Len(s) + 1] = e
      /\ Len(s) \in Nat
  OBVIOUS
<1> HIDE DEF t
<1>2. \A i \in 1 .. Len(s) : t[i] # e
  BY <1>1, Zenon DEF Logged
<1>3. Distinct(t)
  <2> SUFFICES ASSUME NEW i \in 1 .. Len(t), NEW j \in 1 .. Len(t), t[i] = t[j] PROVE i = j
    BY Zenon DEF Distinct
  <2>1. CASE i = Len(s) + 1
    BY <1>1, <1>2, <2>1
  <2>2. CASE j = Len(s) + 1
    BY <1>1, <1>2, <2>2
  <2>3. CASE i \in 1 .. Len(s) /\ j \in 1 .. Len(s)
    <3>1. s[i] = s[j]
      BY <1>1, <2>3, Zenon
    <3>. QED BY <2>3, <3>1, Zenon DEF Distinct
  <2>. QED BY <1>1, <2>1, <2>2, <2>3
<1>. QED BY <1>1, <1>2, <1>3, Zenon DEF t

\* Between commits the pinned blocks are the logged ones.
LEMMA IdlePinned ==
  ASSUME PinInv, phase = "idle", ~recovering, NEW c \in Blocks
  PROVE  pin[c] = 1 <=> \E i \in 1 .. Len(lh) : lh[i] = c
<1>1. pin[c] = 1 <=> /\ ~recovering /\ phase # "clear"
                     /\ \E i \in 1 .. Len(lh) : lh[i] = c /\ (phase = "install_trans" => i > tail)
  BY ONLY PinInv, c \in Blocks DEF PinInv
<1>2. phase # "clear" /\ phase # "install_trans"
  BY Zenon
<1>. QED BY <1>1, <1>2, Zenon

\* log_write() pins a block and logs it once.
LEMMA LogWriteInv ==
  ASSUME NEW p \in Procs, NEW b \in Blocks, NEW v \in Vals, LogInv, log_write(p, b, v)
  PROVE  LogInv'
<1> USE LogAssumption DEF LogAssumption, LogInv, TypeOK, diskVars, ctlVars
<1>1. CASE Len(lh) >= LOGSIZE \/ Len(lh) >= NLog - 1 \/ outstanding < 1
  BY <1>1, PanicInv, Zenon DEF log_write
<1>2. CASE ~(Len(lh) >= LOGSIZE \/ Len(lh) >= NLog - 1 \/ outstanding < 1)
  <2> USE <1>2 DEF log_write, Running
  <2>0. phase = "idle" /\ ~committing /\ ~recovering /\ head = <<>>
    BY DEF PhaseInv, CountInv, StateType
  <2>1. CASE b \in Logged(lh)
    <3> USE <2>1
    <3>1. lh' = lh /\ pin' = pin /\ pin[b] = 1
      BY <2>0, Zenon DEF PinInv, Logged
    <3>2. StateType'
      <4>1. /\ cache' = [cache EXCEPT ![b] = v]
            /\ wrote' = [wrote EXCEPT ![p] = @ \cup {b}]
            /\ UNCHANGED <<diskVars, outstanding, committing, pc, ctlVars>>
        BY Zenon
      <4>. HIDE DEF log_write
      <4>. QED BY <3>1, <4>1, Zenon DEF StateType
    <3>3. FlagType'
      BY Zenon DEF FlagType
    <3>4. PhaseInv'
      BY <2>0, Zenon DEF PhaseInv, Distinct
    <3>5. CountInv'
      BY <2>0, Zenon DEF CountInv, NoLostWakeup, Active
    <3>6. PinInv'
      BY <2>0, <3>1, Zenon DEF PinInv
    <3>7. DataInv'
      BY <2>0, <3>1 DEF DataInv, StateType
    <3>. QED BY <3>2, <3>3, <3>4, <3>5, <3>6, <3>7, Zenon
  <2>2. CASE b \notin Logged(lh)
    <3> USE <2>2
    <3>1. /\ lh' \in Seq(Blocks)
          /\ Len(lh') = Len(lh) + 1
          /\ \A i \in 1 .. Len(lh) : lh'[i] = lh[i] /\ lh'[i] # b
          /\ lh'[Len(lh) + 1] = b
          /\ Distinct(lh')
      <4>1. lh' = Append(lh, b) /\ lh \in Seq(Blocks) /\ Distinct(lh)
        BY Zenon DEF StateType, PhaseInv
      <4>. HIDE DEF log_write, LogInv
      <4>2. b \notin Logged(lh)
        BY <2>2, Zenon
      <4>3. LET t == Append(lh, b) IN
            /\ t \in Seq(Blocks)
            /\ Len(t) = Len(lh) + 1
            /\ \A i \in 1 .. Len(lh) : t[i] = lh[i] /\ t[i] # b
            /\ t[Len(lh) + 1] = b
            /\ Distinct(t)
        BY ONLY b \in Blocks, <4>1, <4>2, AppendNew, SMTT(30)
      <4>. QED BY ONLY <4>1, <4>3
    <3>2. pin[b] = 0 /\ pin' = [pin EXCEPT ![b] = 1]
      <4>1. PinInv /\ pin \in [Blocks -> {0, 1}] /\ pin' = [pin EXCEPT ![b] = @ + 1]
        BY <2>0, <2>2, Zenon DEF StateType
      <4>2. b \notin Logged(lh)
        BY <2>2, Zenon
      <4>3. pin[b] = 0
        <5>1. ~ \E i \in 1 .. Len(lh) : lh[i] = b
          BY <4>2, Zenon DEF Logged
        <5>2. pin[b] # 1 /\ pin[b] \in {0, 1}
          BY ONLY b \in Blocks, <4>1, <5>1, Zenon DEF PinInv
        <5>. QED BY ONLY <5>2, Zenon
      <4>4. 0 + 1 = 1
        BY ONLY TRUE
      <4>. QED BY <4>1, <4>3, <4>4, Zenon
    <3> HIDE DEF log_write
    <3>3. /\ cache' = [cache EXCEPT ![b] = v]
          /\ wrote' = [wrote EXCEPT ![p] = @ \cup {b}]
          /\ UNCHANGED <<diskVars, outstanding, committing, pc, ctlVars>>
          /\ pc[p] = "in"
      BY Zenon DEF log_write
    <3>4. StateType'
      <4>1. /\ cache' \in [Blocks -> Vals \cup {NoBuf}]
            /\ pin' \in [Blocks -> {0, 1}]
            /\ wrote' \in [Procs -> SUBSET Blocks]
        BY <3>2, <3>3, Zenon DEF StateType
      <4>2. lh' \in Seq(Blocks) /\ Len(lh') <= NLog - 1
        BY <2>0, <3>1 DEF StateType
      <4>. QED BY <3>3, <4>1, <4>2, SMTT(30) DEF StateType
    <3>5. FlagType'
      BY <3>3, Zenon DEF FlagType
    <3>6. PhaseInv'
      <4>1. Distinct(head')
        BY <3>3 DEF PhaseInv, Distinct
      <4>. QED BY <2>0, <3>1, <3>3, <4>1, Zenon DEF PhaseInv
    <3>7. CountInv'
      <4>1. outstanding > 0
        BY <1>2 DEF StateType
      <4>. QED BY <2>0, <3>3, <4>1 DEF CountInv, NoLostWakeup, Active
    <3>8. PinInv'
      <4> SUFFICES ASSUME NEW c \in Blocks
                   PROVE  pin'[c] = 1 <=> \E i \in 1 .. Len(lh') : lh'[i] = c
        BY <2>0, <3>3, SMTT(30) DEF PinInv
      <4>1. pin[c] = 1 <=> \E i \in 1 .. Len(lh) : lh[i] = c
        BY ONLY c \in Blocks, PinInv, <2>0, IdlePinned
      <4>2. CASE c = b
        <5>1. Len(lh) \in Nat /\ pin \in [Blocks -> {0, 1}]
          BY DEF StateType
        <5>2. Len(lh) + 1 \in 1 .. Len(lh') /\ lh'[Len(lh) + 1] = c
          BY ONLY <3>1, <4>2, <5>1
        <5>3. pin'[c] = 1
          BY ONLY b \in Blocks, <3>2, <4>2, <5>1
        <5>. QED BY ONLY <5>2, <5>3
      <4>3. CASE c # b
        <5>1. pin'[c] = pin[c]
          BY <3>2, <4>3, Zenon DEF StateType
        <5>2. Len(lh) \in Nat
          BY DEF StateType
        <5>3. ASSUME NEW i \in 1 .. Len(lh'), lh'[i] = c PROVE i \in 1 .. Len(lh) /\ lh[i] = c
          BY <3>1, <4>3, <5>2, <5>3
        <5>4. ASSUME NEW i \in 1 .. Len(lh), lh[i] = c PROVE i \in 1 .. Len(lh') /\ lh'[i] = c
          BY ONLY i \in 1 .. Len(lh), <3>1, <5>2, <5>4
        <5>. QED BY ONLY <4>1, <5>1, <5>3, <5>4
      <4>. QED BY ONLY <4>2, <4>3
    <3>9. DataInv'
      <4>1. /\ phase' = "idle" /\ home' = home /\ v # NoBuf
            /\ cache \in [Blocks -> Vals \cup {NoBuf}] /\ pin \in [Blocks -> {0, 1}]
        BY <2>0, <3>3, Zenon DEF StateType
      <4>2. ASSUME NEW c \in Blocks
            PROVE  IF pin'[c] = 0 THEN cache'[c] \in {NoBuf, home'[c]} ELSE cache'[c] # NoBuf
        <5>1. CASE c = b
          BY ONLY b \in Blocks, <3>2, <3>3, <4>1, <5>1
        <5>2. CASE c # b
          <6>1. pin'[c] = pin[c] /\ cache'[c] = cache[c]
            BY ONLY c \in Blocks, <3>2, <3>3, <4>1, <5>2
          <6>2. IF pin[c] = 0 THEN cache[c] \in {NoBuf, home[c]} ELSE cache[c] # NoBuf
            BY ONLY DataInv, c \in Blocks DEF DataInv
          <6>. QED BY ONLY <4>1, <6>1, <6>2
        <5>. QED BY ONLY <5>1, <5>2
      <4>. QED BY ONLY <4>1, <4>2 DEF DataInv
    <3>. QED BY <3>4, <3>5, <3>6, <3>7, <3>8, <3>9, Zenon
  <2>. QED BY <2>1, <2>2, Zenon
<1>. QED BY <1>1, <1>2, Zenon

\* end_op() leaves the transaction, and starts the commit when it is the last.
LEMMA EndOpInv == ASSUME NEW p \in Procs, LogInv, end_op(p) PROVE LogInv'
<1> USE LogAssumption DEF LogAssumption, LogInv, TypeOK, diskVars
<1>1. CASE committing
  BY <1>1, PanicInv, Zenon DEF end_op
<1>2. CASE ~committing
  <2> USE <1>2 DEF end_op, Running
  <2>0. phase = "idle" /\ ~recovering /\ head = <<>> /\ tail = 0
    BY Zenon DEF PhaseInv
  <2>1. Active' = Active \ {p} /\ p \in Active
    BY Zenon DEF Active, StateType, WakeAll
  <2>2. Cardinality(Active') = outstanding - 1 /\ outstanding > 0
    BY <2>1, ActiveFinite, FS_RemoveElement, FS_EmptySet DEF CountInv
  <2>3. StateType'
    <3>1. pc' \in [Procs -> {"out", "begin", "sleep", "in", "commit"}]
      BY Zenon DEF StateType, WakeAll
    <3>2. phase' \in Phases
      BY Zenon DEF StateType, Phases
    <3>3. /\ outstanding' = outstanding - 1
          /\ UNCHANGED <<home, head, logblk, cache, pin, lh, tail>>
      BY Zenon DEF StateType
    <3>4. wrote' \in [Procs -> SUBSET Blocks]
      BY Zenon DEF StateType
    <3>. HIDE DEF end_op
    <3>. QED BY <2>2, <3>1, <3>2, <3>3, <3>4 DEF StateType
  <2>4. FlagType'
    BY Zenon DEF FlagType
  <2>5. PhaseInv'
    BY <2>0 DEF PhaseInv, Distinct, StateType
  <2>6. CountInv'
    <3>1. CASE outstanding = 1
      BY <2>2, <3>1 DEF CountInv, NoLostWakeup, StateType
    <3>2. CASE outstanding # 1
      BY <2>0, <2>2, <3>2 DEF CountInv, NoLostWakeup, StateType, WakeAll
    <3>. QED BY <3>1, <3>2, Zenon
  <2>7. PinInv'
    BY <2>0 DEF PinInv, StateType
  <2>8. DataInv'
    BY <2>0 DEF DataInv, StateType
  <2>. QED BY <2>3, <2>4, <2>5, <2>6, <2>7, <2>8, Zenon
<1>. QED BY <1>1, <1>2, Zenon

\* The end of a commit lets the sleepers in.
LEMMA EndCommitInv == ASSUME NEW p \in Procs, LogInv, end_commit(p) PROVE LogInv'
<1> USE LogAssumption DEF LogAssumption, LogInv, TypeOK, diskVars, end_commit, Running
<1>1. StateType'
  BY Zenon DEF StateType, Phases, WakeAll
<1>2. FlagType'
  BY Zenon DEF FlagType
<1>3. PhaseInv'
  BY DEF PhaseInv, Distinct
<1>4. CountInv'
  <2>1. Active' = Active
    BY Zenon DEF Active, StateType, WakeAll
  <2>2. \A q \in Procs : pc'[q] # "sleep"
    BY Zenon DEF StateType, WakeAll
  <2>3. lh = <<>>
    BY Zenon DEF PhaseInv
  <2>. QED BY <2>1, <2>2, <2>3, Zenon DEF CountInv, NoLostWakeup
<1>5. PinInv'
  BY Zenon DEF PinInv, PhaseInv
<1>6. DataInv'
  BY Zenon DEF DataInv, PhaseInv
<1>. QED BY <1>1, <1>2, <1>3, <1>4, <1>5, <1>6, Zenon

-----------------------------------------------------------------------------
(* commit() and recovery, one block or header at a time *)

\* write_log() copies a pinned block to its place in the log.
LEMMA WriteLogInv == LogInv /\ write_log => LogInv'
<1> SUFFICES ASSUME LogInv, write_log PROVE LogInv'
  BY Zenon
<1> USE LogAssumption DEF LogAssumption, LogInv, TypeOK, write_log
<1> DEFINE b == lh[tail + 1]
<1>0. /\ tail + 1 \in 1 .. Len(lh) /\ tail + 1 \in Slots
      /\ b \in Blocks
      /\ ~recovering /\ committing
  BY DEF PhaseInv, StateType, Slots
<1>1. pin[b] = 1 /\ cache[b] # NoBuf /\ cache' = cache
  BY <1>0 DEF PinInv, DataInv, StateType, bread
<1>2. logblk' = [logblk EXCEPT ![tail + 1] = cache[b]] /\ cache[b] \in Vals
  BY <1>0, <1>1 DEF bread, StateType
<1>3. StateType'
  BY <1>0, <1>1, <1>2 DEF StateType, Iterate, Phases
<1>4. FlagType'
  BY Zenon DEF FlagType
<1>5. PhaseInv'
  BY <1>0 DEF PhaseInv, Distinct, Iterate, StateType
<1>6. CountInv'
  BY <1>0, Zenon DEF CountInv, NoLostWakeup, Active, Iterate
<1>7. PinInv'
  BY <1>0, SMTT(30) DEF PinInv, Iterate, StateType
<1>8. DataInv'
  BY <1>0, <1>1, <1>2, SMTT(30) DEF DataInv, Iterate, StateType
<1>. QED BY <1>3, <1>4, <1>5, <1>6, <1>7, <1>8, Zenon

\* write_head() commits: the header names the blocks just logged.
LEMMA WriteHeadInv == LogInv /\ write_head => LogInv'
<1> SUFFICES ASSUME LogInv, write_head PROVE LogInv'
  BY Zenon
<1> USE LogAssumption DEF LogAssumption, LogInv, TypeOK, write_head, memVars
<1>0. ~recovering /\ tail = 0
  BY Zenon DEF PhaseInv
<1>1. StateType'
  BY Zenon DEF StateType, Phases
<1>2. FlagType'
  BY Zenon DEF FlagType
<1>3. PhaseInv'
  BY <1>0 DEF PhaseInv, Distinct, StateType
<1>4. CountInv'
  BY <1>0, Zenon DEF CountInv, NoLostWakeup, Active
<1>5. PinInv'
  BY <1>0 DEF PinInv, StateType
<1>6. DataInv'
  BY <1>0 DEF DataInv, StateType
<1>. QED BY <1>1, <1>2, <1>3, <1>4, <1>5, <1>6, Zenon

\* install_trans() copies a log block home, after a commit or in recovery.
LEMMA InstallInv == LogInv /\ install_trans => LogInv'
<1> SUFFICES ASSUME LogInv, install_trans PROVE LogInv'
  BY Zenon
<1> USE LogAssumption DEF LogAssumption, LogInv, TypeOK, install_trans
<1> DEFINE b == lh[tail + 1]
<1>0. /\ tail + 1 \in 1 .. Len(lh) /\ tail + 1 \in Slots
      /\ b \in Blocks
      /\ logblk[tail + 1] \in Vals
  <2>1. tail \in Nat /\ tail < Len(lh) /\ lh \in Seq(Blocks) /\ Len(lh) <= NLog - 1
    BY Zenon DEF PhaseInv, StateType
  <2>2. logblk \in [Slots -> Vals]
    BY Zenon DEF StateType
  <2>. HIDE DEF install_trans, LogInv
  <2>3. tail + 1 \in 1 .. Len(lh) /\ tail + 1 \in Slots
    BY <2>1 DEF Slots
  <2>. QED BY <2>1, <2>2, <2>3
<1>1. pin'[b] = 0 /\ \A c \in Blocks \ {b} : pin'[c] = pin[c]
  <2>1. pin' = (IF recovering THEN pin ELSE [pin EXCEPT ![b] = @ - 1]) /\ pin \in [Blocks -> {0, 1}]
    BY Zenon DEF StateType
  <2>2. IF recovering THEN pin[b] = 0 ELSE pin[b] = 1
    BY <1>0, <2>1, SMTT(30) DEF PinInv, StateType
  <2>. HIDE DEF install_trans, LogInv
  <2>. QED BY <1>0, <2>1, <2>2
<1>2. StateType'
  BY <1>0, <1>1 DEF StateType, Iterate, Phases
<1>3. FlagType'
  BY SMTT(30) DEF FlagType
<1>4. PhaseInv'
  BY <1>0 DEF PhaseInv, Distinct, Iterate, StateType
<1>5. CountInv'
  BY <1>0, SMTT(30) DEF CountInv, NoLostWakeup, Active, Iterate
<1>6. PinInv'
  <2>1. /\ PinInv /\ Distinct(lh) /\ pin \in [Blocks -> {0, 1}] /\ lh \in Seq(Blocks)
        /\ tail \in Nat /\ tail < Len(lh) /\ phase = "install_trans" /\ lh' = lh
        /\ recovering' = recovering
    BY Zenon DEF PhaseInv, StateType
  <2>2. IF tail + 1 < Len(lh) THEN phase' = phase /\ tail' = tail + 1
                              ELSE phase' = "clear"
    BY DEF Iterate
  <2>. HIDE DEF install_trans, LogInv, TypeOK
  <2>. QED BY ONLY <1>0, <1>1, <2>1, <2>2, SMTT(30) DEF PinInv, Distinct
<1>7. DataInv'
  <2>1. \A c \in Blocks : IF pin'[c] = 0 THEN cache'[c] \in {NoBuf, home'[c]}
                                       ELSE cache'[c] # NoBuf
    BY <1>0, <1>1, SMTT(30) DEF DataInv, StateType
  <2>2. home'[b] = logblk[tail + 1] /\ lh' = lh /\ logblk' = logblk /\ recovering' = recovering
    BY <1>0, Zenon DEF StateType
  <2>3. ASSUME NEW i \in 1 .. Len(lh), i # tail + 1
        PROVE  home'[lh[i]] = home[lh[i]] /\ cache'[lh[i]] = cache[lh[i]]
    <3>1. lh[i] \in Blocks /\ lh[i] # b
      BY <1>0, <2>3, SMTT(30) DEF PhaseInv, Distinct, StateType
    <3>. QED BY <1>0, <3>1, SMTT(30) DEF StateType
  <2>4. tail \in Nat /\ Len(lh) \in Nat /\ phase = "install_trans"
    BY DEF StateType
  <2>5. ASSUME NEW i \in 1 .. Len(lh)
        PROVE  /\ i <= tail => logblk[i] = home[lh[i]]
               /\ i > tail /\ ~recovering => logblk[i] = cache[lh[i]]
    BY <2>4, Zenon DEF DataInv
  <2>6. Iterate("clear")
    BY Zenon
  <2>. HIDE DEF install_trans, LogInv, b
  <2>7. \A i \in 1 .. Len(lh) : i <= tail + 1 => logblk[i] = home'[lh[i]]
    <3> SUFFICES ASSUME NEW i \in 1 .. Len(lh), i <= tail + 1
                 PROVE  logblk[i] = home'[lh[i]]
      BY Zenon
    <3>1. CASE i = tail + 1
      BY <2>2, <3>1, Zenon DEF b
    <3>2. CASE i # tail + 1
      <4>1. logblk[i] = home[lh[i]]
        <5>1. i <= tail
          BY <2>4, <3>2
        <5>. QED BY ONLY i \in 1 .. Len(lh), <2>5, <5>1
      <4>. QED BY <2>3, <3>2, <4>1, Zenon
    <3>. QED BY <3>1, <3>2, Zenon
  <2>8. \A i \in 1 .. Len(lh) : i > tail + 1 /\ ~recovering => logblk[i] = cache'[lh[i]]
    <3> SUFFICES ASSUME NEW i \in 1 .. Len(lh), i > tail + 1, ~recovering
                 PROVE  logblk[i] = cache'[lh[i]]
      BY Zenon
    <3>1. i > tail /\ i # tail + 1
      BY <2>4
    <3>. QED BY ONLY i \in 1 .. Len(lh), ~recovering, <2>3, <2>5, <3>1
  <2>9. CASE tail + 1 < Len(lh)
    <3>1. tail' = tail + 1 /\ phase' = "install_trans"
      BY <2>4, <2>6, <2>9, SMTT(30) DEF Iterate
    <3>. QED BY <2>1, <2>2, <2>7, <2>8, <3>1, SMTT(30) DEF DataInv
  <2>10. CASE ~(tail + 1 < Len(lh))
    <3>1. phase' = "clear" /\ \A i \in 1 .. Len(lh) : i <= tail + 1
      BY <2>4, <2>6, <2>10 DEF Iterate
    <3>. QED BY <2>1, <2>2, <2>7, <3>1, SMTT(30) DEF DataInv
  <2>. QED BY <2>9, <2>10, SMTT(30)
<1>. QED BY <1>2, <1>3, <1>4, <1>5, <1>6, <1>7, Zenon

\* Clearing the header ends the transaction.
LEMMA ClearInv == LogInv /\ clear_head => LogInv'
<1> SUFFICES ASSUME LogInv, clear_head PROVE LogInv'
  BY Zenon
<1> USE LogAssumption DEF LogAssumption, LogInv, TypeOK, clear_head
<1>1. StateType'
  BY DEF StateType, Phases
<1>2. FlagType'
  BY Zenon DEF FlagType
<1>3. PhaseInv'
  BY DEF PhaseInv, Distinct, StateType
<1>4. CountInv'
  BY Zenon DEF CountInv, NoLostWakeup, Active
<1>5. PinInv'
  BY DEF PinInv, StateType
<1>6. DataInv'
  BY Zenon DEF DataInv, StateType
<1>. QED BY <1>1, <1>2, <1>3, <1>4, <1>5, <1>6, SMTT(30)

\* read_head() restores the header found on disk.
LEMMA ReadHeadInv == LogInv /\ read_head => LogInv'
<1> SUFFICES ASSUME LogInv, read_head PROVE LogInv'
  BY Zenon
<1> USE LogAssumption DEF LogAssumption, LogInv, TypeOK, read_head, diskVars
<1>0. recovering /\ tail = 0
  BY Zenon DEF PhaseInv
<1>1. StateType'
  BY Zenon DEF StateType, Phases
<1>2. FlagType'
  BY SMTT(30) DEF FlagType
<1>3. PhaseInv'
  BY <1>0 DEF PhaseInv, Distinct, StateType
<1>4. CountInv'
  BY <1>0, SMTT(30) DEF CountInv, NoLostWakeup, Active
<1>5. PinInv'
  BY <1>0, SMTT(30) DEF PinInv, StateType
<1>6. DataInv'
  <2>1. \A c \in Blocks : IF pin'[c] = 0 THEN cache'[c] \in {NoBuf, home'[c]}
                                       ELSE cache'[c] # NoBuf
    BY Zenon DEF DataInv
  <2>2. /\ recovering' /\ tail' = 0 /\ Len(lh') \in Nat
        /\ phase' = "install_trans" \/ (phase' = "clear" /\ Len(lh') = 0)
    BY <1>0 DEF StateType
  <2>. HIDE DEF read_head, LogInv
  <2>3. ASSUME NEW i \in 1 .. Len(lh')
        PROVE  phase' = "install_trans" /\ recovering' /\ ~(i <= tail')
    BY <2>2
  <2>. QED BY ONLY <2>1, <2>3 DEF DataInv
<1>. QED BY <1>1, <1>2, <1>3, <1>4, <1>5, <1>6, SMTT(30)

-----------------------------------------------------------------------------
(* The invariant and its consequences *)

\* Until it is installed, a logged block is pinned and so stays in the cache.
LEMMA LoggedPinned ==
  ASSUME LogInv, ~recovering, phase # "clear",
         NEW i \in 1 .. Len(lh), phase = "install_trans" => i > tail
  PROVE  lh[i] \in Blocks /\ pin[lh[i]] = 1 /\ cache[lh[i]] # NoBuf
<1>1. lh \in Seq(Blocks) /\ PinInv /\ DataInv
  BY Zenon DEF LogInv, TypeOK, StateType
<1>2. lh[i] \in Blocks
  BY ONLY <1>1, i \in 1 .. Len(lh)
<1>3. \E j \in 1 .. Len(lh) : lh[j] = lh[i] /\ (phase = "install_trans" => j > tail)
  <2>. WITNESS i \in 1 .. Len(lh)
  <2>. QED BY Zenon
<1>4. pin[lh[i]] = 1
  BY <1>1, <1>2, <1>3, Zenon DEF PinInv
<1>5. cache[lh[i]] # NoBuf
  <2>1. IF pin[lh[i]] = 0 THEN cache[lh[i]] \in {NoBuf, home[lh[i]]} ELSE cache[lh[i]] # NoBuf
    BY ONLY <1>1, <1>2 DEF DataInv
  <2>. QED BY ONLY <1>4, <2>1, SMTT(30)
<1>. QED BY <1>2, <1>4, <1>5, Zenon

\* From the header's write until it is installed, a block's log copy is what
\* the cache holds.
LEMMA LoggedCopy ==
  ASSUME LogInv, ~recovering, NEW i \in 1 .. Len(lh),
         phase = "write_head" \/ (phase = "install_trans" /\ i > tail)
  PROVE  logblk[i] = cache[lh[i]]
<1>1. DataInv
  BY Zenon DEF LogInv
<1>2. /\ phase = "write_head" => logblk[i] = cache[lh[i]]
      /\ phase = "install_trans" /\ ~recovering /\ i > tail => logblk[i] = cache[lh[i]]
  BY ONLY <1>1, i \in 1 .. Len(lh) DEF DataInv
<1>. QED BY <1>2, Zenon

\* Filling and recycling buffers.
LEMMA CacheInv ==
  ASSUME NEW b \in Blocks, LogInv, Fetch(b) \/ Evict(b) PROVE LogInv'
<1> USE LogAssumption DEF LogAssumption, LogInv, TypeOK, diskVars, ctlVars
<1>1. /\ UNCHANGED <<diskVars, pin, lh, outstanding, committing, wrote, pc, ctlVars>>
      /\ \E v \in {NoBuf, home[b]} : cache' = [cache EXCEPT ![b] = v]
      /\ pin[b] = 0
  BY Zenon DEF Fetch, Evict, DataInv, StateType
<1>2. StateType'
  BY <1>1, SMTT(30) DEF StateType
<1>3. FlagType'
  BY <1>1, Zenon DEF FlagType
<1>4. PhaseInv' /\ CountInv' /\ PinInv'
  <2>1. PhaseInv'
    <3>1. UNCHANGED <<head, lh, phase, tail, recovering, committing, panicked, pc>>
      BY <1>1, Zenon
    <3>. QED BY ONLY PhaseInv, <3>1 DEF PhaseInv
  <2>2. CountInv'
    BY <1>1, Zenon DEF CountInv, NoLostWakeup, Active
  <2>3. PinInv'
    <3>1. UNCHANGED <<pin, lh, recovering, phase, tail>>
      BY <1>1, Zenon
    <3>. QED BY ONLY PinInv, <3>1 DEF PinInv
  <2>. QED BY ONLY <2>1, <2>2, <2>3
<1>5. DataInv'
  <2>1. \A c \in Blocks : pin[c] = 1 => cache'[c] = cache[c]
    BY <1>1, SMTT(30) DEF StateType
  <2>2. \A c \in Blocks : IF pin'[c] = 0 THEN cache'[c] \in {NoBuf, home'[c]}
                                       ELSE cache'[c] # NoBuf
    BY <1>1 DEF DataInv, StateType
  <2>3. ASSUME NEW i \in 1 .. Len(lh), ~recovering, phase # "clear",
               phase = "install_trans" => i > tail
        PROVE  cache'[lh[i]] = cache[lh[i]]
    <3>1. lh[i] \in Blocks /\ pin[lh[i]] = 1
      BY ONLY LogInv, <2>3, LoggedPinned
    <3>. QED BY ONLY <2>1, <3>1
  <2>4. ASSUME NEW i \in 1 .. Len(lh),
               phase \in {"write_log", "write_head"}
                 \/ (phase = "install_trans" /\ ~recovering /\ i > tail)
        PROVE  cache'[lh[i]] = cache[lh[i]]
    <3>1. ~recovering /\ phase # "clear" /\ (phase = "install_trans" => i > tail)
      BY <2>4, SMTT(30) DEF PhaseInv
    <3>. QED BY ONLY i \in 1 .. Len(lh), <2>3, <3>1, SMTT(30)
  <2>5. ASSUME NEW i \in 1 .. Len(lh)
        PROVE  /\ phase = "write_log" /\ i <= tail => logblk[i] = cache'[lh[i]]
               /\ phase = "write_head" => logblk[i] = cache'[lh[i]]
               /\ phase = "install_trans" /\ ~recovering /\ i > tail => logblk[i] = cache'[lh[i]]
               /\ phase = "install_trans" /\ i <= tail => logblk[i] = home[lh[i]]
               /\ phase = "clear" => logblk[i] = home[lh[i]]
    <3>1. /\ phase = "write_log" /\ i <= tail => logblk[i] = cache[lh[i]]
          /\ phase = "write_head" => logblk[i] = cache[lh[i]]
          /\ phase = "install_trans" /\ ~recovering /\ i > tail => logblk[i] = cache[lh[i]]
          /\ phase = "install_trans" /\ i <= tail => logblk[i] = home[lh[i]]
          /\ phase = "clear" => logblk[i] = home[lh[i]]
      BY ONLY DataInv, i \in 1 .. Len(lh) DEF DataInv
    <3>. QED BY ONLY i \in 1 .. Len(lh), <2>4, <3>1
  <2>6. UNCHANGED <<home, logblk, lh, phase, tail, recovering>>
    BY <1>1, Zenon
  <2>. QED BY ONLY <2>2, <2>5, <2>6 DEF DataInv
<1>. QED BY <1>2, <1>3, <1>4, <1>5, SMTT(30)

\* LogInv is inductive.
THEOREM Invariance == Spec => []LogInv
<1>1. LogInv /\ [Next]_vars => LogInv'
  <2> SUFFICES ASSUME LogInv, [Next]_vars PROVE LogInv'
    BY Zenon
  <2>1. ASSUME NEW p \in Procs, begin_op(p) PROVE LogInv'
    BY <2>1, BeginInv, Zenon
  <2>2. ASSUME NEW p \in Procs, end_op(p) PROVE LogInv'
    BY <2>2, EndOpInv, Zenon
  <2>3. ASSUME NEW p \in Procs, end_commit(p) PROVE LogInv'
    BY <2>3, EndCommitInv, Zenon
  <2>4. ASSUME NEW p \in Procs, NEW b \in Blocks, NEW v \in Vals, log_write(p, b, v)
        PROVE  LogInv'
    BY <2>4, LogWriteInv, Zenon
  <2>5. ASSUME NEW b \in Blocks, Fetch(b) \/ Evict(b) PROVE LogInv'
    BY <2>5, CacheInv, Zenon
  <2>6. CASE UNCHANGED vars
    <3> USE <2>6 DEF vars, diskVars, memVars, ctlVars
    <3>1. StateType' = StateType /\ FlagType' = FlagType
      BY Zenon DEF StateType, FlagType
    <3>2. PhaseInv' = PhaseInv
      BY Zenon DEF PhaseInv
    <3>3. CountInv' = CountInv
      BY SMTT(30) DEF CountInv, NoLostWakeup, Active
    <3>4. PinInv' = PinInv /\ DataInv' = DataInv
      BY Zenon DEF PinInv, DataInv
    <3>. QED BY <3>1, <3>2, <3>3, <3>4, SMTT(30) DEF LogInv, TypeOK
  <2>. QED BY <2>1, <2>2, <2>3, <2>4, <2>5, <2>6, WriteLogInv, WriteHeadInv, InstallInv,
              ClearInv, ReadHeadInv, CrashInv, Zenon DEF Next
<1>. QED BY <1>1, InitInv, PTL DEF Spec

\* The types of log.c's state, for every log size.
THEOREM TypeCorrect == Spec => []TypeOK
<1>1. LogInv => TypeOK
  BY Zenon DEF LogInv
<1>. QED BY <1>1, Invariance, PTL

\* Whoever sleeps in begin_op() has somebody to wake it.
THEOREM WakeupSafe == Spec => []NoLostWakeup
<1>1. LogInv => NoLostWakeup
  BY Zenon DEF LogInv, CountInv
<1>. QED BY <1>1, Invariance, PTL

-----------------------------------------------------------------------------
(* The log implements AtomicDisk *)

\* Reading the overlay: a logged block comes from its log block, any other
\* from its home location.
LEMMA OverlayAt ==
  ASSUME NEW hm, NEW hd \in Seq(Blocks), NEW lb, Distinct(hd)
  PROVE  /\ \A i \in 1 .. Len(hd) : Overlay(hm, hd, lb)[hd[i]] = lb[i]
         /\ \A b \in Blocks \ Logged(hd) : Overlay(hm, hd, lb)[b] = hm[b]
<1>1. ASSUME NEW i \in 1 .. Len(hd) PROVE Overlay(hm, hd, lb)[hd[i]] = lb[i]
  <2>1. hd[i] \in Blocks /\ hd[i] \in Logged(hd)
    BY DEF Logged
  <2>2. (CHOOSE j \in 1 .. Len(hd) : hd[j] = hd[i]) = i
    BY Zenon DEF Distinct
  <2>. QED BY <2>1, <2>2, Zenon DEF Overlay
<1>2. \A b \in Blocks \ Logged(hd) : Overlay(hm, hd, lb)[b] = hm[b]
  BY Zenon DEF Overlay
<1>. QED BY <1>1, <1>2, Zenon

\* Two functions on Blocks are equal when they agree on every block.
LEMMA OverlayEq ==
  ASSUME NEW hm, NEW hd \in Seq(Blocks), NEW lb, Distinct(hd), NEW f,
         f = [b \in Blocks |-> f[b]],
         \A i \in 1 .. Len(hd) : f[hd[i]] = lb[i],
         \A b \in Blocks \ Logged(hd) : f[b] = hm[b]
  PROVE  Overlay(hm, hd, lb) = f
<1>1. ASSUME NEW b \in Blocks PROVE Overlay(hm, hd, lb)[b] = f[b]
  <2>1. CASE b \in Logged(hd)
    <3>1. PICK i \in 1 .. Len(hd) : b = hd[i]
      BY <2>1, Zenon DEF Logged
    <3>. QED BY <3>1, OverlayAt
  <2>2. CASE b \notin Logged(hd)
    BY <2>2, OverlayAt
  <2>. QED BY <2>1, <2>2, Zenon
<1>2. Overlay(hm, hd, lb) = [b \in Blocks |-> Overlay(hm, hd, lb)[b]]
  BY DEF Overlay
<1>. QED BY <1>1, <1>2, Zenon

\* The home copies of logged blocks do not show.
LEMMA OverlayCong ==
  ASSUME NEW hd, NEW lb, NEW h1, NEW h2, \A c \in Blocks \ Logged(hd) : h1[c] = h2[c]
  PROVE  Overlay(h1, hd, lb) = Overlay(h2, hd, lb)
BY DEF Overlay

\* With an empty header the disk is its home blocks.
LEMMA OverlayEmpty ==
  ASSUME NEW hm, hm = [b \in Blocks |-> hm[b]], NEW lb
  PROVE  Overlay(hm, <<>>, lb) = hm
BY DEF Overlay, Logged

\* Between transactions the cache agrees with the disk.
LEMMA QuietClean ==
  ASSUME LogInv, ~recovering, ~committing, Active = {}
  PROVE  Current = Durable
<1> USE DEF LogInv, TypeOK
<1>1. outstanding = 0
  BY FS_EmptySet, Zenon DEF CountInv
<1>2. lh = <<>> /\ head = <<>>
  BY <1>1, Zenon DEF PhaseInv, CountInv
<1>3. \A b \in Blocks : pin[b] = 0
  BY <1>2 DEF PinInv, StateType
<1>4. \A b \in Blocks : bread(b) = home[b]
  BY <1>3, Zenon DEF DataInv, bread
<1>5. Current = home
  BY <1>4, Zenon DEF Current, StateType
<1>6. Durable = home
  BY <1>2, OverlayEmpty, Zenon DEF Durable, StateType
<1>. QED BY <1>5, <1>6, Zenon

\* A commit never runs beside an operation, and what it leaves is durable.
THEOREM CommitIsAlone == Spec => []CommitAlone
<1>1. LogInv => CommitAlone
  <2> SUFFICES ASSUME LogInv PROVE CommitAlone
    BY Zenon
  <2>1. committing => Active = {}
    BY ActiveFinite, FS_EmptySet, Zenon DEF LogInv, CountInv
  <2>2. Running /\ ~committing /\ Active = {} => Current = Durable
    BY QuietClean, Zenon DEF Running
  <2>. QED BY <2>1, <2>2, Zenon DEF CommitAlone
<1>. QED BY <1>1, Invariance, PTL

\* Steps that leave the disk, the cache and recovering alone.
LEMMA SameView ==
  ASSUME UNCHANGED <<home, head, logblk, cache, recovering>>
  PROVE  Current' = Current /\ Durable' = Durable
BY Zenon DEF Current, Durable, bread

\* begin_op() begins an operation of the abstract disk, or stutters.
LEMMA BeginRef ==
  ASSUME NEW p \in Procs, LogInv, begin_op(p) PROVE AD!Begin(p) \/ UNCHANGED AD!vars
<1>1. Current' = Current /\ Durable' = Durable
  BY SameView, Zenon DEF begin_op, diskVars, ctlVars
<1>2. CASE committing \/ LogFull
  <2>1. Active' = Active
    BY <1>2, Zenon DEF begin_op, Active, LogInv, TypeOK, StateType
  <2>. QED BY <1>1, <2>1, Zenon DEF AD!vars
<1>3. CASE ~(committing \/ LogFull)
  <2>1. Active' = Active \cup {p} /\ p \notin Active
    BY <1>3 DEF begin_op, Active, LogInv, TypeOK, StateType
  <2>2. Active # {} \/ Durable = Current
    BY <1>3, QuietClean, Zenon DEF begin_op, Running
  <2>. QED BY <1>1, <2>1, <2>2, Zenon DEF AD!Begin
<1>. QED BY <1>2, <1>3, Zenon

\* A panic shows nothing.
LEMMA PanicRef == ASSUME Panic PROVE UNCHANGED AD!vars
<1>1. Current' = Current /\ Durable' = Durable
  BY SameView, Zenon DEF Panic, diskVars, memVars
<1>2. Active' = Active
  BY Zenon DEF Active, Panic
<1>. QED BY <1>1, <1>2, Zenon DEF AD!vars

\* log_write() is the abstract write of the cached block.
LEMMA LogWriteRef ==
  ASSUME NEW p \in Procs, NEW b \in Blocks, NEW v \in Vals, LogInv, log_write(p, b, v)
  PROVE  AD!Write(p, b, v) \/ UNCHANGED AD!vars
<1>1. CASE Len(lh) >= LOGSIZE \/ Len(lh) >= NLog - 1 \/ outstanding < 1
  BY <1>1, PanicRef, Zenon DEF log_write
<1>2. CASE ~(Len(lh) >= LOGSIZE \/ Len(lh) >= NLog - 1 \/ outstanding < 1)
  <2>1. /\ cache' = [cache EXCEPT ![b] = v]
        /\ UNCHANGED <<home, head, logblk, pc, recovering>>
        /\ ~recovering /\ pc[p] = "in"
    BY <1>2, Zenon DEF log_write, Running, diskVars, ctlVars
  <2>2. Active' = Active /\ p \in Active
    BY <2>1, Zenon DEF Active
  <2>3. Durable' = Durable
    BY <2>1, Zenon DEF Durable
  <2>4. Current' = [Current EXCEPT ![b] = v]
    BY <2>1, LogAssumption, Zenon DEF Current, bread, LogInv, TypeOK, StateType, LogAssumption
  <2>. QED BY <2>2, <2>3, <2>4, SMTT(30) DEF AD!Write
<1>. QED BY <1>1, <1>2, SMTT(30)

\* end_op() ends the abstract operation.
LEMMA EndOpRef ==
  ASSUME NEW p \in Procs, LogInv, end_op(p) PROVE AD!End(p) \/ UNCHANGED AD!vars
<1>1. CASE committing
  BY <1>1, PanicRef, Zenon DEF end_op
<1>2. CASE ~committing
  <2>1. Current' = Current /\ Durable' = Durable
    BY <1>2, SameView, Zenon DEF end_op, diskVars
  <2>2. Active' = Active \ {p} /\ p \in Active
    BY <1>2, Zenon DEF end_op, Active, WakeAll, LogInv, TypeOK, StateType
  <2>. QED BY <2>1, <2>2, Zenon DEF AD!End
<1>. QED BY <1>1, <1>2, Zenon

\* The end of a commit shows nothing.
LEMMA EndCommitRef ==
  ASSUME NEW p \in Procs, LogInv, end_commit(p) PROVE UNCHANGED AD!vars
<1>1. Current' = Current /\ Durable' = Durable
  BY SameView, Zenon DEF end_commit, diskVars
<1>2. Active' = Active
  BY Zenon DEF end_commit, Active, WakeAll, LogInv, TypeOK, StateType
<1>. QED BY <1>1, <1>2, Zenon DEF AD!vars

\* Copying to the log blocks changes nothing while the header is empty.
LEMMA WriteLogRef == ASSUME LogInv, write_log PROVE UNCHANGED AD!vars
<1> USE DEF LogInv, TypeOK
<1> DEFINE b == lh[tail + 1]
<1>1. b \in Blocks /\ head = <<>> /\ head' = <<>> /\ ~recovering
  BY SMTT(30) DEF PhaseInv, StateType, write_log
<1>2. Durable' = Durable
  BY <1>1, OverlayEmpty, SMTT(30) DEF Durable, StateType, write_log
<1>3. Current' = Current
  BY <1>1, Zenon DEF Current, bread, StateType, write_log
<1>4. Active' = Active
  BY Zenon DEF Active, write_log
<1>. QED BY <1>2, <1>3, <1>4, SMTT(30) DEF AD!vars

\* Writing the header commits.
LEMMA WriteHeadRef == ASSUME LogInv, write_head PROVE AD!Commit
<1> USE DEF LogInv, TypeOK
<1>1. ~recovering /\ committing /\ Distinct(lh) /\ lh \in Seq(Blocks)
  BY Zenon DEF PhaseInv, StateType, write_head
<1>2. Active = {} /\ Active' = Active
  BY <1>1, ActiveFinite, FS_EmptySet, Zenon DEF CountInv, Active, write_head
<1>3. Current' = Current
  BY <1>1, Zenon DEF Current, bread, write_head, memVars
<1>4. Durable' = Current
  <2>1. Durable' = Overlay(home, lh, logblk)
    BY Zenon DEF Durable, write_head
  <2>2. \A i \in 1 .. Len(lh) : Current[lh[i]] = logblk[i]
    <3> SUFFICES ASSUME NEW i \in 1 .. Len(lh) PROVE Current[lh[i]] = logblk[i]
      BY Zenon
    <3>1. phase = "write_head"
      BY Zenon DEF write_head
    <3>2. lh[i] \in Blocks /\ cache[lh[i]] # NoBuf
      BY ONLY LogInv, <1>1, <3>1, i \in 1 .. Len(lh), LoggedPinned
    <3>3. cache[lh[i]] = logblk[i]
      BY ONLY LogInv, <1>1, <3>1, i \in 1 .. Len(lh), LoggedCopy
    <3>. QED BY ONLY <1>1, <3>2, <3>3 DEF Current, bread
  <2>3. \A b \in Blocks \ Logged(lh) : Current[b] = home[b]
    <3> SUFFICES ASSUME NEW b \in Blocks, b \notin Logged(lh) PROVE Current[b] = home[b]
      BY SMTT(30)
    <3>1. pin[b] = 0
      <4>1. PinInv /\ pin \in [Blocks -> {0, 1}]
        BY Zenon DEF StateType
      <4>. QED BY ONLY <4>1, b \in Blocks, b \notin Logged(lh) DEF PinInv, Logged
    <3>. QED BY <1>1, <3>1, Zenon DEF Current, bread, DataInv
  <2>4. Current = [b \in Blocks |-> Current[b]]
    BY <1>1, SMTT(30) DEF Current
  <2>. QED BY <1>1, <2>1, <2>2, <2>3, <2>4, OverlayEq
<1>. QED BY <1>2, <1>3, <1>4, SMTT(30) DEF AD!Commit

\* Installing a logged block overwrites nothing that the overlay shows.
LEMMA InstallRef == ASSUME LogInv, install_trans PROVE UNCHANGED AD!vars
<1> USE DEF LogInv, TypeOK
<1> DEFINE b == lh[tail + 1]
<1>1. /\ tail + 1 \in 1 .. Len(head) /\ b = head[tail + 1] /\ b \in Blocks
      /\ head \in Seq(Blocks) /\ Distinct(head) /\ head = lh
      /\ logblk[tail + 1] \in Vals
  <2>1. /\ tail \in Nat /\ tail < Len(lh) /\ lh \in Seq(Blocks) /\ Len(lh) <= NLog - 1
        /\ head = lh /\ Distinct(head) /\ logblk \in [Slots -> Vals]
    BY Zenon DEF PhaseInv, StateType, install_trans
  <2>2. tail + 1 \in 1 .. Len(lh) /\ tail + 1 \in Slots
    BY ONLY <2>1, LogAssumption DEF LogAssumption, Slots
  <2>. QED BY ONLY <2>1, <2>2
<1>2. Durable' = Durable
  <2>1. b \in Logged(head)
    BY <1>1, SMTT(30) DEF Logged
  <2>2. \A c \in Blocks \ Logged(head) : home'[c] = home[c]
    BY <2>1, Zenon DEF install_trans, StateType
  <2>3. Durable' = Overlay(home', head, logblk)
    BY Zenon DEF Durable, install_trans
  <2>. QED BY <2>2, <2>3, OverlayCong DEF Durable
<1>3. Current' = Current
  <2>1. CASE recovering
    BY <1>2, <2>1, Zenon DEF Current, install_trans
  <2>2. CASE ~recovering
    <3>1. cache[b] = logblk[tail + 1]
      <4>1. /\ phase = "install_trans" /\ tail + 1 > tail
            /\ tail + 1 \in 1 .. Len(lh)
        BY <1>1, SMTT(30) DEF StateType, install_trans
      <4>. QED BY ONLY LogInv, <2>2, <4>1, LoggedCopy
    <3>2. \A c \in Blocks : bread(c)' = bread(c)
      <4>1. /\ cache' = [cache EXCEPT ![b] = logblk[tail + 1]]
            /\ home' = [home EXCEPT ![b] = logblk[tail + 1]]
            /\ cache \in [Blocks -> Vals \cup {NoBuf}] /\ home \in [Blocks -> Vals]
        BY Zenon DEF StateType, install_trans
      <4>2. logblk[tail + 1] # NoBuf
        BY <1>1, LogAssumption, Zenon DEF LogAssumption
      <4>3. ASSUME NEW c \in Blocks, c # b PROVE bread(c)' = bread(c)
        BY ONLY c \in Blocks, <4>1, <4>3 DEF bread
      <4>4. ASSUME NEW c \in Blocks, c = b PROVE bread(c)' = bread(c)
        BY ONLY c \in Blocks, <3>1, <4>1, <4>2, <4>4 DEF bread
      <4>. QED BY ONLY <4>3, <4>4
    <3>. QED BY <2>2, <3>2, Zenon DEF Current, install_trans
  <2>. QED BY <2>1, <2>2, Zenon
<1>4. Active' = Active
  BY Zenon DEF Active, install_trans
<1>. QED BY <1>2, <1>3, <1>4, Zenon DEF AD!vars

\* Erasing the header changes nothing once every block is installed.
LEMMA ClearRef == ASSUME LogInv, clear_head PROVE UNCHANGED AD!vars
<1> USE DEF LogInv, TypeOK
<1>1. head \in Seq(Blocks) /\ Distinct(head) /\ head = lh /\ home = [b \in Blocks |-> home[b]]
  BY Zenon DEF PhaseInv, StateType, clear_head
<1>2. \A i \in 1 .. Len(head) : home[head[i]] = logblk[i]
  BY <1>1, Zenon DEF DataInv, clear_head
<1>3. Durable = home
  BY <1>1, <1>2, OverlayEq DEF Durable
<1>4. Durable' = home
  BY <1>1, OverlayEmpty, SMTT(30) DEF Durable, clear_head
<1>5. \A b \in Blocks : bread(b) = home[b] /\ bread(b)' = home[b]
  BY DEF DataInv, PinInv, StateType, bread, clear_head
<1>6. Current = home /\ Current' = home
  BY <1>1, <1>3, <1>5, Zenon DEF Current, clear_head
<1>7. Active' = Active
  BY Zenon DEF Active, clear_head
<1>. QED BY <1>3, <1>4, <1>6, <1>7, SMTT(30) DEF AD!vars

\* Reading the header in recovery shows nothing.
LEMMA ReadHeadRef == ASSUME LogInv, read_head PROVE UNCHANGED AD!vars
<1>1. Current' = Current /\ Durable' = Durable
  BY SameView, Zenon DEF read_head, diskVars
<1>2. Active' = Active
  BY Zenon DEF Active, read_head
<1>. QED BY <1>1, <1>2, Zenon DEF AD!vars

\* Which unpinned blocks happen to be cached is invisible.
LEMMA CacheRef ==
  ASSUME NEW b \in Blocks, LogInv, Fetch(b) \/ Evict(b) PROVE UNCHANGED AD!vars
<1> USE DEF LogInv, TypeOK, diskVars, ctlVars
<1>1. UNCHANGED <<home, head, logblk, recovering, pc>>
  BY Zenon DEF Fetch, Evict
<1>2. Durable' = Durable /\ Active' = Active
  BY <1>1, Zenon DEF Durable, Active
<1>3. \A c \in Blocks : bread(c)' = bread(c)
  <2>1. \E v \in {NoBuf, home[b]} : cache' = [cache EXCEPT ![b] = v]
    BY SMTT(30) DEF Fetch, Evict
  <2>2. cache[b] \in {NoBuf, home[b]} /\ cache \in [Blocks -> Vals \cup {NoBuf}]
    BY Zenon DEF Fetch, Evict, DataInv, StateType
  <2>. QED BY <1>1, <2>1, <2>2, SMTT(30) DEF bread
<1>4. Current' = Current
  BY <1>1, <1>2, <1>3, Zenon DEF Current
<1>. QED BY <1>2, <1>4, SMTT(30) DEF AD!vars

\* A crash takes the abstract disk back to its last commit.
LEMMA CrashRef == ASSUME LogInv, Crash PROVE AD!Crash
<1>1. Durable' = Durable /\ recovering'
  BY Zenon DEF Durable, Crash, PowerOn, diskVars
<1>2. Current' = Durable
  BY <1>1, Zenon DEF Current
<1>3. Active' = {}
  BY Zenon DEF Active, Crash, PowerOn
<1>. QED BY <1>1, <1>2, <1>3, Zenon DEF AD!Crash

\* Crash atomicity for every log size and every number of processes: the log
\* implements AtomicDisk.
THEOREM Refinement == Spec => CrashAtomic
<1>1. Init => AD!Init
  <2> SUFFICES ASSUME Init PROVE AD!Init
    BY Zenon
  <2>1. Durable = home /\ home \in [Blocks -> Vals]
    BY OverlayEmpty, Zenon DEF Init, Durable
  <2>2. Current = Durable /\ Active = {}
    BY Zenon DEF Init, Current, Active
  <2>. QED BY <2>1, <2>2, Zenon DEF AD!Init
<1>2. LogInv /\ [Next]_vars => [AD!Next]_(AD!vars)
  <2> SUFFICES ASSUME LogInv, [Next]_vars PROVE AD!Next \/ UNCHANGED AD!vars
    BY Zenon
  <2>1. ASSUME NEW p \in Procs, begin_op(p) PROVE AD!Next \/ UNCHANGED AD!vars
    BY <2>1, BeginRef, Zenon DEF AD!Next
  <2>2. ASSUME NEW p \in Procs, end_op(p) PROVE AD!Next \/ UNCHANGED AD!vars
    BY <2>2, EndOpRef, Zenon DEF AD!Next
  <2>3. ASSUME NEW p \in Procs, end_commit(p) PROVE UNCHANGED AD!vars
    BY <2>3, EndCommitRef, Zenon
  <2>4. ASSUME NEW p \in Procs, NEW b \in Blocks, NEW v \in Vals, log_write(p, b, v)
        PROVE  AD!Next \/ UNCHANGED AD!vars
    BY <2>4, LogWriteRef, Zenon DEF AD!Next
  <2>5. ASSUME NEW b \in Blocks, Fetch(b) \/ Evict(b) PROVE UNCHANGED AD!vars
    BY <2>5, CacheRef, Zenon
  <2>6. CASE UNCHANGED vars
    <3>1. Current' = Current /\ Durable' = Durable
      BY <2>6, SameView, Zenon DEF vars, diskVars, memVars, ctlVars
    <3>2. Active' = Active
      BY <2>6, Zenon DEF vars, Active
    <3>. QED BY <3>1, <3>2, Zenon DEF AD!vars
  <2>7. CASE write_head
    BY <2>7, WriteHeadRef, Zenon DEF AD!Next
  <2>8. CASE Crash
    BY <2>8, CrashRef, Zenon DEF AD!Next
  <2>. QED BY SMTT(30), <2>1, <2>2, <2>3, <2>4, <2>5, <2>6, <2>7, <2>8, WriteLogRef, InstallRef,
              ClearRef, ReadHeadRef DEF Next
<1>. QED BY <1>1, <1>2, Invariance, PTL DEF Spec, CrashAtomic, AD!Spec
===============================================================================
