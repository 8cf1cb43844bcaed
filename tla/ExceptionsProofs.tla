-------------------------- MODULE ExceptionsProofs --------------------------
(***************************************************************************)
(* Proofs about modules ExitRing and Exceptions: for every ring size, every *)
(* number of vCPUs and any number of exits.                                *)
(***************************************************************************)
EXTENDS Exceptions, TLAPS

-----------------------------------------------------------------------------
(* The exit ring.                                                          *)

\* The lines of the dump are the latest exits.
LinesMatch ==
  \A i \in 1 .. depth : exit_ring[idx(i)] = exit_history[Len(exit_history) + 1 - i]

RingInv ==
  /\ exit_ring \in [SLOTS -> RECORDS \cup {ZEROED}]
  /\ exit_ring_head \in SLOTS
  /\ exit_history \in Seq(RECORDS)
  /\ exit_ring_count = Len(exit_history)
  /\ LinesMatch

\* A modulus below and above one turn.
LEMMA ModTurn ==
  ASSUME NEW n \in Nat \ {0}, NEW a \in Nat, a < 2 * n
  PROVE  a % n = IF a < n THEN a ELSE a - n
<1>1. ASSUME a < n PROVE a % n = a
  BY <1>1, SMTT(20)
<1>2. ASSUME ~(a < n) PROVE a % n = a - n
  BY <1>2, SMTT(20)
<1> QED BY <1>1, <1>2

\* The head after a push, and the slot i lines back from a head.
LEMMA SlotFacts ==
  ASSUME NEW h \in SLOTS
  PROVE  /\ (h + 1) % EXIT_RING_SIZE = IF h + 1 = EXIT_RING_SIZE THEN 0 ELSE h + 1
         /\ \A i \in 1 .. EXIT_RING_SIZE :
              (h + EXIT_RING_SIZE - i) % EXIT_RING_SIZE =
                IF i <= h THEN h - i ELSE h + EXIT_RING_SIZE - i
<1> USE RingAssumption
<1>0. EXIT_RING_SIZE \in Nat \ {0} /\ h \in Nat /\ h < EXIT_RING_SIZE
  BY DEF SLOTS
<1>2. (h + 1) % EXIT_RING_SIZE = IF h + 1 = EXIT_RING_SIZE THEN 0 ELSE h + 1
  <2> DEFINE a == h + 1
  <2>1. a \in Nat /\ a < 2 * EXIT_RING_SIZE /\ a <= EXIT_RING_SIZE
    BY <1>0
  <2>2. a % EXIT_RING_SIZE = IF a < EXIT_RING_SIZE THEN a ELSE a - EXIT_RING_SIZE
    BY <1>0, <2>1, ModTurn
  <2> QED BY <1>0, <2>1, <2>2
<1>3. ASSUME NEW i \in 1 .. EXIT_RING_SIZE
      PROVE  (h + EXIT_RING_SIZE - i) % EXIT_RING_SIZE =
               IF i <= h THEN h - i ELSE h + EXIT_RING_SIZE - i
  <2> DEFINE a == h + EXIT_RING_SIZE - i
  <2>1. a \in Nat /\ a < 2 * EXIT_RING_SIZE
    BY <1>0
  <2>2. a % EXIT_RING_SIZE = IF a < EXIT_RING_SIZE THEN a ELSE a - EXIT_RING_SIZE
    BY <1>0, <2>1, ModTurn
  <2> QED BY <1>0, <2>2
<1> QED BY <1>2, <1>3

\* An empty ring.
LEMMA RingStart == RingInit => RingInv
<1> SUFFICES ASSUME RingInit PROVE RingInv
  OBVIOUS
<1> USE RingAssumption
<1>1. depth = 0
  BY DEF RingInit, depth
<1>2. 0 \in SLOTS
  BY DEF SLOTS
<1>3. exit_history \in Seq(RECORDS) /\ Len(exit_history) = 0
  BY DEF RingInit
<1> QED BY <1>1, <1>2, <1>3 DEF RingInit, RingInv, LinesMatch

\* exit_ring_push: the new record is line 1 and every other line moves down one,
\* the oldest falling out when the ring is full.
LEMMA RingPush ==
  ASSUME RingInv, NEW r \in RECORDS, exit_ring_push(r)
  PROVE  RingInv'
<1> USE RingAssumption
<1> DEFINE S == EXIT_RING_SIZE
           h == exit_ring_head
<1>0. /\ S \in Nat \ {0} /\ h \in SLOTS /\ h \in Nat /\ h < S
      /\ exit_ring_count \in Nat /\ exit_ring_count = Len(exit_history)
  BY DEF RingInv, SLOTS
<1>1. exit_ring_head' = (IF h + 1 = S THEN 0 ELSE h + 1) /\ exit_ring_head' \in SLOTS
  BY <1>0, SlotFacts DEF exit_ring_push, SLOTS
<1>2. /\ exit_ring' \in [SLOTS -> RECORDS \cup {ZEROED}]
      /\ exit_ring'[h] = r
      /\ \A s \in SLOTS \ {h} : exit_ring'[s] = exit_ring[s]
  BY <1>0 DEF exit_ring_push, RingInv
<1>3. /\ exit_history' \in Seq(RECORDS)
      /\ Len(exit_history') = Len(exit_history) + 1
      /\ exit_history'[Len(exit_history) + 1] = r
      /\ \A k \in 1 .. Len(exit_history) : exit_history'[k] = exit_history[k]
  BY DEF exit_ring_push, RingInv
<1>4. exit_ring_count' = Len(exit_history')
  BY <1>0, <1>3 DEF exit_ring_push
<1>5. /\ depth \in 0 .. S /\ depth' \in 1 .. S /\ depth' <= depth + 1
      /\ depth <= Len(exit_history)
  BY <1>0 DEF depth, exit_ring_push
<1>6. ASSUME NEW i \in 1 .. depth'
      PROVE  exit_ring'[idx(i)'] = exit_history'[Len(exit_history') + 1 - i]
  <2>0. i \in 1 .. S
    BY <1>0, <1>5
  <2>1. idx(i)' = IF i <= exit_ring_head' THEN exit_ring_head' - i
                  ELSE exit_ring_head' + S - i
    <3>1. (exit_ring_head' + EXIT_RING_SIZE - i) % EXIT_RING_SIZE =
            IF i <= exit_ring_head' THEN exit_ring_head' - i
            ELSE exit_ring_head' + EXIT_RING_SIZE - i
      BY <1>1, <2>0, SlotFacts, Zenon
    <3> QED BY <3>1, Zenon DEF idx
  <2>2. CASE i = 1
    <3>1. idx(i)' = h
      BY <1>0, <1>1, <2>1, <2>2
    <3> QED BY <1>0, <1>2, <1>3, <2>2, <3>1
  <2>3. CASE i # 1
    <3> DEFINE j == i - 1
    <3>1. j \in 1 .. depth /\ j \in 1 .. S - 1
      BY <1>0, <1>5, <2>3
    <3>2. idx(j) = IF j <= h THEN h - j ELSE h + S - j
      <4>1. j \in 1 .. S
        BY <1>0, <3>1
      <4> HIDE DEF j
      <4>2. (exit_ring_head + EXIT_RING_SIZE - j) % EXIT_RING_SIZE =
              IF j <= exit_ring_head THEN exit_ring_head - j
              ELSE exit_ring_head + EXIT_RING_SIZE - j
        BY <1>0, <4>1, SlotFacts, Zenon
      <4> QED BY <4>2, Zenon DEF idx
    <3>3. idx(i)' = idx(j) /\ idx(j) \in SLOTS \ {h}
      BY <1>0, <1>1, <2>1, <3>1, <3>2 DEF SLOTS
    <3>4. exit_ring[idx(j)] = exit_history[Len(exit_history) + 1 - j]
      BY <3>1 DEF RingInv, LinesMatch
    <3>5. Len(exit_history) + 1 - j \in 1 .. Len(exit_history)
      BY <1>0, <1>5, <3>1
    <3>6. Len(exit_history') + 1 - i = Len(exit_history) + 1 - j
      BY <1>0, <1>3, <2>3
    <3> HIDE DEF j
    <3> QED BY <1>2, <1>3, <3>3, <3>4, <3>5, <3>6
  <2> QED BY <2>2, <2>3
<1>7. LinesMatch'
  BY <1>6 DEF LinesMatch
<1> QED BY <1>1, <1>2, <1>3, <1>4, <1>7 DEF RingInv

\* What RingInv says of the dump.
LEMMA RingDump == RingInv => DumpIsHistory
  BY DEF RingInv, LinesMatch, DumpIsHistory, dump_exit_ring

-----------------------------------------------------------------------------
(* Exits.                                                                  *)

\* The exit that stopped the machine is the last one logged.
FaultIsLast ==
  halted = "fault" =>
    /\ Len(exit_history) > 0
    /\ exit_history[Len(exit_history)] = <<"fatal", current>>

\* What handle_psci answers is what the list of psci_features says.
PsciInv ==
  \A fid \in PSCI_FIDS :
    /\ psci_told[fid] \subseteq {IF fid \in psci_features THEN "yes" ELSE "no"}
    /\ \A got \in psci_got[fid] : fid \in psci_features <=> got # "refuses"

ExitInv == TypeOK /\ RingInv /\ ResumesBehindTrap /\ FaultIsLast /\ PsciInv

\* handle_psci against psci_features: what FEATURES answers, and what is refused.
LEMMA PsciFacts ==
  ASSUME NEW fid \in PSCI_FIDS, NEW fn \in PSCI_FIDS, NEW affinity \in {0, 1}
  PROVE  /\ handle_psci(PSCI_FEATURES_FN, fn, affinity) = PSCI_RET_SUCCESS <=> fn \in psci_features
         /\ Outcome(fid, handle_psci(fid, fn, affinity)) \in OUTCOMES
         /\ fid \in psci_features <=> Outcome(fid, handle_psci(fid, fn, affinity)) # "refuses"
<1> USE DEF PSCI_VERSION_FN, PSCI_CPU_OFF_FN, PSCI_CPU_ON_FNS, PSCI_AFFINITY_INFO,
    PSCI_MIGRATE_INFO_TYPE, PSCI_SYSTEM_OFF_FN, PSCI_SYSTEM_RESET_FN, PSCI_FEATURES_FN,
    PSCI_RET_SUCCESS, PSCI_RET_NOT_SUPPORTED, PSCI_1_0
<1>1. handle_psci(PSCI_FEATURES_FN, fn, affinity) = PSCI_RET_SUCCESS <=> fn \in psci_features
  BY DEF handle_psci
<1>2. Outcome(fid, handle_psci(fid, fn, affinity)) \in OUTCOMES
  BY DEF Outcome, OUTCOMES
<1>3. CASE fid \in psci_halts
  BY <1>1, <1>2, <1>3 DEF Outcome, psci_features
<1>4. CASE fid \notin psci_halts
  <2>1. fid \in psci_features <=> Outcome(fid, handle_psci(fid, fn, affinity)) # "refuses"
    BY <1>4 DEF handle_psci, Outcome, psci_features, psci_halts
  <2> QED BY <1>1, <1>2, <2>1
<1> QED BY <1>3, <1>4

\* handle_exception's push keeps the ring, and its record is the last one.
LEMMA TakenRing ==
  ASSUME TypeOK, RingInv, NEW kind \in {"irq", "hvc", "wfi", "sysreg", "abort", "fatal"},
         Taken(kind)
  PROVE  /\ RingInv' /\ Len(exit_history') > 0
         /\ exit_history'[Len(exit_history')] = <<kind, current>>
<1>1. <<kind, current>> \in RECORDS
  BY ExitAssumption DEF TypeOK
<1>2. exit_ring_push(<<kind, current>>)
  BY DEF Taken
<1>3. exit_history \in Seq(RECORDS) /\ exit_history' = Append(exit_history, <<kind, current>>)
  BY <1>2 DEF RingInv, exit_ring_push
<1>4. Len(exit_history') > 0 /\ exit_history'[Len(exit_history')] = <<kind, current>>
  BY <1>1, <1>3
<1> QED BY <1>1, <1>2, <1>4, RingPush

\* Writes to the frame: a register write leaves elr_el2 alone, register 31 is
\* dropped, and a skip is one instruction.
LEMMA FrameFacts ==
  ASSUME NEW f \in FrameT, NEW rt \in {0, 1, 31}, NEW v \in VALUES
  PROVE  /\ SetReg(f, rt, v) \in FrameT /\ SetReg(f, rt, v).elr = f.elr
         /\ Skipped(f) \in FrameT /\ Skipped(f).elr = f.elr + 1
  BY DEF SetReg, Skipped, FrameT

\* An exit that resumes the same vCPU behind the instruction that trapped.
LEMMA Resumes ==
  ASSUME TypeOK, ResumesBehindTrap, Retires, UNCHANGED <<vcpus, current>>,
         tf' \in FrameT, tf'.elr = tf.elr + 1, halted' \in {"no", "psci"},
         psci_told' \in [PSCI_FIDS -> SUBSET {"yes", "no"}],
         psci_got' \in [PSCI_FIDS -> SUBSET OUTCOMES]
  PROVE  TypeOK' /\ ResumesBehindTrap'
<1>1. current \in VCPUS /\ retired \in [VCPUS -> Nat]
  BY DEF TypeOK
<1>2. retired' = [retired EXCEPT ![current] = retired[current] + 1]
  BY DEF Retires
<1>3. retired' \in [VCPUS -> Nat] /\ retired'[current] = retired[current] + 1
      /\ \A i \in VCPUS \ {current} : retired'[i] = retired[i]
  BY <1>1, <1>2
<1>4. TypeOK'
  BY <1>3 DEF TypeOK
<1>5. ASSUME NEW i \in VCPUS PROVE Resume(i)' = retired'[i]
  BY <1>1, <1>3 DEF Resume, ResumesBehindTrap
<1> QED BY <1>4, <1>5 DEF ResumesBehindTrap

\* The machine starts in the invariant.
LEMMA ExitStart == Init => ExitInv
<1> SUFFICES ASSUME Init PROVE ExitInv
  OBVIOUS
<1>1. RingInv
  BY RingStart DEF Init
<1>2. Frame(0) \in FrameT /\ Frame(0).elr = 0
  BY DEF Frame, FrameT, VALUES, GUEST
<1>3. 0 \in VCPUS
  BY ExitAssumption DEF VCPUS
<1>4. TypeOK
  BY <1>2, <1>3 DEF Init, TypeOK
<1>5. ResumesBehindTrap /\ FaultIsLast /\ PsciInv
  BY <1>2, <1>3 DEF Init, ResumesBehindTrap, Resume, FaultIsLast, PsciInv
<1> QED BY <1>1, <1>4, <1>5 DEF ExitInv

\* The tick: the frame and the saved frames change places.
LEMMA TickResumes ==
  ASSUME TypeOK, ResumesBehindTrap, sched_tick, UNCHANGED <<retired, halted, psciVars>>
  PROVE  TypeOK' /\ ResumesBehindTrap'
<1> USE DEF psciVars
<1>1. CASE ~(NVCPU > 1)
  BY <1>1 DEF sched_tick, TypeOK, ResumesBehindTrap, Resume
<1>2. CASE NVCPU > 1
  <2> DEFINE next == (current + 1) % NVCPU
  <2>1. next \in VCPUS /\ current \in VCPUS
    <3>1. NVCPU \in Nat \ {0} /\ current \in Nat /\ current < NVCPU
      BY ExitAssumption DEF TypeOK, VCPUS
    <3> QED BY <3>1 DEF VCPUS
  <2>2. /\ vcpus' = [vcpus EXCEPT ![current] = tf]
        /\ current' = next /\ tf' = vcpus[next]
    BY <1>2 DEF sched_tick
  <2> HIDE DEF next
  <2>3. /\ vcpus' \in [VCPUS -> FrameT] /\ vcpus'[current] = tf
        /\ \A i \in VCPUS \ {current} : vcpus'[i] = vcpus[i]
    BY <2>1, <2>2 DEF TypeOK
  <2>4. next # current
    <3>1. NVCPU \in Nat \ {0} /\ current \in Nat /\ current < NVCPU
      BY ExitAssumption DEF TypeOK, VCPUS
    <3>2. current + 1 \in Nat /\ current + 1 < 2 * NVCPU /\ current + 1 <= NVCPU
      BY <1>2, <3>1
    <3> DEFINE a == current + 1
    <3>3. a \in Nat /\ a < 2 * NVCPU
      BY <3>2
    <3>4. a % NVCPU = IF a < NVCPU THEN a ELSE a - NVCPU
      <4> HIDE DEF a
      <4> QED BY <3>1, <3>3, ModTurn
    <3>5. next = IF a < NVCPU THEN a ELSE a - NVCPU
      BY <3>4 DEF next
    <3> QED BY <1>2, <3>1, <3>2, <3>5
  <2>5. TypeOK'
    BY <2>1, <2>2, <2>3 DEF TypeOK
  <2>6. ASSUME NEW i \in VCPUS PROVE Resume(i)' = retired'[i]
    BY <2>1, <2>2, <2>3, <2>4 DEF Resume, ResumesBehindTrap
  <2> QED BY <2>5, <2>6 DEF ResumesBehindTrap
<1> QED BY <1>1, <1>2

\* What handle_psci adds to the history.
PsciStep(fid, fn, affinity) ==
  /\ psci_got' = [psci_got EXCEPT ![fid] = @ \cup {Outcome(fid, handle_psci(fid, fn, affinity))}]
  /\ psci_told' = IF fid = PSCI_FEATURES_FN
                  THEN [psci_told EXCEPT ![fn] = @ \cup
                         {IF handle_psci(fid, fn, affinity) = PSCI_RET_SUCCESS
                          THEN "yes" ELSE "no"}]
                  ELSE psci_told

\* A PSCI call tells and refuses by the list.
LEMMA PsciKept ==
  ASSUME TypeOK, PsciInv, NEW c \in PSCI_CALLS, PsciStep(c[1], c[2], c[3])
  PROVE  /\ PsciInv'
         /\ psci_told' \in [PSCI_FIDS -> SUBSET {"yes", "no"}]
         /\ psci_got' \in [PSCI_FIDS -> SUBSET OUTCOMES]
<1> DEFINE fid == c[1]  fn == c[2]  affinity == c[3]
           Listed(f) == IF f \in psci_features THEN "yes" ELSE "no"
<1>1. fid \in PSCI_FIDS /\ fn \in PSCI_FIDS /\ affinity \in {0, 1}
  BY ExitAssumption
<1>t. psci_told \in [PSCI_FIDS -> SUBSET {"yes", "no"}] /\ psci_got \in [PSCI_FIDS -> SUBSET OUTCOMES]
  BY DEF TypeOK
<1> HIDE DEF fid, fn, affinity
<1>2. PICK o \in OUTCOMES : /\ psci_got' = [psci_got EXCEPT ![fid] = psci_got[fid] \cup {o}]
                            /\ fid \in psci_features <=> o # "refuses"
  <2>1. psci_got' = [psci_got EXCEPT ![fid] = psci_got[fid] \cup
                      {Outcome(fid, handle_psci(fid, fn, affinity))}]
    BY DEF PsciStep, fid, fn, affinity
  <2> QED BY <1>1, <2>1, PsciFacts
<1>3. \/ psci_told' = psci_told
      \/ psci_told' = [psci_told EXCEPT ![fn] = psci_told[fn] \cup {Listed(fn)}]
  <2>1. CASE fid = PSCI_FEATURES_FN
    <3>1. Listed(fn) = IF handle_psci(fid, fn, affinity) = PSCI_RET_SUCCESS THEN "yes" ELSE "no"
      BY <1>1, <2>1, PsciFacts
    <3>2. psci_told' = [psci_told EXCEPT ![fn] = psci_told[fn] \cup
                         {IF handle_psci(fid, fn, affinity) = PSCI_RET_SUCCESS
                          THEN "yes" ELSE "no"}]
      BY <2>1 DEF PsciStep, fid, fn, affinity
    <3> HIDE DEF Listed
    <3> QED BY <3>1, <3>2
  <2>2. CASE fid # PSCI_FEATURES_FN
    BY <2>2 DEF PsciStep, fid
  <2> QED BY <2>1, <2>2
<1>4. \A f : Listed(f) \in {"yes", "no"}
  OBVIOUS
<1>5. \A f \in PSCI_FIDS : /\ psci_told[f] \subseteq {Listed(f)}
                            /\ \A got \in psci_got[f] : f \in psci_features <=> got # "refuses"
  BY DEF PsciInv
<1> HIDE DEF Listed
<1>6. /\ psci_got' \in [PSCI_FIDS -> SUBSET OUTCOMES]
      /\ \A f \in PSCI_FIDS : \A got \in psci_got'[f] : f \in psci_features <=> got # "refuses"
  BY <1>1, <1>t, <1>2, <1>5
<1>7. psci_told' \in [PSCI_FIDS -> SUBSET {"yes", "no"}] /\ \A f \in PSCI_FIDS : psci_told'[f] \subseteq {Listed(f)}
  BY <1>1, <1>t, <1>3, <1>4, <1>5
<1> QED BY <1>6, <1>7 DEF PsciInv, Listed

\* Every exit keeps the invariant.
LEMMA ExitNext == ExitInv /\ [Next]_vars => ExitInv'
<1> SUFFICES ASSUME ExitInv, [Next]_vars PROVE ExitInv'
  OBVIOUS
<1> USE DEF ExitInv
<1>p. ASSUME UNCHANGED psciVars
      PROVE  PsciInv' /\ psci_told' \in [PSCI_FIDS -> SUBSET {"yes", "no"}]
                      /\ psci_got' \in [PSCI_FIDS -> SUBSET OUTCOMES]
  BY <1>p DEF psciVars, PsciInv, TypeOK
<1>t. tf \in FrameT /\ GUEST \in VALUES /\ 0 \in VALUES /\ -1 \in VALUES
  BY DEF TypeOK, VALUES, GUEST
<1>h. HvcFrame \in FrameT /\ HvcFrame.elr = tf.elr + 1
  BY <1>t DEF HvcFrame, FrameT
<1>1. ASSUME NEW c \in PSCI_CALLS, HvcPsci(c[1], c[2], c[3]) PROVE ExitInv'
  <2> DEFINE x0 == handle_psci(c[1], c[2], c[3])
  <2>1. x0 \in VALUES
    BY DEF handle_psci, VALUES, PSCI_1_0, PSCI_RET_SUCCESS, PSCI_RET_NOT_SUPPORTED
  <2> HIDE DEF x0
  <2>2. /\ tf' \in FrameT /\ tf'.elr = tf.elr + 1 /\ halted' \in {"no", "psci"}
    <3>1. SetReg(HvcFrame, 0, x0) \in FrameT /\ SetReg(HvcFrame, 0, x0).elr = tf.elr + 1
      BY <1>h, <2>1, FrameFacts
    <3> QED BY <1>1, <1>h, <3>1 DEF HvcPsci, x0
  <2>3. Taken("hvc") /\ Retires /\ UNCHANGED <<vcpus, current>>
    BY <1>1 DEF HvcPsci
  <2>4. PsciInv' /\ psci_told' \in [PSCI_FIDS -> SUBSET {"yes", "no"}]
                 /\ psci_got' \in [PSCI_FIDS -> SUBSET OUTCOMES]
    BY <1>1, PsciKept DEF HvcPsci, PsciStep
  <2> QED BY <2>2, <2>3, <2>4, Resumes, TakenRing DEF FaultIsLast
<1>2. ASSUME NEW num \in 0 .. 3, HvcCall(num) PROVE ExitInv'
  <2>1. /\ Taken("hvc") /\ Retires /\ UNCHANGED <<vcpus, current, halted, psciVars>>
        /\ tf' = SetReg(HvcFrame, 0, IF num \in 0 .. 2 THEN 0 ELSE -1)
    BY <1>2 DEF HvcCall
  <2>2. tf' \in FrameT /\ tf'.elr = tf.elr + 1
    BY <1>t, <1>h, <2>1, FrameFacts
  <2>3. halted = "no"
    BY <2>1 DEF Taken
  <2> QED BY <1>p, <2>1, <2>2, <2>3, Resumes, TakenRing DEF FaultIsLast
<1>3. CASE Wfi
  <2>1. /\ Taken("wfi") /\ Retires /\ UNCHANGED <<vcpus, current, halted, psciVars>> /\ halted = "no"
        /\ tf' = Skipped(tf)
    BY <1>3 DEF Wfi, Taken
  <2>2. tf' \in FrameT /\ tf'.elr = tf.elr + 1
    BY <1>t, <2>1, FrameFacts
  <2> QED BY <1>p, <2>1, <2>2, Resumes, TakenRing DEF FaultIsLast
<1>4. ASSUME NEW dir \in {0, 1}, NEW rt \in {0, 1, 31}, Sysreg(dir, rt) PROVE ExitInv'
  <2> DEFINE f == IF dir = 1 THEN SetReg(tf, rt, 0) ELSE tf
  <2>1. /\ Taken("sysreg") /\ Retires /\ UNCHANGED <<vcpus, current, halted, psciVars>> /\ halted = "no"
        /\ tf' = Skipped(f)
    BY <1>4 DEF Sysreg, Taken
  <2>2. f \in FrameT /\ f.elr = tf.elr
    BY <1>t, FrameFacts
  <2> HIDE DEF f
  <2>3. tf' \in FrameT /\ tf'.elr = tf.elr + 1
    BY <1>t, <2>1, <2>2, FrameFacts
  <2> QED BY <1>p, <2>1, <2>3, Resumes, TakenRing DEF FaultIsLast
<1>5. ASSUME NEW gic \in BOOLEAN, NEW isv \in BOOLEAN, NEW wnr \in BOOLEAN,
             NEW srt \in {0, 1, 31}, Stage2Abort(gic, isv, wnr, srt, GUEST)
      PROVE  ExitInv'
  <2> DEFINE f == IF gic /\ isv /\ ~wnr THEN SetReg(tf, srt, GUEST) ELSE tf
  <2>1. /\ Taken("abort") /\ Retires /\ UNCHANGED <<vcpus, current, halted, psciVars>> /\ halted = "no"
        /\ tf' = Skipped(f)
    BY <1>5 DEF Stage2Abort, Taken
  <2>2. f \in FrameT /\ f.elr = tf.elr
    BY <1>t, FrameFacts
  <2> HIDE DEF f
  <2>3. tf' \in FrameT /\ tf'.elr = tf.elr + 1
    BY <1>t, <2>1, <2>2, FrameFacts
  <2> QED BY <1>p, <2>1, <2>3, Resumes, TakenRing DEF FaultIsLast
<1>6. ASSUME NEW tick \in BOOLEAN, Irq(tick) PROVE ExitInv'
  <2>1. Taken("irq") /\ UNCHANGED <<retired, halted, psciVars>> /\ halted = "no"
    BY <1>6 DEF Irq, Taken
  <2>2. CASE tick
    BY <1>p, <1>6, <2>1, <2>2, TickResumes, TakenRing DEF Irq, FaultIsLast
  <2>3. CASE ~tick
    BY <1>p, <1>6, <2>1, <2>3, TakenRing DEF Irq, FaultIsLast, TypeOK, ResumesBehindTrap, Resume
  <2> QED BY <2>2, <2>3
<1>7. CASE Fatal
  <2>1. Taken("fatal") /\ halted' = "fault" /\ UNCHANGED <<tf, vcpus, current, retired, psciVars>>
    BY <1>7 DEF Fatal
  <2> QED BY <1>p, <2>1, TakenRing DEF FaultIsLast, TypeOK, ResumesBehindTrap, Resume
<1>8. CASE UNCHANGED vars
  BY <1>8 DEF vars, ringVars, exitVars, TypeOK, RingInv, LinesMatch, depth, idx,
     ResumesBehindTrap, Resume, FaultIsLast, PsciInv, psciVars
<1> QED BY <1>1, <1>2, <1>3, <1>4, <1>5, <1>6, <1>7, <1>8 DEF Next

\* The invariant holds in every behaviour.
LEMMA ExitCorrect == Spec => []ExitInv
<1> QED BY ExitStart, ExitNext, PTL DEF Spec

-----------------------------------------------------------------------------
\* The dump of the exit ring is the latest exits, newest first, for every ring
\* size and however often exit_ring_push has wrapped.
THEOREM DumpCorrect == Spec => []DumpIsHistory
<1>1. ExitInv => DumpIsHistory
  BY RingDump DEF ExitInv
<1> QED BY <1>1, ExitCorrect, PTL

\* After any sequence of exits and ticks every vCPU resumes behind the last
\* instruction it executed.
THEOREM ResumeCorrect == Spec => []ResumesBehindTrap
<1>1. ExitInv => ResumesBehindTrap
  BY DEF ExitInv
<1> QED BY <1>1, ExitCorrect, PTL

\* The first line of dump_and_halt's dump is the exit that was fatal.
THEOREM FaultCorrect == Spec => []DumpStartsWithFault
<1>1. ASSUME ExitInv PROVE DumpStartsWithFault
  <2> SUFFICES ASSUME halted = "fault"
               PROVE  depth > 0 /\ dump_exit_ring[1] = <<"fatal", current>>
    BY DEF DumpStartsWithFault
  <2>1. /\ Len(exit_history) \in Nat /\ Len(exit_history) > 0
        /\ exit_history[Len(exit_history)] = <<"fatal", current>>
        /\ exit_ring_count = Len(exit_history)
    BY <1>1 DEF ExitInv, FaultIsLast, RingInv
  <2>2. depth \in Nat /\ depth > 0
    BY <2>1, RingAssumption DEF depth
  <2>3. dump_exit_ring = [i \in 1 .. depth |-> exit_history[Len(exit_history) + 1 - i]]
    BY <1>1, RingDump DEF ExitInv, DumpIsHistory
  <2>4. 1 \in 1 .. depth /\ Len(exit_history) + 1 - 1 = Len(exit_history)
    BY <2>1, <2>2
  <2> QED BY <2>1, <2>2, <2>3, <2>4
<1> QED BY <1>1, ExitCorrect, PTL

\* PSCI_FEATURES denies exactly the functions that handle_psci refuses when they
\* are called.
THEOREM FeaturesCorrect == Spec => []FeaturesMatchCalls
<1>1. ExitInv => FeaturesMatchCalls
  BY DEF ExitInv, PsciInv, FeaturesMatchCalls
<1> QED BY <1>1, ExitCorrect, PTL

\* Frames, PSCI answers and retirement counts keep their types in every handler
\* of exceptions.c.
THEOREM ExitTypes == Spec => []TypeOK
<1>1. ExitInv => TypeOK
  BY DEF ExitInv
<1> QED BY <1>1, ExitCorrect, PTL

=============================================================================
