--------------------------- MODULE Dispatch_proofs ---------------------------
(***************************************************************************)
(* Any number of threads gets one scanner, which is constructed.            *)
(***************************************************************************)
EXTENDS Dispatch, TLAPS

(* The thread that runs the initialiser of `chosen`.                         *)
Initialises(t) ==
    \/ pc[t] = "probe"
    \/ pc[t] \in {"instance", "construct"} /\ goal[t] = "default"

(* A static that is being initialised has one thread that does so.           *)
OneInitialiser ==
    /\ \A t \in Threads : Initialises(t) => guard["chosen"] = "running"
    /\ \A t, u \in Threads : Initialises(t) /\ Initialises(u) => t = u
    /\ \A t \in Threads : pc[t] \in {"instance", "construct"} => want[t] \in Instance
    /\ \A t \in Threads : pc[t] = "construct" => guard[want[t]] = "running"
    /\ \A t, u \in Threads :
          (pc[t] = "construct" /\ pc[u] = "construct" /\ want[t] = want[u]) => t = u

(* What was handed out is constructed, and is what is cached.                *)
HandedOut ==
    /\ guard["chosen"] = "set" => chosen \in Instance /\ guard[chosen] = "set"
    /\ \A t \in Threads : got[t] # nullptr => guard[got[t]] = "set"
    /\ \A t \in Threads : Answered(t) => guard["chosen"] = "set" /\ got[t] = chosen

IInv == TypeOK /\ OneInitialiser /\ HandedOut

LEMMA StaticNames ==
    /\ "chosen" \in Static /\ "Scalar" \in Static /\ "Avx2" \in Static
    /\ "chosen" \notin Instance /\ nullptr \notin Instance
    /\ Instance \subseteq Static /\ Instance \subseteq Kind /\ "default" \notin Kind
BY DEF Static, Instance, nullptr, Kind

LEMMA InitInv == Init => IInv
BY StaticNames DEF Init, IInv, TypeOK, OneInitialiser, HandedOut, Initialises, Answered

LEMMA StepInv == IInv /\ [Next]_vars => IInv'
<1> SUFFICES ASSUME IInv, [Next]_vars PROVE IInv'
    OBVIOUS
<1> USE StaticNames DEF IInv
<1>1. ASSUME NEW t \in Threads, CallDefault(t) PROVE IInv'
      BY <1>1 DEF CallDefault, Goto, TypeOK, OneInitialiser, HandedOut, Initialises, Answered
<1>2. ASSUME NEW t \in Threads, NEW kind \in Kind, CallFor(t, kind) PROVE IInv'
      BY <1>2 DEF CallFor, Goto, Return, TypeOK, OneInitialiser, HandedOut, Initialises,
                  Answered, Instance
<1>3. ASSUME NEW t \in Threads, InitialiseChosen(t) PROVE IInv'
      BY <1>3 DEF InitialiseChosen, Goto, TypeOK, OneInitialiser, HandedOut, Initialises,
                  Answered
<1>4. ASSUME NEW t \in Threads, UseChosen(t) PROVE IInv'
      BY <1>4 DEF UseChosen, Goto, Return, TypeOK, OneInitialiser, HandedOut, Initialises,
                  Answered
<1>5. ASSUME NEW t \in Threads, Probe(t) PROVE IInv'
      BY <1>5 DEF Probe, Goto, TypeOK, OneInitialiser, HandedOut, Initialises, Answered,
                  Instance
<1>6. ASSUME NEW t \in Threads, Construct(t) PROVE IInv'
      BY <1>6 DEF Construct, Goto, TypeOK, OneInitialiser, HandedOut, Initialises, Answered
<1>7. ASSUME NEW t \in Threads, Constructed(t) PROVE IInv'
      BY <1>7 DEF Constructed, Goto, TypeOK, OneInitialiser, HandedOut, Initialises, Answered
<1>8. ASSUME NEW t \in Threads, UseInstance(t) PROVE IInv'
      BY <1>8 DEF UseInstance, Goto, Return, TypeOK, OneInitialiser, HandedOut, Initialises,
                  Answered
<1>9. CASE UNCHANGED vars
      BY <1>9 DEF vars, TypeOK, OneInitialiser, HandedOut, Initialises, Answered
<1>10. QED
       BY <1>1, <1>2, <1>3, <1>4, <1>5, <1>6, <1>7, <1>8, <1>9 DEF Next, Step

LEMMA Invariance == Spec => []IInv
<1>1. QED
      BY InitInv, StepInv, PTL DEF Spec

(* dispatch.cpp: however many threads race for the first call, the scanner    *)
(* they get is constructed, and it is one and the same.                      *)
THEOREM OneScannerForAll == Spec => []OneScanner
<1>1. IInv => OneScanner
      BY StaticNames DEF IInv, HandedOut, OneScanner
<1>2. QED
      BY <1>1, Invariance, PTL

(* A static is initialised once; nothing changes it afterwards.              *)
THEOREM StaticsStay == Spec => InitialisedOnce
<1> DEFINE Stays == \A x \in Static : guard[x] = "set" =>
                        guard'[x] = "set" /\ (x = "chosen" => chosen' = chosen)
<1>1. IInv /\ [Next]_vars => [Stays]_vars
  <2> SUFFICES ASSUME IInv, Next PROVE Stays
      OBVIOUS
  <2> USE StaticNames DEF IInv, TypeOK
  <2>1. ASSUME NEW t \in Threads, Constructed(t) PROVE Stays
        BY <2>1 DEF Constructed, OneInitialiser
  <2>2. ASSUME NEW t \in Threads, UseInstance(t) PROVE Stays
        BY <2>2 DEF UseInstance, OneInitialiser, Initialises
  <2>3. QED
        BY <2>1, <2>2 DEF Next, Step, CallDefault, CallFor, InitialiseChosen, UseChosen,
                          Probe, Construct
<1>2. QED
      BY <1>1, Invariance, PTL DEF Spec, InitialisedOnce

-----------------------------------------------------------------------------
(* The AVX2 scanner is wanted, cached or handed out only after the probe.     *)
ProbedFirst ==
    LET may == avx2_is_available_at_runtime
    IN  /\ chosen = "Avx2" => may
        /\ \A t \in Threads : want[t] = "Avx2" \/ got[t] = "Avx2" => may

(* dispatch.cpp: neither function, in any thread, hands out a scanner whose   *)
(* instructions the CPU lacks, whatever was compiled in.                     *)
THEOREM ScannerSuitsCpu == Spec => []NeverBeyondTheCpu
<1> USE DEF ProbedFirst, avx2_is_available_at_runtime
<1>1. Init => ProbedFirst
      BY DEF Init, nullptr
<1>2. IInv /\ ProbedFirst /\ [Next]_vars => ProbedFirst'
  <2> SUFFICES ASSUME IInv, ProbedFirst, [Next]_vars PROVE ProbedFirst'
      OBVIOUS
  <2> USE DEF IInv, TypeOK
  <2>1. ASSUME NEW t \in Threads, Probe(t) PROVE ProbedFirst'
        BY <2>1 DEF Probe
  <2>2. ASSUME NEW t \in Threads, NEW kind \in Kind, CallFor(t, kind) PROVE ProbedFirst'
        BY <2>2 DEF CallFor, Return, nullptr
  <2>3. ASSUME NEW t \in Threads, UseChosen(t) PROVE ProbedFirst'
        BY <2>3 DEF UseChosen, Return
  <2>4. ASSUME NEW t \in Threads, UseInstance(t) PROVE ProbedFirst'
        BY <2>4 DEF UseInstance, Return
  <2>5. CASE \E t \in Threads : \/ CallDefault(t) \/ InitialiseChosen(t)
                                \/ Construct(t) \/ Constructed(t)
        BY <2>5 DEF CallDefault, InitialiseChosen, Construct, Constructed
  <2>6. CASE UNCHANGED vars
        BY <2>6 DEF vars
  <2>7. QED
        BY <2>1, <2>2, <2>3, <2>4, <2>5, <2>6 DEF Next, Step
<1>3. ProbedFirst => NeverBeyondTheCpu
      BY DEF NeverBeyondTheCpu
<1>4. QED
      BY <1>1, <1>2, <1>3, Invariance, PTL DEF Spec
=============================================================================
