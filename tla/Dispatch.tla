------------------------------ MODULE Dispatch ------------------------------
(***************************************************************************)
(* The choice of a scanner (preparser/src/dispatch.cpp).  Threads call      *)
(* default_scanner() and scanner_for() at any time.  The chosen scanner and  *)
(* each scanner object are function-local statics: the first thread to       *)
(* reach one initialises it, and the others wait until it has.              *)
(***************************************************************************)
EXTENDS Naturals

CONSTANT Threads

Kind == {"Scalar", "Avx2", "Avx512", "Neon"}
nullptr == "nullptr"

(* The statics: `chosen` of default_scanner, and the `instance` of each       *)
(* scanner that exists.                                                     *)
Instance == {"Scalar", "Avx2"}
Static == {"chosen"} \cup Instance

VARIABLES
    compiled,   \* SWIFTFIX_COMPILE_AVX2
    cpuHasAvx2, \* what __builtin_cpu_supports("avx2") answers
    guard,      \* of each static: "unset", "running" or "set"
    chosen,     \* the reference default_scanner caches
    pc,         \* of each thread
    goal,       \* the function it called: "default", or the kind it asked for
    want,       \* the scanner object it needs next
    got         \* what the thread's last call returned

vars == <<compiled, cpuHasAvx2, guard, chosen, pc, goal, want, got>>

Init ==
    /\ compiled \in BOOLEAN
    /\ cpuHasAvx2 \in BOOLEAN
    /\ guard = [x \in Static |-> "unset"]
    /\ chosen = nullptr
    /\ pc = [t \in Threads |-> "idle"]
    /\ goal = [t \in Threads |-> "default"]
    /\ want = [t \in Threads |-> nullptr]
    /\ got = [t \in Threads |-> nullptr]

Goto(t, label) == pc' = [pc EXCEPT ![t] = label]

Return(t, scanner) ==
    /\ Goto(t, "idle")
    /\ got' = [got EXCEPT ![t] = scanner]

avx2_is_available_at_runtime == compiled /\ cpuHasAvx2

-----------------------------------------------------------------------------
CallDefault(t) ==
    /\ pc[t] = "idle"
    /\ Goto(t, "static")
    /\ goal' = [goal EXCEPT ![t] = "default"]
    /\ UNCHANGED <<compiled, cpuHasAvx2, guard, chosen, want, got>>

(* A faulty static, marked as initialised before its initialiser has run.    *)
InitialiseChosenUnguarded(t) ==
    /\ pc[t] = "static" /\ guard["chosen"] = "unset"
    /\ guard' = [guard EXCEPT !["chosen"] = "set"]
    /\ Goto(t, "probe")
    /\ UNCHANGED <<compiled, cpuHasAvx2, chosen, goal, want, got>>

(* The first thread runs the lambda that initialises `chosen`.               *)
InitialiseChosen(t) ==
    /\ pc[t] = "static" /\ guard["chosen"] = "unset"
    /\ guard' = [guard EXCEPT !["chosen"] = "running"]
    /\ Goto(t, "probe")
    /\ UNCHANGED <<compiled, cpuHasAvx2, chosen, goal, want, got>>

(* Any later thread returns the cached reference, once there is one.         *)
UseChosen(t) ==
    /\ pc[t] = "static" /\ guard["chosen"] = "set"
    /\ Return(t, chosen)
    /\ UNCHANGED <<compiled, cpuHasAvx2, guard, chosen, goal, want>>

(* A faulty probe, which asks only what was compiled.                        *)
ProbeBuild(t) ==
    /\ pc[t] = "probe"
    /\ want' = [want EXCEPT ![t] = IF compiled THEN "Avx2" ELSE "Scalar"]
    /\ Goto(t, "instance")
    /\ UNCHANGED <<compiled, cpuHasAvx2, guard, chosen, goal, got>>

Probe(t) ==
    /\ pc[t] = "probe"
    /\ want' = [want EXCEPT ![t] =
                    IF avx2_is_available_at_runtime THEN "Avx2" ELSE "Scalar"]
    /\ Goto(t, "instance")
    /\ UNCHANGED <<compiled, cpuHasAvx2, guard, chosen, goal, got>>

(* scanner_for(kind): kinds without a scanner are answered at once.          *)
CallFor(t, kind) ==
    /\ pc[t] = "idle"
    /\ goal' = [goal EXCEPT ![t] = kind]
    /\ IF kind = "Scalar" \/ (kind = "Avx2" /\ avx2_is_available_at_runtime)
       THEN /\ want' = [want EXCEPT ![t] = kind]
            /\ Goto(t, "instance")
            /\ UNCHANGED got
       ELSE Return(t, nullptr) /\ UNCHANGED want
    /\ UNCHANGED <<compiled, cpuHasAvx2, guard, chosen>>

-----------------------------------------------------------------------------
(* scalar_scanner_instance(), avx2_scanner_instance(): the object is          *)
(* constructed by the first thread that asks for it.                        *)
Construct(t) ==
    /\ pc[t] = "instance" /\ guard[want[t]] = "unset"
    /\ guard' = [guard EXCEPT ![want[t]] = "running"]
    /\ Goto(t, "construct")
    /\ UNCHANGED <<compiled, cpuHasAvx2, chosen, goal, want, got>>

(* A faulty constructor, which never marks its static as initialised.        *)
ConstructedUnmarked(t) ==
    /\ pc[t] = "construct"
    /\ Goto(t, "instance")
    /\ UNCHANGED <<compiled, cpuHasAvx2, guard, chosen, goal, want, got>>

Constructed(t) ==
    /\ pc[t] = "construct"
    /\ guard' = [guard EXCEPT ![want[t]] = "set"]
    /\ Goto(t, "instance")
    /\ UNCHANGED <<compiled, cpuHasAvx2, chosen, goal, want, got>>

(* The object exists: bind `chosen` to it and leave its initialiser, or       *)
(* return it.                                                               *)
UseInstance(t) ==
    /\ pc[t] = "instance" /\ guard[want[t]] = "set"
    /\ IF goal[t] = "default"
       THEN /\ chosen' = want[t]
            /\ guard' = [guard EXCEPT !["chosen"] = "set"]
            /\ Goto(t, "static")
            /\ UNCHANGED got
       ELSE Return(t, want[t]) /\ UNCHANGED <<guard, chosen>>
    /\ UNCHANGED <<compiled, cpuHasAvx2, goal, want>>

Step(t) ==
    \/ InitialiseChosen(t) \/ UseChosen(t) \/ Probe(t)
    \/ Construct(t) \/ Constructed(t) \/ UseInstance(t)

Next == \E t \in Threads :
    \/ CallDefault(t)
    \/ \E kind \in Kind : CallFor(t, kind)
    \/ Step(t)

(* A thread that was let into a function runs on, unless it waits for a static. *)
Spec == Init /\ [][Next]_vars /\ \A t \in Threads : WF_vars(Step(t))

-----------------------------------------------------------------------------
TypeOK ==
    /\ compiled \in BOOLEAN /\ cpuHasAvx2 \in BOOLEAN
    /\ guard \in [Static -> {"unset", "running", "set"}]
    /\ chosen \in Instance \cup {nullptr}
    /\ pc \in [Threads -> {"idle", "static", "probe", "instance", "construct"}]
    /\ goal \in [Threads -> Kind \cup {"default"}]
    /\ want \in [Threads -> Instance \cup {nullptr}]
    /\ got \in [Threads -> Instance \cup {nullptr}]

Answered(t) == pc[t] = "idle" /\ goal[t] = "default" /\ got[t] # nullptr

(* scanner.hpp: default_scanner is thread-safe and names a singleton that     *)
(* lives as long as the process.  Whichever threads race for the first call,  *)
(* none is handed a scanner that is not constructed, and every answer is the  *)
(* one that stays cached.                                                   *)
OneScanner ==
    /\ guard["chosen"] = "set" => chosen \in Instance /\ guard[chosen] = "set"
    /\ \A t \in Threads :
          (pc[t] = "idle" /\ got[t] # nullptr) => guard[got[t]] = "set"
    /\ \A t \in Threads : Answered(t) => got[t] = chosen

(* No call, by either function, yields code that the CPU cannot run.         *)
NeverBeyondTheCpu ==
    \A t \in Threads : got[t] = "Avx2" => compiled /\ cpuHasAvx2

(* Every initialiser runs once: a static that is set stays as it is.         *)
InitialisedOnce ==
    [][\A x \in Static : guard[x] = "set" =>
          guard'[x] = "set" /\ (x = "chosen" => chosen' = chosen)]_vars

(* No caller waits for ever: the initialiser of `chosen` waits for an         *)
(* instance while it holds up other callers, and nothing waits the other way. *)
EveryCallReturns == \A t \in Threads : pc[t] # "idle" ~> pc[t] = "idle"
=============================================================================
