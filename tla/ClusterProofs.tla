---------------------------- MODULE ClusterProofs ----------------------------
(***************************************************************************)
(* Theorems of Cluster, for any set of servers and of calls, whichever     *)
(* servers are each other's peers, however often they drain, die and are   *)
(* replaced; and, at the end, that the servers, one for each pool, are     *)
(* backends of LoadRouter: every step that they and the router's handlers  *)
(* take is a step that LoadRouter allows, or leaves all that it has        *)
(* unchanged.                                                              *)
(***************************************************************************)
EXTENDS Cluster, TLAPS

-----------------------------------------------------------------------------
(* What a step does to the calls and to the counts, action by action. *)

Calls == [Server -> [Call -> Fate]]

\* The calls in R have a new fate at s, and nothing else is changed.
Becomes(s, R, fate) ==
  /\ call' \in Calls
  /\ \A t \in Server : \A c \in Call :
       call'[t][c] = IF t = s /\ c \in R THEN fate ELSE call[t][c]

\* Moved changes the fate of the calls it names, at one server.
LEMMA MovedBecomes ==
  ASSUME call \in Calls, NEW s \in Server, NEW R, NEW fate \in Fate,
         Moved(s, R, fate)
  PROVE  Becomes(s, R, fate)
  BY DEF Moved, Becomes, Calls

\* The fates are these.
LEMMA Fates ==
  Fate = {"none", "queued", "admitted", "running", "leaving", "lost", "ok", "error",
          "200", "500", "503"}
  BY DEF Fate, Open, Answered

-----------------------------------------------------------------------------
(* The actions of a server in terms of Becomes, with the fates they start from. *)

LEMMA Accepts ==
  ASSUME call \in Calls, NEW s \in Server, NEW c \in Call, Accept(s, c)
  PROVE  Becomes(s, {c}, "queued") /\ call[s][c] = "none" /\ UNCHANGED <<phase, up>>
  BY MovedBecomes, Fates DEF Accept

LEMMA Refuses ==
  ASSUME call \in Calls, NEW s \in Server, NEW c \in Call, Refuse(s, c)
  PROVE  Becomes(s, {c}, "503") /\ call[s][c] = "none" /\ UNCHANGED <<phase, up>>
  BY MovedBecomes, Fates DEF Refuse

LEMMA Responds ==
  ASSUME call \in Calls, NEW s \in Server, NEW c \in Call, Respond(s, c)
  PROVE  /\ \/ Becomes(s, {c}, "200") /\ call[s][c] = "ok"
            \/ Becomes(s, {c}, "500") /\ call[s][c] = "error"
         /\ UNCHANGED <<phase, up>>
<1>1. CASE call[s][c] = "ok"
  BY <1>1, MovedBecomes, Fates DEF Respond
<1>2. CASE call[s][c] = "error"
  BY <1>2, MovedBecomes, Fates DEF Respond
<1> QED
  BY <1>1, <1>2 DEF Respond

LEMMA Schedules ==
  ASSUME call \in Calls, NEW s \in Server, Schedule(s)
  PROVE  /\ UNCHANGED <<phase, up>>
         /\ \/ \E R \in SUBSET In(s, {"queued"}) : Becomes(s, R, "admitted")
            \/ Becomes(s, In(s, {"admitted"}), "running")
            \/ \E R \in SUBSET In(s, {"running"}), o \in {"ok", "error"} : Becomes(s, R, o)
<1>1. ASSUME NEW R \in SUBSET In(s, {"queued"}), Admit(s, R)
      PROVE  Becomes(s, R, "admitted") /\ UNCHANGED <<phase, up>>
  BY <1>1, MovedBecomes, Fates DEF Admit
<1>2. ASSUME Run(s)
      PROVE  Becomes(s, In(s, {"admitted"}), "running") /\ UNCHANGED <<phase, up>>
  BY <1>2, MovedBecomes, Fates DEF Run
<1>3. ASSUME NEW R \in SUBSET In(s, {"running"}), NEW o \in {"ok", "error"}, Finish(s, R, o)
      PROVE  Becomes(s, R, o) /\ UNCHANGED <<phase, up>>
  BY <1>3, MovedBecomes, Fates DEF Finish
<1> QED
  BY <1>1, <1>2, <1>3 DEF Schedule

LEMMA HandsOver ==
  ASSUME call \in Calls, NEW s \in Server, HandOver(s)
  PROVE  /\ \E fate \in {"leaving", "lost"} : Becomes(s, In(s, {"queued"}), fate)
         /\ UNCHANGED <<phase, up>>
<1>1. CASE s \in Migrating
  BY <1>1, MovedBecomes, Fates DEF HandOver
<1>2. CASE s \notin Migrating
  BY <1>2, MovedBecomes, Fates DEF HandOver
<1> QED
  BY <1>1, <1>2

LEMMA Goes ==
  ASSUME call \in Calls, NEW s \in Server, Gone(s)
  PROVE  Becomes(s, Call, "none") /\ up' = up \ {s}
  BY MovedBecomes, Fates DEF Gone

LEMMA ForwardedBecomes ==
  ASSUME call \in Calls, NEW s \in Server, NEW o \in {"ok", "error"}, NEW c \in Call,
         Forwarded(s, c, o)
  PROVE  Becomes(s, {c}, o) /\ call[s][c] = "leaving" /\ UNCHANGED <<phase, up>>
  BY MovedBecomes, Fates DEF Forwarded

-----------------------------------------------------------------------------
(* The type invariant. *)

LEMMA TypeInit == ClusterInit => TypeOK
<1> SUFFICES ASSUME ClusterInit PROVE TypeOK
  OBVIOUS
<1>1. call \in [Server -> [Call -> Fate]]
  BY Fates DEF ClusterInit, Init
<1>2. /\ forward \in [Server -> Forwards]
      /\ \A s \in Server : ~Forwarding(s)
  BY DEF ClusterInit, Forwards, NoForward, Forwarding, None
<1>3. /\ phase \in [Server -> {"RUNNING", "DRAINING", "DRAINED"}]
      /\ up \subseteq Server
      /\ route \in [Call -> Server \cup {None}]
      /\ reply \in [Call -> {"200", "500", "503", "error", None}]
      /\ status \in [Call -> {"200", "500", None}]
      /\ runs \in [Call -> Nat]
  BY DEF ClusterInit, Init
<1> QED
  BY <1>1, <1>2, <1>3 DEF TypeOK

\* What concerns the router keeps its type whoever steps.
RouterOK ==
  /\ route \in [Call -> Server \cup {None}]
  /\ reply \in [Call -> {"200", "500", "503", "error", None}]
  /\ status \in [Call -> {"200", "500", None}]

\* The calls and forwards, the two parts that depend on each other.
ForwardsOK ==
  /\ forward \in [Server -> Forwards]
  /\ \A s \in Server : Forwarding(s) =>
       /\ s \in up
       /\ forward[s].peer \in Peers[s]
       /\ forward[s].of \in In(s, {"leaving"})

\* A forward stays right while the server runs and the call it is for is left alone.
LEMMA ForwardsUntouched ==
  ASSUME TypeOK, UNCHANGED forward,
         \A s \in Server : Forwarding(s) =>
           s \in up' /\ call'[s][forward[s].of] = call[s][forward[s].of]
  PROVE  ForwardsOK'
  BY DEF TypeOK, ForwardsOK, Forwarding, In

\* The call that a server's drain has sent to a peer is one of the calls.
LEMMA ForwardedIsCall ==
  ASSUME TypeOK, NEW s \in Server, Forwarding(s)
  PROVE  forward[s].of \in Call
  BY DEF TypeOK, In

-----------------------------------------------------------------------------
(* Every action keeps the type. *)

LEMMA TypeSubmit ==
  ASSUME TypeOK, NEW c \in Call, Submit(c)
  PROVE  TypeOK'
<1>1. PICK s \in Routed :
        /\ route' = [route EXCEPT ![c] = s]
        /\ IF s \in up THEN Accept(s, c) \/ Refuse(s, c) ELSE UNCHANGED services
  BY DEF Submit
<1>2. s \in Server
  BY RouterChooses
<1>3. RouterOK' /\ runs' \in [Call -> Nat] /\ UNCHANGED forward
  BY <1>1, <1>2 DEF Submit, RouterOK, TypeOK
<1>4. CASE UNCHANGED services
  <2>1. UNCHANGED <<phase, call, up>>
    BY <1>4 DEF services
  <2>2. ForwardsOK'
    BY <1>3, <2>1, ForwardsUntouched DEF TypeOK
  <2> QED
    BY <1>3, <2>1, <2>2 DEF TypeOK, RouterOK, ForwardsOK
<1>5. ASSUME NEW fate, Becomes(s, {c}, fate), call[s][c] = "none", UNCHANGED <<phase, up>>
      PROVE  TypeOK'
  <2>1. ForwardsOK'
    BY <1>2, <1>3, <1>5, ForwardsUntouched, ForwardedIsCall DEF TypeOK, Becomes, In
  <2> QED
    BY <1>3, <1>5, <2>1 DEF TypeOK, RouterOK, ForwardsOK, Becomes, Calls
<1> QED
  BY <1>1, <1>2, <1>4, <1>5, Accepts, Refuses DEF TypeOK, Calls

\* A step of one server that changes the fate of calls at it, none of which it
\* forwards, or at most the one whose forward is done.
LEMMA TypeCalls ==
  ASSUME TypeOK, NEW s \in Server, NEW R, NEW fate, Becomes(s, R, fate),
         phase' \in [Server -> {"RUNNING", "DRAINING", "DRAINED"}],
         up' = up, UNCHANGED forward, UNCHANGED router, runs' \in [Call -> Nat],
         Forwarding(s) => forward[s].of \notin R
  PROVE  TypeOK'
<1>1. ForwardsOK'
  BY ForwardsUntouched, ForwardedIsCall DEF TypeOK, Becomes, In
<1> QED
  BY <1>1 DEF TypeOK, RouterOK, ForwardsOK, Becomes, Calls, router

LEMMA TypeAnswer ==
  ASSUME TypeOK, NEW s \in Server, NEW c \in Call, Answer(s, c)
  PROVE  TypeOK'
<1>1. UNCHANGED <<phase, up, route, status, forward, runs>>
  BY Responds DEF Answer, TypeOK, Calls, services
<1>2. /\ call' \in Calls
      /\ call'[s][c] \in {"200", "500", "503"}
      /\ \A t \in Server : \A d \in Call :
           call[t][d] = "leaving" => call'[t][d] = "leaving"
  <2>1. CASE Respond(s, c)
    <3>1. PICK a \in {"200", "500"} : Becomes(s, {c}, a) /\ call[s][c] \in {"ok", "error"}
      BY <2>1, Responds DEF TypeOK, Calls
    <3> QED
      BY <3>1 DEF Becomes
  <2>2. CASE call[s][c] = "503" /\ UNCHANGED services
    BY <2>2 DEF TypeOK, Calls, services
  <2> QED
    BY <2>1, <2>2 DEF Answer
<1>3. reply' \in [Call -> {"200", "500", "503", "error", None}]
  BY <1>2 DEF Answer, TypeOK
<1>4. ForwardsOK'
  BY <1>1, <1>2 DEF TypeOK, ForwardsOK, Forwarding, In
<1> QED
  BY <1>1, <1>2, <1>3, <1>4 DEF TypeOK, ForwardsOK, Calls

LEMMA TypeRouter ==
  ASSUME TypeOK, NEW c \in Call, ConnectionLost(c) \/ CallTimesOut(c) \/ Deliver(c)
  PROVE  TypeOK'
<1>1. UNCHANGED <<phase, call, up, route, forward, runs>>
  BY DEF ConnectionLost, CallTimesOut, Deliver, services
<1>2. RouterOK'
  BY DEF TypeOK, RouterOK, ConnectionLost, CallTimesOut, Deliver
<1>3. ForwardsOK'
  BY <1>1 DEF TypeOK, ForwardsOK, Forwarding, In
<1> QED
  BY <1>1, <1>2, <1>3 DEF TypeOK, RouterOK, ForwardsOK

LEMMA TypeSchedules ==
  ASSUME TypeOK, NEW s \in Server, ServerSchedules(s)
  PROVE  TypeOK'
<1>1. UNCHANGED router /\ UNCHANGED forward /\ runs' \in [Call -> Nat]
  BY DEF ServerSchedules, TypeOK
<1>2. phase' \in [Server -> {"RUNNING", "DRAINING", "DRAINED"}] /\ up' = up
  BY Schedules DEF ServerSchedules, TypeOK, Calls
<1>3. ASSUME NEW f, NEW R \in SUBSET In(s, {f}), f # "leaving", NEW fate, Becomes(s, R, fate)
      PROVE  TypeOK'
  <2>1. Forwarding(s) => forward[s].of \notin R
    BY <1>3 DEF TypeOK, In
  <2> QED
    BY <1>1, <1>2, <1>3, <2>1, TypeCalls
<1>4. \/ \E R \in SUBSET In(s, {"queued"}) : Becomes(s, R, "admitted")
      \/ Becomes(s, In(s, {"admitted"}), "running")
      \/ \E R \in SUBSET In(s, {"running"}), o \in {"ok", "error"} : Becomes(s, R, o)
  BY Schedules DEF ServerSchedules, TypeOK, Calls
<1>5. CASE \E R \in SUBSET In(s, {"queued"}) : Becomes(s, R, "admitted")
  BY <1>3, <1>5
<1>6. CASE Becomes(s, In(s, {"admitted"}), "running")
  BY <1>3, <1>6
<1>7. CASE \E R \in SUBSET In(s, {"running"}), o \in {"ok", "error"} : Becomes(s, R, o)
  BY <1>3, <1>7
<1> QED
  BY <1>4, <1>5, <1>6, <1>7

LEMMA TypeDrain ==
  ASSUME TypeOK, NEW s \in Server, PreemptionNotice(s) \/ HandOver(s) \/ FinishDrain(s),
         UNCHANGED <<router, forward, runs>>
  PROVE  TypeOK'
<1>1. CASE PreemptionNotice(s) \/ (FinishDrain(s) /\ ~ExitOnComplete)
  <2>1. /\ phase' \in [Server -> {"RUNNING", "DRAINING", "DRAINED"}]
        /\ UNCHANGED <<call, up>>
    BY <1>1 DEF PreemptionNotice, BeginDrain, FinishDrain, TypeOK
  <2>2. ForwardsOK'
    BY <2>1, ForwardsUntouched DEF TypeOK
  <2> QED
    BY <2>1, <2>2 DEF TypeOK, ForwardsOK, router
<1>2. CASE HandOver(s)
  BY <1>2, HandsOver, TypeCalls DEF TypeOK, Calls, In
<1>3. CASE FinishDrain(s) /\ ExitOnComplete
  <2>1. Becomes(s, Call, "none") /\ up' = up \ {s}
    BY <1>3, Goes DEF FinishDrain, TypeOK, Calls
  <2>2. phase' \in [Server -> {"RUNNING", "DRAINING", "DRAINED"}]
    BY <1>3 DEF FinishDrain, TypeOK
  <2>3. ~Forwarding(s)
    BY <1>3 DEF FinishDrain, TypeOK, In
  <2>4. ForwardsOK'
    BY <2>1, <2>3, ForwardsUntouched, ForwardedIsCall DEF TypeOK, Becomes
  <2> QED
    BY <2>1, <2>2, <2>4 DEF TypeOK, ForwardsOK, Becomes, Calls, router
<1> QED
  BY <1>1, <1>2, <1>3

LEMMA TypeForwardDone ==
  ASSUME TypeOK, NEW s \in Server, NEW o \in {"ok", "error"}, ForwardDone(s, o)
  PROVE  TypeOK'
<1>1. Becomes(s, {forward[s].of}, o) /\ UNCHANGED <<phase, up>>
  BY ForwardedBecomes, ForwardedIsCall DEF ForwardDone, TypeOK, Calls
<1>2. forward' = [forward EXCEPT ![s] = NoForward] /\ UNCHANGED <<router, runs>>
  BY DEF ForwardDone
<1>3. ForwardsOK'
  <2>1. forward' \in [Server -> Forwards]
    BY <1>2 DEF TypeOK, Forwards, NoForward
  <2>2. ~Forwarding(s)'
    BY <1>2 DEF TypeOK, Forwarding, NoForward
  <2>3. ASSUME NEW t \in Server, t # s, Forwarding(t)'
        PROVE  /\ t \in up'
               /\ forward'[t].peer \in Peers[t]
               /\ forward'[t].of \in In(t, {"leaving"})'
    BY <1>1, <1>2, <2>3 DEF TypeOK, Forwarding, Becomes, In
  <2> QED
    BY <2>1, <2>2, <2>3 DEF ForwardsOK
<1> QED
  BY <1>1, <1>2, <1>3 DEF TypeOK, ForwardsOK, Becomes, Calls, router

LEMMA TypeForwardSend ==
  ASSUME TypeOK, NEW s \in Server, ForwardSend(s)
  PROVE  TypeOK'
<1>1. PICK c \in In(s, {"leaving"}), p \in Peers[s] :
        /\ IF p \in up /\ phase[p] = "RUNNING" THEN Accept(p, c) ELSE UNCHANGED services
        /\ forward' = [forward EXCEPT ![s] =
             [peer |-> p, of |-> c, accepted |-> p \in up /\ phase[p] = "RUNNING"]]
  BY DEF ForwardSend
<1>2. p \in Server /\ c \in Call /\ s \in up /\ UNCHANGED <<router, runs>>
  BY <1>1, PeersMigrate DEF ForwardSend, In
<1>3. /\ call' \in Calls /\ UNCHANGED <<phase, up>>
      /\ \A t \in Server : \A d \in Call :
           call[t][d] = "leaving" => call'[t][d] = "leaving"
  <2>1. CASE Accept(p, c)
    <3>1. Becomes(p, {c}, "queued") /\ call[p][c] = "none" /\ UNCHANGED <<phase, up>>
      BY <1>2, <2>1, Accepts DEF TypeOK, Calls
    <3> QED
      BY <3>1 DEF Becomes
  <2>2. CASE UNCHANGED services
    BY <2>2 DEF TypeOK, Calls, services
  <2> QED
    BY <1>1, <2>1, <2>2
<1>4. forward' \in [Server -> Forwards]
  BY <1>1, <1>2 DEF TypeOK, Forwards
<1>5. ASSUME NEW t \in Server, Forwarding(t)'
      PROVE  /\ t \in up'
             /\ forward'[t].peer \in Peers[t]
             /\ forward'[t].of \in In(t, {"leaving"})'
  <2>1. CASE t = s
    BY <1>1, <1>2, <1>3, <2>1 DEF TypeOK, In
  <2>2. CASE t # s
    BY <1>1, <1>2, <1>3, <1>5, <2>2 DEF TypeOK, Forwarding, In
  <2> QED
    BY <2>1, <2>2
<1> QED
  BY <1>2, <1>3, <1>4, <1>5 DEF TypeOK, ForwardsOK, Calls, router

LEMMA TypeKill ==
  ASSUME TypeOK, NEW s \in Server, Kill(s)
  PROVE  TypeOK'
<1>1. Becomes(s, Call, "none") /\ up' = up \ {s}
  BY Goes DEF Kill, TypeOK, Calls
<1>2. /\ forward' = [forward EXCEPT ![s] = NoForward]
      /\ UNCHANGED <<router, runs>>
      /\ phase' \in [Server -> {"RUNNING", "DRAINING", "DRAINED"}]
  BY DEF Kill, TypeOK
<1>3. forward' \in [Server -> Forwards]
  BY <1>2 DEF TypeOK, Forwards, NoForward
<1>4. ~Forwarding(s)'
  BY <1>2 DEF TypeOK, Forwarding, NoForward
<1>5. ASSUME NEW t \in Server, t # s, Forwarding(t)'
      PROVE  /\ t \in up'
             /\ forward'[t].peer \in Peers[t]
             /\ forward'[t].of \in In(t, {"leaving"})'
  BY <1>1, <1>2, <1>5 DEF TypeOK, Forwarding, Becomes, In
<1> QED
  BY <1>1, <1>2, <1>3, <1>4, <1>5 DEF TypeOK, Becomes, Calls, router

LEMMA TypeReplace ==
  ASSUME TypeOK, NEW s \in Server, Replace(s)
  PROVE  TypeOK'
<1>1. ForwardsOK'
  BY ForwardsUntouched DEF Replace, TypeOK
<1> QED
  BY <1>1 DEF Replace, TypeOK, ForwardsOK, router

LEMMA TypeNext == TypeOK /\ [ClusterNext]_vars => TypeOK'
<1> SUFFICES ASSUME TypeOK, [ClusterNext]_vars
             PROVE  TypeOK'
  OBVIOUS
<1>1. ASSUME NEW s \in Server, DrainGoesOn(s) PROVE TypeOK'
  BY <1>1, TypeDrain DEF DrainGoesOn
<1>2. ASSUME NEW s \in Server, PreemptionNotice(s) PROVE TypeOK'
  BY <1>2, TypeDrain DEF PreemptionNotice
<1>3. ASSUME NEW s \in Server,
             ForwardAnswered(s) \/ ForwardFails(s) \/ ForwardTimesOut(s)
      PROVE  TypeOK'
  BY <1>3, TypeForwardDone DEF ForwardAnswered, ForwardFails, ForwardTimesOut
<1>4. CASE UNCHANGED vars
  BY <1>4 DEF vars, services, router, TypeOK, Forwarding, In
<1> QED
  BY <1>1, <1>2, <1>3, <1>4, TypeSubmit, TypeAnswer, TypeRouter, TypeSchedules,
     TypeForwardSend, TypeKill, TypeReplace DEF ClusterNext, OrchestratorNext

\* The variables keep to their values, and a server waits for a peer only for a
\* call it has handed over: the type invariant, for any set of servers.
THEOREM TypeCorrect == ClusterSpec => []TypeOK
  BY TypeInit, TypeNext, PTL DEF ClusterSpec

-----------------------------------------------------------------------------
(* The model runs for a call once at most. *)

\* A call that server s has not run, and that it will run or hand over unless
\* it fails: it waits, has been taken by the scheduler, or is still to be sent.
Owns(s, c) ==
  \/ call[s][c] \in {"queued", "admitted"}
  \/ call[s][c] = "leaving" /\ ~(Forwarding(s) /\ forward[s].of = c)

\* A call that the router has not sent anywhere is nowhere.
Unsent == \A c \in Call : route[c] = None => \A s \in Server : call[s][c] = "none"

\* A call that is owned has not run and has one owner.
OneOwner ==
  \A c \in Call : \A s \in Server : Owns(s, c) =>
    runs[c] = 0 /\ \A t \in Server : Owns(t, c) => s = t

\* A call that the router has not sent has not run.
UnsentUnrun == \A c \in Call : route[c] = None => runs[c] = 0

OnceInv == TypeOK /\ Unsent /\ UnsentUnrun /\ OneOwner /\ ServedAtMostOnce

\* Steps after which nobody owns what he did not own before, with no run.
LEMMA OnceIfNoneGains ==
  ASSUME OnceInv, TypeOK', UNCHANGED runs,
         \A c \in Call : \A s \in Server : Owns(s, c)' => Owns(s, c)
  PROVE  OneOwner' /\ ServedAtMostOnce'
  BY DEF OnceInv, OneOwner, ServedAtMostOnce

\* Steps that send no call and give no server a call that had come to none.
LEMMA UnsentStays ==
  ASSUME OnceInv, \A c \in Call : route'[c] = None => route[c] = None,
         UNCHANGED runs,
         \A c \in Call : \A s \in Server : route[c] = None => call'[s][c] = "none"
  PROVE  Unsent' /\ UnsentUnrun'
  BY DEF OnceInv, Unsent, UnsentUnrun

LEMMA OnceInit == ClusterInit => OnceInv
<1> SUFFICES ASSUME ClusterInit PROVE OnceInv
  OBVIOUS
<1>1. /\ \A c \in Call : runs[c] = 0
      /\ \A c \in Call : \A s \in Server : call[s][c] = "none"
  BY DEF ClusterInit, Init
<1> QED
  BY <1>1, TypeInit DEF OnceInv, Unsent, UnsentUnrun, OneOwner, Owns, ServedAtMostOnce

\* The router sends a call that nobody owns to one server.
LEMMA OnceSubmit ==
  ASSUME OnceInv, TypeOK', NEW c \in Call, Submit(c)
  PROVE  OnceInv'
<1>1. PICK s \in Routed :
        /\ route' = [route EXCEPT ![c] = s]
        /\ IF s \in up THEN Accept(s, c) \/ Refuse(s, c) ELSE UNCHANGED services
  BY DEF Submit
<1>2. /\ s \in Server /\ s # None /\ route[c] = None /\ runs' = runs /\ forward' = forward
      /\ route'[c] = s /\ \A d \in Call : d # c => route'[d] = route[d]
  BY <1>1, RouterChooses, NoneIsNoServer DEF Submit, None, OnceInv, TypeOK
<1>3. CASE UNCHANGED services
  <2>1. call' = call
    BY <1>3 DEF services
  <2>2. \A t \in Server : \A d \in Call : Owns(t, d)' => Owns(t, d)
    BY <1>2, <2>1 DEF Owns, Forwarding
  <2>3. Unsent' /\ UnsentUnrun'
    BY <1>2, <2>1 DEF OnceInv, Unsent, UnsentUnrun
  <2> QED
    BY <1>2, <2>2, <2>3, OnceIfNoneGains DEF OnceInv
<1>4. ASSUME NEW fate \in {"queued", "503"}, Becomes(s, {c}, fate) PROVE OnceInv'
  <2>1. \A t \in Server : \A d \in Call : Owns(t, d)' => Owns(t, d) \/ (t = s /\ d = c)
    BY <1>2, <1>4 DEF Owns, Forwarding, Becomes
  <2>2. \A t \in Server : ~Owns(t, c)
    BY <1>2 DEF OnceInv, Unsent, Owns
  <2>3. runs[c] = 0
    BY <1>2 DEF OnceInv, UnsentUnrun
  <2>4. OneOwner' /\ ServedAtMostOnce'
    BY <1>2, <2>1, <2>2, <2>3 DEF OnceInv, OneOwner, ServedAtMostOnce
  <2>5. Unsent' /\ UnsentUnrun'
    BY <1>2, <1>4 DEF OnceInv, Unsent, UnsentUnrun, Becomes
  <2> QED
    BY <2>4, <2>5 DEF OnceInv
<1> QED
  BY <1>1, <1>2, <1>3, <1>4, Accepts, Refuses DEF OnceInv, TypeOK, Calls

LEMMA OnceAnswer ==
  ASSUME OnceInv, TypeOK', NEW s \in Server, NEW c \in Call, Answer(s, c)
  PROVE  OnceInv'
<1>1. UNCHANGED <<route, forward, runs>>
  BY DEF Answer
<1>2. \A t \in Server : \A d \in Call :
        \/ call'[t][d] = call[t][d]
        \/ call[t][d] \in {"ok", "error"} /\ call'[t][d] \in {"200", "500"}
  <2>1. CASE Respond(s, c)
    <3>1. PICK a \in {"200", "500"} : Becomes(s, {c}, a) /\ call[s][c] \in {"ok", "error"}
      BY <2>1, Responds DEF OnceInv, TypeOK, Calls
    <3> QED
      BY <3>1 DEF Becomes
  <2>2. CASE UNCHANGED services
    BY <2>2 DEF services
  <2> QED
    BY <2>1, <2>2 DEF Answer
<1>3. \A t \in Server : \A d \in Call : Owns(t, d)' => Owns(t, d)
  BY <1>1, <1>2 DEF Owns, Forwarding
<1>4. \A d \in Call : \A t \in Server : route[d] = None => call'[t][d] = "none"
  BY <1>2 DEF OnceInv, Unsent
<1> QED
  BY <1>1, <1>3, <1>4, OnceIfNoneGains, UnsentStays DEF OnceInv

LEMMA OnceQuiet ==
  ASSUME OnceInv, TypeOK', UNCHANGED <<call, route, forward, runs>>
  PROVE  OnceInv'
  BY DEF OnceInv, Unsent, UnsentUnrun, OneOwner, Owns, Forwarding, ServedAtMostOnce

\* The owner admits a call, or runs it and owns it no more.
LEMMA OnceSchedules ==
  ASSUME OnceInv, TypeOK', NEW s \in Server, ServerSchedules(s)
  PROVE  OnceInv'
<1>1. /\ UNCHANGED <<route, forward>>
      /\ runs' = [c \in Call |->
           IF call[s][c] = "admitted" /\ call'[s][c] = "running" THEN runs[c] + 1
           ELSE runs[c]]
  BY DEF ServerSchedules, router
<1>2. \/ \E R \in SUBSET In(s, {"queued"}) : Becomes(s, R, "admitted")
      \/ Becomes(s, In(s, {"admitted"}), "running")
      \/ \E R \in SUBSET In(s, {"running"}), o \in {"ok", "error"} : Becomes(s, R, o)
  BY Schedules DEF ServerSchedules, OnceInv, TypeOK, Calls
<1>3. \A t \in Server : \A d \in Call :
        \/ call'[t][d] = call[t][d]
        \/ call[t][d] = "queued" /\ call'[t][d] = "admitted"
        \/ t = s /\ call[t][d] = "admitted" /\ call'[t][d] = "running"
        \/ call[t][d] = "running" /\ call'[t][d] \in {"ok", "error"}
  <2>1. CASE \E R \in SUBSET In(s, {"queued"}) : Becomes(s, R, "admitted")
    BY <2>1 DEF Becomes, In
  <2>2. CASE Becomes(s, In(s, {"admitted"}), "running")
    BY <2>2 DEF Becomes, In
  <2>3. CASE \E R \in SUBSET In(s, {"running"}), o \in {"ok", "error"} : Becomes(s, R, o)
    BY <2>3 DEF Becomes, In
  <2> QED
    BY <1>2, <2>1, <2>2, <2>3
<1>4. \A d \in Call :
        \/ runs'[d] = runs[d]
        \/ runs'[d] = 1 /\ Owns(s, d) /\ ~Owns(s, d)'
  BY <1>1 DEF OnceInv, OneOwner, Owns
<1>5. \A t \in Server : \A d \in Call : Owns(t, d)' => Owns(t, d)
  BY <1>1, <1>3 DEF Owns, Forwarding
<1>6. OneOwner' /\ ServedAtMostOnce'
  BY <1>4, <1>5 DEF OnceInv, OneOwner, ServedAtMostOnce
<1>7. Unsent' /\ UnsentUnrun'
  BY <1>1, <1>3 DEF OnceInv, Unsent, UnsentUnrun
<1> QED
  BY <1>6, <1>7 DEF OnceInv

\* A drain hands over what its server owns, and an exit ends all ownership.
LEMMA OnceDrain ==
  ASSUME OnceInv, TypeOK', NEW s \in Server, PreemptionNotice(s) \/ DrainGoesOn(s)
  PROVE  OnceInv'
<1>1. UNCHANGED <<route, forward, runs>>
  BY DEF PreemptionNotice, DrainGoesOn, router
<1>2. \A t \in Server : \A d \in Call :
        \/ call'[t][d] = call[t][d]
        \/ call'[t][d] = "none"
        \/ call[t][d] = "queued" /\ call'[t][d] \in {"leaving", "lost"}
  <2>1. CASE HandOver(s)
    BY <2>1, HandsOver DEF OnceInv, TypeOK, Calls, Becomes, In
  <2>2. CASE FinishDrain(s) /\ ExitOnComplete
    BY <2>2, Goes DEF OnceInv, TypeOK, Calls, Becomes, FinishDrain
  <2>3. CASE UNCHANGED call
    BY <2>3
  <2> QED
    BY <2>1, <2>2, <2>3 DEF PreemptionNotice, BeginDrain, DrainGoesOn, FinishDrain
<1>3. \A t \in Server : \A d \in Call : Owns(t, d)' => Owns(t, d)
  BY <1>1, <1>2 DEF Owns, Forwarding, OnceInv, TypeOK, In
<1>4. \A d \in Call : \A t \in Server : route[d] = None => call'[t][d] = "none"
  BY <1>2 DEF OnceInv, Unsent
<1> QED
  BY <1>1, <1>3, <1>4, OnceIfNoneGains, UnsentStays DEF OnceInv

\* The server that sends a call to a peer owned it, and the peer owns it now if
\* it has accepted.
LEMMA OnceForwardSend ==
  ASSUME OnceInv, TypeOK', NEW s \in Server, ForwardSend(s)
  PROVE  OnceInv'
<1>1. PICK c \in In(s, {"leaving"}), p \in Peers[s] :
        /\ IF p \in up /\ phase[p] = "RUNNING" THEN Accept(p, c) ELSE UNCHANGED services
        /\ forward' = [forward EXCEPT ![s] =
             [peer |-> p, of |-> c, accepted |-> p \in up /\ phase[p] = "RUNNING"]]
  BY DEF ForwardSend
<1>2. /\ p \in Server /\ p # None /\ c \in Call
      /\ call[s][c] = "leaving" /\ UNCHANGED <<route, runs>>
      /\ ~Forwarding(s)
  BY <1>1, PeersMigrate, NoneIsNoServer DEF ForwardSend, In, None, router
<1>3. /\ forward'[s].peer = p /\ forward'[s].of = c
      /\ \A t \in Server : t # s => forward'[t] = forward[t]
  BY <1>1 DEF OnceInv, TypeOK
<1>4. Owns(s, c)
  BY <1>2 DEF Owns
<1>5. runs[c] = 0 /\ \A t \in Server : Owns(t, c) => t = s
  BY <1>2, <1>4 DEF OnceInv, OneOwner
<1>6. \A t \in Server : \A d \in Call :
        \/ call'[t][d] = call[t][d]
        \/ t = p /\ d = c /\ call[t][d] = "none" /\ call'[t][d] = "queued"
  <2>1. CASE Accept(p, c)
    BY <1>2, <2>1, Accepts DEF OnceInv, TypeOK, Calls, Becomes
  <2>2. CASE UNCHANGED services
    BY <2>2 DEF services
  <2> QED
    BY <1>1, <2>1, <2>2
<1>7. ~Owns(s, c)'
  BY <1>2, <1>3, <1>6 DEF Owns, Forwarding
<1>8. \A t \in Server : \A d \in Call : Owns(t, d)' => Owns(t, d) \/ (t = p /\ d = c)
  BY <1>2, <1>3, <1>6 DEF Owns, Forwarding
<1>9. OneOwner' /\ ServedAtMostOnce'
  BY <1>2, <1>5, <1>7, <1>8 DEF OnceInv, OneOwner, ServedAtMostOnce
<1>10. Unsent' /\ UnsentUnrun'
  BY <1>2, <1>6 DEF OnceInv, Unsent, UnsentUnrun
<1> QED
  BY <1>9, <1>10 DEF OnceInv

\* The call that was forwarded is over at this server, whatever the peer does.
LEMMA OnceForwardDone ==
  ASSUME OnceInv, TypeOK', NEW s \in Server, NEW o \in {"ok", "error"}, ForwardDone(s, o)
  PROVE  OnceInv'
<1>a. TypeOK /\ call \in Calls
  BY DEF OnceInv, TypeOK, Calls
<1>1. Becomes(s, {forward[s].of}, o) /\ call[s][forward[s].of] = "leaving"
  BY <1>a, ForwardedBecomes, ForwardedIsCall DEF ForwardDone
<1>2. /\ forward' = [forward EXCEPT ![s] = NoForward] /\ UNCHANGED <<route, runs>>
      /\ Forwarding(s)
  BY DEF ForwardDone, router
<1>3. \A t \in Server : t # s => forward'[t] = forward[t]
  BY <1>2 DEF OnceInv, TypeOK
<1>4. \A t \in Server : \A d \in Call : Owns(t, d)' => Owns(t, d)
  BY <1>1, <1>2, <1>3 DEF Owns, Forwarding, Becomes
<1>5. \A d \in Call : \A t \in Server : route[d] = None => call'[t][d] = "none"
  BY <1>1, <1>2 DEF OnceInv, Unsent, Becomes
<1> QED
  BY <1>2, <1>4, <1>5, OnceIfNoneGains, UnsentStays DEF OnceInv

LEMMA OnceKill ==
  ASSUME OnceInv, TypeOK', NEW s \in Server, Kill(s)
  PROVE  OnceInv'
<1>1. Becomes(s, Call, "none")
  BY Goes DEF Kill, OnceInv, TypeOK, Calls
<1>2. forward' = [forward EXCEPT ![s] = NoForward] /\ UNCHANGED <<route, runs>>
  BY DEF Kill, router
<1>3. \A t \in Server : t # s => forward'[t] = forward[t]
  BY <1>2 DEF OnceInv, TypeOK
<1>4. \A t \in Server : \A d \in Call : Owns(t, d)' => Owns(t, d)
  BY <1>1, <1>3 DEF Owns, Forwarding, Becomes
<1>5. \A d \in Call : \A t \in Server : route[d] = None => call'[t][d] = "none"
  BY <1>1, <1>2 DEF OnceInv, Unsent, Becomes
<1> QED
  BY <1>2, <1>4, <1>5, OnceIfNoneGains, UnsentStays DEF OnceInv

LEMMA OnceNext == OnceInv /\ [ClusterNext]_vars => OnceInv'
<1> SUFFICES ASSUME OnceInv, [ClusterNext]_vars
             PROVE  OnceInv'
  OBVIOUS
<1>1. TypeOK'
  BY TypeNext DEF OnceInv
<1>2. ASSUME NEW c \in Call, ConnectionLost(c) \/ CallTimesOut(c) \/ Deliver(c) PROVE OnceInv'
  BY <1>1, <1>2, OnceQuiet DEF ConnectionLost, CallTimesOut, Deliver, services
<1>3. ASSUME NEW s \in Server,
             ForwardAnswered(s) \/ ForwardFails(s) \/ ForwardTimesOut(s)
      PROVE  OnceInv'
  BY <1>1, <1>3, OnceForwardDone DEF ForwardAnswered, ForwardFails, ForwardTimesOut
<1>4. ASSUME NEW s \in Server, Replace(s) PROVE OnceInv'
  BY <1>1, <1>4, OnceQuiet DEF Replace, router
<1>5. CASE UNCHANGED vars
  BY <1>1, <1>5, OnceQuiet DEF vars, services, router
<1> QED
  BY <1>1, <1>2, <1>3, <1>4, <1>5, OnceSubmit, OnceAnswer, OnceSchedules, OnceDrain,
     OnceForwardSend, OnceKill DEF ClusterNext, OrchestratorNext

\* However a call wanders between servers that drain, die, are replaced and give
\* up waiting for each other, the model runs for it once at most.
THEOREM CallServedAtMostOnce == ClusterSpec => []ServedAtMostOnce
<1>1. OnceInv => ServedAtMostOnce
  BY DEF OnceInv
<1> QED
  BY <1>1, OnceInit, OnceNext, PTL DEF ClusterSpec

-----------------------------------------------------------------------------
(* Success is what a server passes on that has run the call. *)

\* A fate that stands for success, wherever the call is.
Ran == \A s \in Server : \A c \in Call : call[s][c] \in {"running", "ok", "200"} => runs[c] > 0

Told == \A c \in Call : reply[c] = "200" => runs[c] > 0

SuccessInv == TypeOK /\ Ran /\ Told /\ SuccessMeansServed

\* Steps that make no run and no success of a call that had none.
LEMMA SuccessIfNoneGains ==
  ASSUME SuccessInv, TypeOK', UNCHANGED <<reply, status, runs>>,
         \A s \in Server : \A c \in Call :
           call'[s][c] \in {"running", "ok", "200"} =>
             call[s][c] \in {"running", "ok", "200"} \/ runs[c] > 0
  PROVE  SuccessInv'
  BY DEF SuccessInv, Ran, Told, SuccessMeansServed

LEMMA SuccessInit == ClusterInit => SuccessInv
<1> SUFFICES ASSUME ClusterInit PROVE SuccessInv
  OBVIOUS
<1>1. /\ \A c \in Call : reply[c] = None /\ status[c] = None
      /\ \A c \in Call : \A s \in Server : call[s][c] = "none"
  BY DEF ClusterInit, Init
<1> QED
  BY <1>1, TypeInit DEF SuccessInv, Ran, Told, SuccessMeansServed, None

LEMMA SuccessNext == SuccessInv /\ [ClusterNext]_vars => SuccessInv'
<1> SUFFICES ASSUME SuccessInv, [ClusterNext]_vars
             PROVE  SuccessInv'
  OBVIOUS
<1>1. TypeOK' /\ call \in Calls
  BY TypeNext DEF SuccessInv, TypeOK, Calls
<1>2. ASSUME NEW c \in Call, Submit(c) PROVE SuccessInv'
  <2>1. PICK s \in Routed :
          IF s \in up THEN Accept(s, c) \/ Refuse(s, c) ELSE UNCHANGED services
    BY <1>2 DEF Submit
  <2>2. s \in Server /\ UNCHANGED <<reply, status, runs>>
    BY <1>2, RouterChooses DEF Submit
  <2>3. CASE Accept(s, c) \/ Refuse(s, c)
    BY <1>1, <2>2, <2>3, Accepts, Refuses, SuccessIfNoneGains DEF Becomes
  <2>4. CASE UNCHANGED services
    BY <1>1, <2>2, <2>4, SuccessIfNoneGains DEF services
  <2> QED
    BY <2>1, <2>3, <2>4
<1>3. ASSUME NEW s \in Server, NEW c \in Call, Answer(s, c) PROVE SuccessInv'
  <2>1. /\ \A t \in Server : \A d \in Call :
             call'[t][d] \in {"running", "ok", "200"} => runs[d] > 0
    <3>1. CASE Respond(s, c)
      BY <1>1, <3>1, Responds DEF Becomes, SuccessInv, Ran
    <3>2. CASE UNCHANGED services
      BY <3>2 DEF services, SuccessInv, Ran
    <3> QED
      BY <1>3, <3>1, <3>2 DEF Answer
  <2>2. \A d \in Call : reply'[d] = "200" => reply[d] = "200" \/ (d = c /\ call'[s][c] = "200")
    BY <1>3 DEF Answer, SuccessInv, TypeOK
  <2>3. UNCHANGED <<status, runs>>
    BY <1>3 DEF Answer
  <2> QED
    BY <1>1, <2>1, <2>2, <2>3 DEF SuccessInv, Ran, Told, SuccessMeansServed
<1>4. ASSUME NEW c \in Call, ConnectionLost(c) \/ CallTimesOut(c) \/ Deliver(c)
      PROVE  SuccessInv'
  <2>1. UNCHANGED <<call, runs>>
    BY <1>4 DEF ConnectionLost, CallTimesOut, Deliver, services
  <2>2. \A d \in Call : /\ reply'[d] = "200" => reply[d] = "200"
                        /\ status'[d] = "200" => reply[d] = "200" \/ status[d] = "200"
    BY <1>4 DEF ConnectionLost, CallTimesOut, Deliver, SuccessInv, TypeOK
  <2> QED
    BY <1>1, <2>1, <2>2 DEF SuccessInv, Ran, Told, SuccessMeansServed
<1>5. ASSUME NEW s \in Server, ServerSchedules(s) PROVE SuccessInv'
  <2>1. \A d \in Call : runs[d] \in Nat /\ runs'[d] \in Nat /\ runs'[d] >= runs[d]
    BY <1>5 DEF ServerSchedules, SuccessInv, TypeOK
  <2>2. /\ UNCHANGED <<reply, status>>
        /\ \A d \in Call :
             call[s][d] = "admitted" /\ call'[s][d] = "running" => runs'[d] = runs[d] + 1
    BY <1>5 DEF ServerSchedules, router
  <2>3. \A t \in Server : \A d \in Call :
          call'[t][d] \in {"running", "ok", "200"} =>
            \/ call[t][d] \in {"running", "ok", "200"}
            \/ t = s /\ call[s][d] = "admitted" /\ call'[s][d] = "running"
    <3>1. \/ \E R \in SUBSET In(s, {"queued"}) : Becomes(s, R, "admitted")
          \/ Becomes(s, In(s, {"admitted"}), "running")
          \/ \E R \in SUBSET In(s, {"running"}), o \in {"ok", "error"} : Becomes(s, R, o)
      BY <1>1, <1>5, Schedules DEF ServerSchedules
    <3>2. CASE \E R \in SUBSET In(s, {"queued"}) : Becomes(s, R, "admitted")
      BY <3>2 DEF Becomes, In
    <3>3. CASE Becomes(s, In(s, {"admitted"}), "running")
      BY <3>3 DEF Becomes, In
    <3>4. CASE \E R \in SUBSET In(s, {"running"}), o \in {"ok", "error"} : Becomes(s, R, o)
      BY <3>4 DEF Becomes, In
    <3> QED
      BY <3>1, <3>2, <3>3, <3>4
  <2>4. Ran'
    BY <2>1, <2>2, <2>3 DEF SuccessInv, Ran
  <2>5. Told' /\ SuccessMeansServed'
    BY <2>1, <2>2 DEF SuccessInv, Told, SuccessMeansServed
  <2> QED
    BY <1>1, <2>4, <2>5 DEF SuccessInv
<1>6. ASSUME NEW s \in Server, PreemptionNotice(s) \/ DrainGoesOn(s) PROVE SuccessInv'
  <2>1. UNCHANGED <<reply, status, runs>>
    BY <1>6 DEF PreemptionNotice, DrainGoesOn, router
  <2>2. CASE HandOver(s)
    BY <1>1, <2>1, <2>2, HandsOver, SuccessIfNoneGains DEF Becomes
  <2>3. CASE FinishDrain(s) /\ ExitOnComplete
    BY <1>1, <2>1, <2>3, Goes, SuccessIfNoneGains DEF Becomes, FinishDrain
  <2>4. CASE UNCHANGED call
    BY <1>1, <2>1, <2>4, SuccessIfNoneGains
  <2> QED
    BY <1>6, <2>2, <2>3, <2>4 DEF PreemptionNotice, BeginDrain, DrainGoesOn, FinishDrain
<1>7. ASSUME NEW s \in Server, ForwardSend(s) PROVE SuccessInv'
  <2>1. PICK c \in In(s, {"leaving"}), p \in Peers[s] :
          IF p \in up /\ phase[p] = "RUNNING" THEN Accept(p, c) ELSE UNCHANGED services
    BY <1>7 DEF ForwardSend
  <2>2. p \in Server /\ c \in Call /\ UNCHANGED <<reply, status, runs>>
    BY <1>7, <2>1, PeersMigrate DEF ForwardSend, In, router
  <2>3. CASE Accept(p, c)
    BY <1>1, <2>2, <2>3, Accepts, SuccessIfNoneGains DEF Becomes
  <2>4. CASE UNCHANGED services
    BY <1>1, <2>2, <2>4, SuccessIfNoneGains DEF services
  <2> QED
    BY <2>1, <2>3, <2>4
<1>8. ASSUME NEW s \in Server, NEW o \in {"ok", "error"}, ForwardDone(s, o),
             o = "ok" => Awaited(s) = "200"
      PROVE  SuccessInv'
  <2>1. Becomes(s, {forward[s].of}, o) /\ forward[s].of \in Call
    BY <1>1, <1>8, ForwardedBecomes, ForwardedIsCall DEF ForwardDone, SuccessInv
  <2>2. forward[s].peer \in Server /\ UNCHANGED <<reply, status, runs>>
    BY <1>8, PeersMigrate DEF ForwardDone, SuccessInv, TypeOK, router
  <2>3. o = "ok" => runs[forward[s].of] > 0
    BY <1>8, <2>1, <2>2 DEF Awaited, SuccessInv, Ran
  <2> QED
    BY <1>1, <2>1, <2>2, <2>3, SuccessIfNoneGains DEF Becomes
<1>9. ASSUME NEW s \in Server,
             ForwardAnswered(s) \/ ForwardFails(s) \/ ForwardTimesOut(s)
      PROVE  SuccessInv'
  BY <1>8, <1>9 DEF ForwardAnswered, ForwardFails, ForwardTimesOut
<1>10. ASSUME NEW s \in Server, Kill(s) PROVE SuccessInv'
  BY <1>1, <1>10, Goes, SuccessIfNoneGains DEF Kill, Becomes, router
<1>11. ASSUME NEW s \in Server, Replace(s) PROVE SuccessInv'
  BY <1>1, <1>11, SuccessIfNoneGains DEF Replace, router
<1>12. CASE UNCHANGED vars
  BY <1>1, <1>12, SuccessIfNoneGains DEF vars, services, router
<1> QED
  BY <1>2, <1>3, <1>4, <1>5, <1>6, <1>7, <1>9, <1>10, <1>11, <1>12
     DEF ClusterNext, OrchestratorNext

\* A client is told of success only if the model has run for its call, at
\* whichever server the call came to in the end.
THEOREM SuccessWasServed == ClusterSpec => []SuccessMeansServed
<1>1. SuccessInv => SuccessMeansServed
  BY DEF SuccessInv
<1> QED
  BY <1>1, SuccessInit, SuccessNext, PTL DEF ClusterSpec

-----------------------------------------------------------------------------
(* The servers are backends of LoadRouter. *)

\* A server refuses only while it drains, and one that is gone holds no call.
Refusals ==
  \A s \in Server : \A c \in Call :
    /\ call[s][c] = "503" => phase[s] # "RUNNING"
    /\ s \notin up => call[s][c] = "none"

\* A call that was not sent has no answer.
Unanswered == \A c \in Call : route[c] = None => reply[c] = None /\ status[c] = None

BackendInv == TypeOK /\ Refusals /\ Unanswered

LEMMA BackendInit == ClusterInit => BackendInv
  BY TypeInit DEF ClusterInit, Init, BackendInv, Refusals, Unanswered

\* A step that refuses nothing, of servers that go on as they were.
LEMMA RefusalsStay ==
  ASSUME Refusals, NEW s \in Server, s \in up, NEW R, NEW fate, fate # "503",
         Becomes(s, R, fate), UNCHANGED <<phase, up>>
  PROVE  Refusals'
  BY DEF Refusals, Becomes

LEMMA BackendNext == BackendInv /\ [ClusterNext]_vars => BackendInv'
<1> SUFFICES ASSUME BackendInv, [ClusterNext]_vars
             PROVE  BackendInv'
  OBVIOUS
<1>1. TypeOK' /\ TypeOK /\ call \in Calls
  BY TypeNext DEF BackendInv, TypeOK, Calls
<1>2. Refusals /\ Unanswered
  BY DEF BackendInv
<1>3. SUFFICES Refusals' /\ Unanswered'
  BY <1>1 DEF BackendInv
<1>4. ASSUME NEW c \in Call, Submit(c) PROVE Refusals' /\ Unanswered'
  <2>1. PICK s \in Routed :
          /\ route' = [route EXCEPT ![c] = s]
          /\ IF s \in up THEN Accept(s, c) \/ Refuse(s, c) ELSE UNCHANGED services
    BY <1>4 DEF Submit
  <2>2. s \in Server /\ s # None /\ UNCHANGED <<reply, status>>
    BY <1>4, RouterChooses, NoneIsNoServer DEF Submit, None
  <2>3. Unanswered'
    BY <1>1, <1>2, <2>1, <2>2 DEF Unanswered, TypeOK
  <2>4. CASE s \in up /\ Accept(s, c)
    BY <1>1, <1>2, <2>2, <2>3, <2>4, Accepts, RefusalsStay
  <2>5. CASE s \in up /\ Refuse(s, c)
    <3>1. Becomes(s, {c}, "503") /\ phase[s] # "RUNNING" /\ UNCHANGED <<phase, up>>
      BY <1>1, <2>2, <2>5, Refuses DEF Refuse
    <3> QED
      BY <1>2, <2>3, <2>5, <3>1 DEF Refusals, Becomes
  <2>6. CASE UNCHANGED services
    BY <1>2, <2>3, <2>6 DEF services, Refusals
  <2> QED
    BY <2>1, <2>4, <2>5, <2>6
<1>5. ASSUME NEW s \in Server, NEW c \in Call, Answer(s, c) PROVE Refusals' /\ Unanswered'
  <2>1. Unanswered'
    <3>1. UNCHANGED <<route, status>> /\ \A d \in Call : d # c => reply'[d] = reply[d]
      BY <1>1, <1>5 DEF Answer, TypeOK
    <3>2. route[c] # s => reply' = reply
      BY <1>5 DEF Answer
    <3> QED
      BY <1>2, <3>1, <3>2, NoneIsNoServer DEF Unanswered, None
  <2>2. CASE Respond(s, c)
    BY <1>1, <1>2, <2>1, <2>2, Responds, RefusalsStay DEF Respond
  <2>3. CASE UNCHANGED services
    BY <1>2, <2>1, <2>3 DEF services, Refusals
  <2> QED
    BY <1>5, <2>2, <2>3 DEF Answer
<1>6. ASSUME NEW c \in Call, ConnectionLost(c) \/ CallTimesOut(c) \/ Deliver(c)
      PROVE  Refusals' /\ Unanswered'
  <2>1. UNCHANGED <<services, route>>
    BY <1>6 DEF ConnectionLost, CallTimesOut, Deliver
  <2>2. \A d \in Call : reply'[d] # reply[d] \/ status'[d] # status[d] =>
          d = c /\ (route[d] # None \/ reply[d] # None)
    BY <1>1, <1>6 DEF ConnectionLost, CallTimesOut, Deliver, TypeOK
  <2> QED
    BY <1>2, <2>1, <2>2 DEF services, Refusals, Unanswered
<1>7. ASSUME NEW s \in Server, ServerSchedules(s) PROVE Refusals' /\ Unanswered'
  <2>1. /\ UNCHANGED <<route, reply, status>> /\ s \in up
        /\ UNCHANGED <<phase, up>>
        /\ \/ \E R \in SUBSET In(s, {"queued"}) : Becomes(s, R, "admitted")
           \/ Becomes(s, In(s, {"admitted"}), "running")
           \/ \E R \in SUBSET In(s, {"running"}), o \in {"ok", "error"} : Becomes(s, R, o)
    BY <1>1, <1>7, Schedules
       DEF ServerSchedules, router, Schedule, Admit, Run, Finish
  <2>2. Refusals'
    BY <1>2, <2>1, RefusalsStay
  <2> QED
    BY <1>2, <2>1, <2>2 DEF Unanswered
<1>8. ASSUME NEW s \in Server, PreemptionNotice(s) PROVE Refusals' /\ Unanswered'
  BY <1>1, <1>2, <1>8
     DEF PreemptionNotice, BeginDrain, router, Refusals, Unanswered, TypeOK
<1>9. ASSUME NEW s \in Server, Gone(s), UNCHANGED router,
             \A t \in Server : t # s => phase'[t] = phase[t]
      PROVE  Refusals' /\ Unanswered'
  <2>1. Becomes(s, Call, "none") /\ up' = up \ {s}
    BY <1>1, <1>9, Goes
  <2> QED
    BY <1>2, <1>9, <2>1 DEF router, Refusals, Unanswered, Becomes
<1>10. ASSUME NEW s \in Server, DrainGoesOn(s) PROVE Refusals' /\ Unanswered'
  <2>1. UNCHANGED router
    BY <1>10 DEF DrainGoesOn
  <2>2. CASE HandOver(s)
    <3>1. Refusals'
      BY <1>1, <1>2, <2>2, HandsOver, RefusalsStay DEF HandOver
    <3> QED
      BY <1>2, <2>1, <3>1 DEF router, Unanswered
  <2>3. CASE FinishDrain(s)
    <3>1. phase'[s] = "DRAINED" /\ \A t \in Server : t # s => phase'[t] = phase[t]
      BY <1>1, <2>3 DEF FinishDrain, TypeOK
    <3>2. CASE ExitOnComplete
      BY <1>9, <2>1, <2>3, <3>1, <3>2 DEF FinishDrain
    <3>3. CASE ~ExitOnComplete
      BY <1>2, <2>1, <2>3, <3>1, <3>3 DEF FinishDrain, router, Refusals, Unanswered
    <3> QED
      BY <3>2, <3>3
  <2> QED
    BY <1>10, <2>2, <2>3 DEF DrainGoesOn
<1>11. ASSUME NEW s \in Server, Kill(s) PROVE Refusals' /\ Unanswered'
  BY <1>1, <1>9, <1>11 DEF Kill, TypeOK
<1>12. ASSUME NEW s \in Server, Replace(s) PROVE Refusals' /\ Unanswered'
  BY <1>1, <1>2, <1>12 DEF Replace, router, Refusals, Unanswered, TypeOK
<1>13. ASSUME NEW s \in Server, ForwardSend(s) PROVE Refusals' /\ Unanswered'
  <2>1. PICK c \in In(s, {"leaving"}), p \in Peers[s] :
          IF p \in up /\ phase[p] = "RUNNING" THEN Accept(p, c) ELSE UNCHANGED services
    BY <1>13 DEF ForwardSend
  <2>2. p \in Server /\ c \in Call /\ Unanswered'
    BY <1>2, <1>13, <2>1, PeersMigrate DEF ForwardSend, In, router, Unanswered
  <2>3. CASE Accept(p, c)
    BY <1>1, <1>2, <2>2, <2>3, Accepts, RefusalsStay DEF Accept
  <2>4. CASE UNCHANGED services
    BY <1>2, <2>2, <2>4 DEF services, Refusals
  <2> QED
    BY <2>1, <2>2, <2>3, <2>4
<1>14. ASSUME NEW s \in Server, NEW o \in {"ok", "error"}, ForwardDone(s, o)
       PROVE  Refusals' /\ Unanswered'
  <2>1. Becomes(s, {forward[s].of}, o) /\ s \in up /\ UNCHANGED <<phase, up>>
    BY <1>1, <1>14, ForwardedBecomes, ForwardedIsCall DEF ForwardDone, Forwarded
  <2>2. Refusals'
    BY <1>2, <2>1, RefusalsStay
  <2> QED
    BY <1>2, <1>14, <2>2 DEF ForwardDone, router, Unanswered
<1>15. ASSUME NEW s \in Server,
              ForwardAnswered(s) \/ ForwardFails(s) \/ ForwardTimesOut(s)
       PROVE  Refusals' /\ Unanswered'
  BY <1>14, <1>15 DEF ForwardAnswered, ForwardFails, ForwardTimesOut
<1>16. CASE UNCHANGED vars
  BY <1>2, <1>16 DEF vars, services, router, Refusals, Unanswered
<1> QED
  BY <1>4, <1>5, <1>6, <1>7, <1>8, <1>10, <1>11, <1>12, <1>13, <1>15, <1>16
     DEF ClusterNext, OrchestratorNext

-----------------------------------------------------------------------------
(* Every step is a step of LoadRouter or a stutter. *)

\* The servers are the pools.
OneServerEach == Server = Router!Pool

\* What the router and LoadRouter's own loop have, while nothing of it changes.
LEMMA RouterStutters ==
  ASSUME UNCHANGED <<router, phase, up>>
  PROVE  UNCHANGED Router!vars
  BY DEF router, Router!vars, Router!backends, Router!settings, Router!view,
         Router!refresh, Router!clients, BackendState

LEMMA PoolsForward ==
  ASSUME BackendInv, OneServerEach, NEW c \in Call, Submit(c)
  PROVE  Router!Forward(c)
<1>1. PICK s \in Routed :
        /\ route' = [route EXCEPT ![c] = s]
        /\ IF s \in up THEN Accept(s, c) \/ Refuse(s, c) ELSE UNCHANGED services
  BY DEF Submit
<1>2. s \in Server /\ route[c] = None /\ status[c] = None /\ UNCHANGED <<reply, status>>
  BY RouterChooses DEF Submit, BackendInv, Unanswered
<1>3. UNCHANGED <<phase, up>>
  BY <1>1 DEF Accept, Refuse, services
<1>4. s \in Router!Population
  BY <1>2 DEF Router!Population, Router!Weight, OneServerEach
<1>5. UNCHANGED <<Router!backends, Router!view, Router!refresh, reply, status>>
  BY <1>2, <1>3 DEF Router!backends, Router!settings, Router!view, Router!refresh, BackendState
<1> QED
  BY <1>1, <1>2, <1>4, <1>5 DEF Router!Forward, Router!None, None

\* A backend's state before and after a step.
LEMMA BackendStates ==
  /\ BackendState = [s \in Server |->
       IF s \notin up THEN "unreachable"
       ELSE IF phase[s] = "RUNNING" THEN "ok" ELSE "draining"]
  /\ BackendState' = [s \in Server |->
       IF s \notin up' THEN "unreachable"
       ELSE IF phase'[s] = "RUNNING" THEN "ok" ELSE "draining"]
  BY DEF BackendState

\* An answer, or the lack of one, is what a backend in its state may give.
LEMMA PoolReplies ==
  ASSUME BackendInv, OneServerEach, NEW s \in Server, NEW c \in Call, NEW a,
         UNCHANGED <<phase, up, route, status>>,
         route[c] = s, reply[c] = None, reply' = [reply EXCEPT ![c] = a],
         \/ a = "error"
         \/ s \in up /\ a \in {"200", "500"}
         \/ s \in up /\ a = "503" /\ phase[s] # "RUNNING"
  PROVE  Router!BackendReplies(c)
<1>1. /\ s \notin up => BackendState[s] = "unreachable"
      /\ s \in up /\ phase[s] = "RUNNING" => BackendState[s] = "ok"
      /\ s \in up /\ phase[s] # "RUNNING" => BackendState[s] = "draining"
  BY BackendStates
<1>2. UNCHANGED <<Router!backends, Router!view, Router!refresh>>
  BY BackendStates
     DEF Router!backends, Router!settings, Router!view, Router!refresh
<1>3. s # None
  BY NoneIsNoServer DEF None
<1>4. a \in CASE BackendState[s] = "ok" -> {"200", "500", "error"}
              [] BackendState[s] = "draining" -> {"200", "500", "503", "error"}
              [] OTHER -> {"error"}
  <2>1. CASE s \notin up
    BY <1>1, <2>1
  <2>2. CASE s \in up /\ phase[s] = "RUNNING"
    BY <1>1, <2>2
  <2>3. CASE s \in up /\ phase[s] # "RUNNING"
    BY <1>1, <2>3
  <2> QED
    BY <2>1, <2>2, <2>3
<1> QED
  BY <1>2, <1>3, <1>4 DEF Router!BackendReplies, Router!None, None

\* A server's answer, to the router or to a peer that forwards.
LEMMA PoolAnswers ==
  ASSUME BackendInv, OneServerEach, NEW s \in Server, NEW c \in Call, Answer(s, c)
  PROVE  [Router!Next]_(Router!vars)
<1>1. UNCHANGED <<phase, up, route, status>> /\ s \in up
  BY Responds DEF Answer, BackendInv, TypeOK, Calls, services, Respond
<1>2. CASE route[c] = s /\ reply[c] = None
  <2>1. reply' = [reply EXCEPT ![c] = call'[s][c]]
    BY <1>2 DEF Answer
  <2>2. \/ call'[s][c] \in {"200", "500"}
        \/ call'[s][c] = "503" /\ phase[s] # "RUNNING"
    <3>1. CASE Respond(s, c)
      BY <3>1, Responds DEF BackendInv, TypeOK, Calls, Becomes
    <3>2. CASE call[s][c] = "503" /\ UNCHANGED services
      BY <3>2 DEF BackendInv, Refusals, services
    <3> QED
      BY <3>1, <3>2 DEF Answer
  <2>3. Router!BackendReplies(c)
    BY <1>1, <1>2, <2>1, <2>2, PoolReplies
  <2> QED
    BY <2>3 DEF Router!Next
<1>3. CASE ~(route[c] = s /\ reply[c] = None)
  BY <1>1, <1>3, RouterStutters DEF Answer, router
<1> QED
  BY <1>2, <1>3

LEMMA PoolDrains ==
  ASSUME BackendInv, OneServerEach, NEW s \in Server, PreemptionNotice(s)
  PROVE  Router!BackendDrain(s)
<1>1. /\ s \in up /\ phase[s] = "RUNNING" /\ up' = up /\ UNCHANGED router
      /\ phase'[s] = "DRAINING" /\ \A t \in Server : t # s => phase'[t] = phase[t]
  BY DEF PreemptionNotice, BeginDrain, BackendInv, TypeOK
<1>2. BackendState[s] = "ok" /\ BackendState' = [BackendState EXCEPT ![s] = "draining"]
  BY <1>1, BackendStates
<1> QED
  BY <1>1, <1>2
     DEF Router!BackendDrain, Router!settings, Router!view, Router!refresh, Router!clients, router

LEMMA PoolGoes ==
  ASSUME OneServerEach, NEW s \in Server, s \in up, Gone(s), UNCHANGED router,
         \A t \in Server : t # s => phase'[t] = phase[t]
  PROVE  Router!BackendDown(s)
<1>1. up' = up \ {s}
  BY DEF Gone
<1>2. BackendState[s] # "unreachable"
  BY BackendStates
<1>3. BackendState' = [BackendState EXCEPT ![s] = "unreachable"]
  BY <1>1, BackendStates
<1> QED
  BY <1>2, <1>3
     DEF Router!BackendDown, Router!settings, Router!view, Router!refresh, Router!clients, router

LEMMA PoolReturns ==
  ASSUME BackendInv, OneServerEach, NEW s \in Server, Replace(s)
  PROVE  Router!BackendUp(s)
<1>1. /\ s \notin up /\ up' = up \cup {s} /\ UNCHANGED router
      /\ phase'[s] = "RUNNING" /\ \A t \in Server : t # s => phase'[t] = phase[t]
  BY DEF Replace, BackendInv, TypeOK
<1>2. BackendState[s] = "unreachable" /\ BackendState' = [BackendState EXCEPT ![s] = "ok"]
  BY <1>1, BackendStates
<1> QED
  BY <1>1, <1>2
     DEF Router!BackendUp, Router!settings, Router!view, Router!refresh, Router!clients, router

LEMMA ServerStep ==
  ASSUME BackendInv, OneServerEach, NEW s \in Server,
         \/ ServerSchedules(s) \/ OrchestratorNext(s) \/ ForwardTimesOut(s) \/ Kill(s)
  PROVE  [Router!Next]_(Router!vars)
<1>1. call \in Calls
  BY DEF BackendInv, TypeOK, Calls
<1>2. ASSUME Router!BackendDown(s) PROVE Router!Next
  BY <1>2 DEF Router!Next, Router!BackendNext, OneServerEach
<1>3. CASE ServerSchedules(s)
  BY <1>1, <1>3, Schedules, RouterStutters DEF ServerSchedules
<1>4. CASE DrainGoesOn(s)
  <2>1. CASE HandOver(s)
    BY <1>4, <2>1, RouterStutters DEF DrainGoesOn, HandOver
  <2>2. CASE FinishDrain(s) /\ ExitOnComplete
    <3>1. \A t \in Server : t # s => phase'[t] = phase[t]
      BY <2>2 DEF FinishDrain, BackendInv, TypeOK
    <3> QED
      BY <1>2, <1>4, <2>2, <3>1, PoolGoes DEF DrainGoesOn, FinishDrain
  <2>3. CASE FinishDrain(s) /\ ~ExitOnComplete
    <3>1. UNCHANGED <<router, up>> /\ BackendState' = BackendState
      BY <1>4, <2>3, BackendStates DEF DrainGoesOn, FinishDrain, BackendInv, TypeOK
    <3> QED
      BY <3>1 DEF router, Router!vars, Router!backends, Router!settings, Router!view,
                  Router!refresh, Router!clients
  <2> QED
    BY <1>4, <2>1, <2>2, <2>3 DEF DrainGoesOn
<1>5. CASE ForwardSend(s)
  BY <1>5, RouterStutters DEF ForwardSend, Accept, services
<1>6. CASE ForwardAnswered(s) \/ ForwardFails(s) \/ ForwardTimesOut(s)
  BY <1>6, RouterStutters
     DEF ForwardAnswered, ForwardFails, ForwardTimesOut, ForwardDone, Forwarded
<1>7. CASE Kill(s)
  <2>1. \A t \in Server : t # s => phase'[t] = phase[t]
    BY <1>7 DEF Kill, BackendInv, TypeOK
  <2> QED
    BY <1>2, <1>7, <2>1, PoolGoes DEF Kill
<1> QED
  BY <1>3, <1>4, <1>5, <1>6, <1>7 DEF OrchestratorNext

LEMMA ClusterStep ==
  OneServerEach /\ BackendInv /\ [ClusterNext]_vars => [Router!Next]_(Router!vars)
<1> SUFFICES ASSUME OneServerEach, BackendInv, [ClusterNext]_vars
             PROVE  [Router!Next]_(Router!vars)
  OBVIOUS
<1>1. ASSUME NEW c \in Call, Submit(c) PROVE Router!Next
  BY <1>1, PoolsForward DEF Router!Next, Router!ClientNext
<1>2. ASSUME NEW c \in Call, ConnectionLost(c) \/ CallTimesOut(c) PROVE Router!Next
  <2>1. /\ route[c] \in Server /\ reply[c] = None
        /\ reply' = [reply EXCEPT ![c] = "error"]
        /\ UNCHANGED <<phase, up, route, status>>
    BY <1>2 DEF ConnectionLost, CallTimesOut, services, BackendInv, TypeOK
  <2>2. Router!BackendReplies(c)
    BY <2>1, PoolReplies
  <2> QED
    BY <2>2 DEF Router!Next
<1>3. ASSUME NEW c \in Call, Deliver(c) PROVE Router!Next
  <2>1. UNCHANGED <<Router!backends, Router!view, Router!refresh, route, reply>>
    BY <1>3, BackendStates
       DEF Deliver, services, Router!backends, Router!settings, Router!view, Router!refresh
  <2>2. Router!Answer(c)
    BY <1>3, <2>1 DEF Deliver, Router!Answer, Router!None, None
  <2> QED
    BY <2>2 DEF Router!Next, Router!ClientNext
<1>4. ASSUME NEW s \in Server, PreemptionNotice(s) PROVE Router!Next
  BY <1>4, PoolDrains DEF Router!Next, Router!BackendNext, OneServerEach
<1>5. ASSUME NEW s \in Server, Replace(s) PROVE Router!Next
  BY <1>5, PoolReturns DEF Router!Next, Router!BackendNext, OneServerEach
<1>6. CASE UNCHANGED vars
  BY <1>6, RouterStutters DEF vars, services
<1> QED
  BY <1>1, <1>2, <1>3, <1>4, <1>5, <1>6, PoolAnswers, ServerStep DEF ClusterNext

\* LoadRouter lets a backend change its state and answer in certain ways.  Two
\* servers that drain, exit, die, are replaced and forward to each other do
\* nothing else, whatever the calls are.
THEOREM ServersBehaveAsBackends ==
  ASSUME OneServerEach
  PROVE  ClusterSpec => ServersAreBackends
<1>1. BackendInv /\ [ClusterNext]_vars => [Router!Next]_(Router!vars)
  BY ClusterStep
<1> QED
  BY <1>1, BackendInit, BackendNext, PTL DEF ClusterSpec, ServersAreBackends
=============================================================================
