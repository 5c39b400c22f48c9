-------------------------- MODULE LifecycleProofs --------------------------
(***************************************************************************)
(* The properties of Lifecycle for any number of applications.  What is    *)
(* closed stays closed while a clean-up proceeds, and an exit handler is   *)
(* there whenever something can have been recorded.                        *)
(***************************************************************************)
EXTENDS Lifecycle, TLAPS

\* Where a process can be with which fault, and who holds the runtime there.
Staged ==
    /\ stage \in {"booting", "cleaning", "closing"} => role = "api"
    /\ stage \in {"booting", "serving"} /\ role = "api" => step = 1
    /\ stage = "cleaning" => step \in Steps
    /\ stage = "closing" => fault \in {"none", "cut"}
    /\ stage \in {"booting", "serving", "cleaning"} /\ role = "api" => fault = "none"
    /\ stage \in {"booting", "serving", "cleaning", "closing"} /\ role = "api" => held
    /\ life = 0 => stage = "down" /\ ~unflushed
    /\ role # "api" => fault \in {"none", "startup"} /\ step = 1
    /\ role = "worker" /\ stage = "serving" /\ fault = "none" => held

\* What the clean-up has passed is closed.
Cleaned ==
    /\ fault \in {"none", "raised", "cut"} =>
          \A i \in Steps : i < step => Closes(i, life) \notin open
    /\ role = "api" /\ life > 0 /\ fault = "none" /\ stage \in {"closing", "down", "gone"} =>
          step = Len(CleanUp) + 1
    /\ role = "api" /\ life > 0 /\ stage \in {"down", "gone"} /\ fault \in {"none", "cut"} =>
          ~active /\ Thing("analytics", life) \notin open

\* Where something may be unflushed.
Flushed ==
    /\ providers # "unset" \/ unflushed => registered
    /\ role = "worker" /\ stage \in {"down", "gone"} /\ fault = "none" => ~unflushed
    /\ role # "worker" /\ stage = "gone" => ~unflushed

LifeInv == LifeTypeOK /\ Staged /\ Cleaned /\ Flushed

LEMMA StepsAre == Steps = {1, 2, 3} /\ Len(CleanUp) = 3
  BY DEF Steps, CleanUp

\* Everything Closes names can be open.
LEMMA ThingsOpen ==
  ASSUME NEW l \in 0 .. MaxLives, NEW r \in {"plaid", "pool", "redis", "analytics"}
  PROVE  Thing(r, l) \in Things
BY LivesAssumption DEF Thing, Things, LivesAssumption

LEMMA InitInv == Init => LifeInv
<1> SUFFICES ASSUME Init  PROVE LifeInv
  OBVIOUS
<1>1. LifeTypeOK
  <2>1. step \in 1 .. Len(CleanUp) + 1 /\ life \in 0 .. MaxLives
    BY StepsAre, LivesAssumption DEF Init, LivesAssumption
  <2>2. QED  BY <2>1 DEF Init, LifeTypeOK, Stages, Faults
<1>2. Staged /\ Flushed
  BY DEF Init, Staged, Flushed
<1>3. Cleaned
  BY StepsAre DEF Init, Cleaned
<1>4. QED  BY <1>1, <1>2, <1>3 DEF LifeInv

\* A start, whether it succeeds or not.
LEMMA StartStep ==
  ASSUME LifeInv, Start \/ StartFails  PROVE LifeInv'
<1>1. /\ role = "api" /\ stage = "down" /\ role' = role /\ step' = 1
      /\ life' = life + 1 /\ life' \in 0 .. MaxLives
      /\ open' = open \cup {Thing("analytics", life')}
  BY LivesAssumption DEF Start, StartFails, NewLife, Opens, LifeInv, LifeTypeOK, LivesAssumption
<1>2. /\ providers' \in {"unset", "live", "shut"} /\ registered' \in BOOLEAN
      /\ active' \in BOOLEAN /\ held' \in BOOLEAN /\ unflushed' = unflushed
      /\ providers' # "unset" \/ unflushed' => registered'
  BY DEF Start, StartFails, Bootstrap, BootstrapFails, NoProviders, Runtime, Registered,
         telemetryVars, LifeInv, LifeTypeOK, Flushed
<1>3. \/ stage' = "booting" /\ fault' = "none" /\ held'
      \/ stage' = "down" /\ fault' = "startup"
  BY DEF Start, StartFails, Bootstrap
<1>4. LifeTypeOK'
  BY <1>1, <1>2, <1>3, ThingsOpen, StepsAre DEF LifeInv, LifeTypeOK, Stages, Faults
<1>5. Staged'
  BY <1>1, <1>3, LivesAssumption DEF Staged, LifeInv, LifeTypeOK
<1>6. Cleaned' /\ Flushed'
  BY <1>1, <1>2, <1>3, StepsAre DEF Cleaned, Flushed
<1>7. QED  BY <1>4, <1>5, <1>6 DEF LifeInv

\* Serving: something is opened, or the stop begins.
LEMMA ServeStep ==
  ASSUME LifeInv, StartRedis \/ Stop \/ \E r \in {"plaid", "pool", "redis"} : Use(r)
  PROVE  LifeInv'
<1>1. /\ role = "api" /\ stage \in {"booting", "serving"} /\ stage' \in {"serving", "cleaning"}
      /\ UNCHANGED <<role, life, step, fault, telemetryVars>>
      /\ open' = open \/ \E r \in {"plaid", "pool", "redis"} : Opens(r, life)
  BY DEF StartRedis, Stop, Use
<1>2. open' \subseteq Things
  BY <1>1, ThingsOpen DEF Opens, LifeInv, LifeTypeOK
<1>3. step = 1 /\ fault = "none" /\ held
  BY <1>1 DEF LifeInv, Staged
<1>4. LifeTypeOK'
  BY <1>1, <1>2 DEF LifeInv, LifeTypeOK, Stages, telemetryVars
<1>5. Staged' /\ Cleaned' /\ Flushed'
  BY <1>1, <1>3, StepsAre DEF LifeInv, Staged, Cleaned, Flushed, telemetryVars
<1>6. QED  BY <1>4, <1>5 DEF LifeInv

\* A step of the clean-up opens nothing.
LEMMA CleanStep ==
  ASSUME LifeInv, Close \/ CloseRaises \/ Cut  PROVE LifeInv'
<1>1. /\ role = "api" /\ stage = "cleaning" /\ fault = "none" /\ held /\ step \in Steps
      /\ UNCHANGED <<role, life, telemetryVars>>
      /\ open' \subseteq open /\ life # 0
  BY DEF Close, CloseRaises, Cut, Closed, HalfClosed, LifeInv, Staged
<1>2. \A i \in Steps : i < step => Closes(i, life) \notin open'
  BY <1>1 DEF LifeInv, Cleaned
<1>3. CASE Close
  <2>1. /\ step' = step + 1 /\ fault' = "none"
        /\ stage' = IF step + 1 \in Steps THEN "cleaning" ELSE "closing"
    BY <1>1, <1>3 DEF Close
  <2>2. \A i \in Steps : i < step' => Closes(i, life') \notin open'
    BY <1>1, <1>2, <1>3, <2>1, StepsAre DEF Close, Closed
  <2>3. QED
    BY <1>1, <2>1, <2>2, StepsAre
       DEF LifeInv, LifeTypeOK, Staged, Cleaned, Flushed, Stages, telemetryVars
<1>4. CASE CloseRaises
  BY <1>1, <1>2, <1>4, StepsAre
     DEF CloseRaises, LifeInv, LifeTypeOK, Staged, Cleaned, Flushed, Stages, Faults,
         telemetryVars
<1>5. CASE Cut
  BY <1>1, <1>2, <1>5, StepsAre
     DEF Cut, LifeInv, LifeTypeOK, Staged, Cleaned, Flushed, Stages, Faults, telemetryVars
<1>6. QED  BY <1>3, <1>4, <1>5

LEMMA FinishStep ==
  ASSUME LifeInv, Finish  PROVE LifeInv'
<1>1. /\ role = "api" /\ held /\ fault \in {"none", "cut"} /\ stage = "closing"
  BY DEF Finish, LifeInv, Staged
<1>2. QED
  BY <1>1, StepsAre
     DEF Finish, Shutdown, LifeInv, LifeTypeOK, Staged, Cleaned, Flushed, Stages

\* Celery's signals.
LEMMA CeleryStep ==
  ASSUME LifeInv, CeleryInit \/ CeleryStops  PROVE LifeInv'
<1>1. CASE CeleryInit
  <2>1. /\ providers' \in {"unset", "live", "shut"} /\ registered' \in BOOLEAN
        /\ active' \in BOOLEAN /\ held' \in BOOLEAN /\ unflushed' = unflushed
        /\ providers' # "unset" \/ unflushed' => registered'
    BY <1>1 DEF CeleryInit, Bootstrap, BootstrapFails, NoProviders, Runtime, Registered,
                telemetryVars, LifeInv, LifeTypeOK, Flushed
  <2>2. /\ role # "api" /\ role' = role /\ step' = step /\ open' = open
        /\ life = 0 /\ life' = 1 /\ stage = "down" /\ stage' = "serving"
        /\ (fault' = fault /\ held') \/ fault' = "startup"
    BY <1>1 DEF CeleryInit, Bootstrap
  <2>3. LifeTypeOK'
    BY <2>1, <2>2, LivesAssumption DEF LifeInv, LifeTypeOK, Stages, Faults, LivesAssumption
  <2>4. Staged' /\ Flushed'
    BY <2>1, <2>2 DEF LifeInv, Staged, Flushed
  <2>5. Cleaned'
    BY <2>2, StepsAre DEF LifeInv, Staged, Cleaned
  <2>6. QED  BY <2>3, <2>4, <2>5 DEF LifeInv
<1>2. CASE CeleryStops
  BY <1>2 DEF CeleryStops, Shutdown, LifeInv, LifeTypeOK, Staged, Cleaned, Flushed, Stages
<1>3. QED  BY <1>1, <1>2

LEMMA RecordStep ==
  ASSUME LifeInv, Record  PROVE LifeInv'
BY DEF Record, LifeInv, LifeTypeOK, Staged, Cleaned, Flushed, processVars

LEMMA ExitStep ==
  ASSUME LifeInv, Exit  PROVE LifeInv'
<1>1. /\ life > 0 /\ stage \in {"down", "serving"} /\ stage' = "gone"
      /\ role = "api" => stage = "down"
      /\ role = "worker" => stage = "down" /\ UNCHANGED telemetryVars
      /\ role # "worker" => AtExit
      /\ UNCHANGED <<role, life, step, fault, open>>
  BY DEF Exit
<1>2. /\ providers' \in {"unset", "live", "shut"} /\ active' \in BOOLEAN
      /\ UNCHANGED <<registered, held>> /\ unflushed' \in BOOLEAN
      /\ active' => active
      /\ unflushed' => unflushed /\ (role # "worker" => ~registered)
      /\ providers' # "unset" => providers # "unset" \/ registered
  <2>1. CASE AtExit
    BY <2>1 DEF AtExit, LifeInv, LifeTypeOK
  <2>2. CASE role = "worker"
    BY <1>1, <2>2 DEF telemetryVars, LifeInv, LifeTypeOK
  <2>3. QED  BY <1>1, <2>1, <2>2
<1>3. LifeTypeOK'
  BY <1>1, <1>2 DEF LifeInv, LifeTypeOK, Stages
<1>4. Staged'
  BY <1>1, <1>2 DEF LifeInv, LifeTypeOK, Staged
<1>5. Cleaned'
  BY <1>1, <1>2 DEF LifeInv, Cleaned
<1>6. Flushed'
  BY <1>1, <1>2 DEF LifeInv, LifeTypeOK, Flushed
<1>7. QED  BY <1>3, <1>4, <1>5, <1>6 DEF LifeInv

LEMMA LifeAlways == Spec => []LifeInv
<1>1. LifeInv /\ [Next]_vars => LifeInv'
  <2> SUFFICES ASSUME LifeInv, [Next]_vars  PROVE LifeInv'
    OBVIOUS
  <2>1. CASE UNCHANGED vars
    BY <2>1 DEF vars, processVars, telemetryVars, LifeInv, LifeTypeOK, Staged, Cleaned, Flushed
  <2>2. QED
    BY <2>1, StartStep, ServeStep, CleanStep, FinishStep, CeleryStep, RecordStep, ExitStep
       DEF Next
<1>2. QED  BY <1>1, InitInv, PTL DEF Spec

\* The process's variables keep their types.
THEOREM LifeTypeCorrect == Spec => []LifeTypeOK
<1>1. LifeInv => LifeTypeOK
  BY DEF LifeInv
<1>2. QED  BY <1>1, LifeAlways, PTL

\* A clean-up that goes well leaves nothing open, a slow one still closes the
\* analytics and the telemetry, and one that fails leaves open only what came
\* after (main.py: lifespan, _cleanup_resources).
THEOREM OpenOnlyByFault == Spec => []LeftOpenOnlyByFault
<1>1. LifeInv => LeftOpenOnlyByFault
  <2> SUFFICES ASSUME LifeInv, role = "api", life > 0, stage \in {"down", "gone"}
               PROVE  LeftOpenOnlyByFault
    BY DEF LeftOpenOnlyByFault
  <2>1. fault = "none" => \A i \in Steps : Closes(i, life) \notin open
    BY StepsAre DEF LifeInv, Cleaned
  <2>2. QED  BY <2>1 DEF LeftOpenOnlyByFault, LifeInv, Cleaned
<1>2. QED  BY <1>1, LifeAlways, PTL

\* Telemetry that was recorded is flushed before the process leaves
\* (bootstrap.py: TelemetryRuntime.shutdown, _shutdown_process_providers).
THEOREM TelemetryFlushed == Spec => []FlushedAtExit
<1>1. LifeInv => FlushedAtExit
  BY DEF FlushedAtExit, LifeInv, LifeTypeOK, Staged, Flushed, Roles
<1>2. QED  BY <1>1, LifeAlways, PTL
=============================================================================
