---------------------------- MODULE ServerProofs ----------------------------
(***************************************************************************)
(* Proofs about Server, for any codes and any requests: the token is issued *)
(* once for every time it lapses, and the page shows no code active that    *)
(* has no run, also with two requests for one code; with one for each the   *)
(* page goes on showing what was left to an operator.                       *)
(***************************************************************************)
EXTENDS Server, TLAPS

Phases == {"out", "lapsed", "issuing", "have", "failed"}
Places == {"none", "admitted", "price", "size", "spawn", "spawned"}
Runs   == [code : Codes, at : {"run", "left", "reported", "over"}, told : BOOLEAN,
           manual : BOOLEAN, shot : BOOLEAN, sync : BOOLEAN]

\* The write lock: one caller asks for a token, and only while there is none.
OneIssuer ==
    /\ \A x, y \in Callers : phase[x] = "issuing" /\ phase[y] = "issuing" => x = y
    /\ \A x \in Callers : phase[x] = "issuing" => ~valid

TokenInv ==
    /\ valid \in BOOLEAN /\ issued \in Nat /\ lapses \in Nat
    /\ phase \in [Callers -> Phases]
    /\ OneIssuer
    /\ issued <= lapses + 1
    /\ ~valid => issued <= lapses

Typed ==
    /\ runs \in Seq(Runs) /\ status \in [Codes -> [active : BOOLEAN, manual : BOOLEAN]]
    /\ step \in [Requests -> Places] /\ begun \in [Requests -> Nat]

\* A request that has spawned a run is answered while that run goes on.
Answered(r) ==
    /\ begun[r] \in 1..Len(runs)
    /\ runs[begun[r]].code = CodeOf[r] /\ runs[begun[r]].at = "run"
AllAnswered == \A r \in Requests : step[r] = "spawned" => Answered(r)

PageInv == Typed /\ AllAnswered /\ ShownRunning

--------------------------------------------------------------------------
\* The token.

LEMMA TokenStep == TokenInv /\ [Next]_serverVars => TokenInv'
  <1> SUFFICES ASSUME TokenInv, [Next]_serverVars PROVE TokenInv'
    OBVIOUS
  <1>1. CASE UNCHANGED tokenVars
    BY <1>1 DEF TokenInv, OneIssuer, tokenVars
  <1>2. ASSUME NEW x \in Callers, Look(x) PROVE TokenInv'
    BY <1>2 DEF TokenInv, OneIssuer, Look, Phases
  <1>3. ASSUME NEW x \in Callers, LookAgain(x) PROVE TokenInv'
    BY <1>3 DEF TokenInv, OneIssuer, LookAgain, Locked, Phases
  <1>4. ASSUME NEW x \in Callers, Issue(x) PROVE TokenInv'
    BY <1>4 DEF TokenInv, OneIssuer, Issue, Phases
  <1>5. ASSUME NEW x \in Callers, IssueFails(x) PROVE TokenInv'
    BY <1>5 DEF TokenInv, OneIssuer, IssueFails, Phases
  <1>6. CASE Lapse
    <2>1. issued' = issued /\ lapses' = lapses + 1 /\ phase' = phase
      BY <1>6 DEF Lapse
    <2>2. valid' = FALSE
      BY <1>6 DEF Lapse
    <2>3. issued' \in Nat /\ lapses' \in Nat /\ issued' <= lapses' /\ issued' <= lapses' + 1
      BY <2>1 DEF TokenInv
    <2>4. OneIssuer'
      BY <2>1, <2>2 DEF TokenInv, OneIssuer
    <2> QED
      BY <2>1, <2>2, <2>3, <2>4, Zenon DEF TokenInv
  <1>7. ASSUME NEW x \in Callers, Leave(x), UNCHANGED <<valid, issued, lapses>>
        PROVE  TokenInv'
    BY <1>7 DEF TokenInv, OneIssuer, Leave, Phases
  <1>8. CASE Broker
    BY <1>2, <1>3, <1>4, <1>5, <1>6, <1>8, RequestsAssumption DEF Broker, GetToken
  <1>9. ASSUME NEW r \in Requests,
               \/ PriceAnswered(r) \/ PriceRefused(r)
               \/ \E affordable \in BOOLEAN : Sized(r, affordable)
        PROVE  TokenInv'
    BY <1>7, <1>9, RequestsAssumption DEF PriceAnswered, PriceRefused, Sized
  <1>10. ASSUME NEW r \in Requests, Ask(r) \/ Claim(r) \/ Spawn(r) \/ Started(r)
         PROVE  TokenInv'
    BY <1>1, <1>10 DEF Ask, Claim, Spawn, Started
  <1>11. CASE KeyArrives \/ Probe \/ Shutdown
    BY <1>1, <1>11 DEF KeyArrives, Probe, Shutdown
  <1>12. CASE \E c \in Codes : Stop(c)
    BY <1>1, <1>12 DEF Stop
  <1>13. CASE \E i \in RunIds : Flagged(i) \/ Leaves(i) \/ Reports(i) \/ Unlists(i) \/ Copies(i)
    BY <1>1, <1>13 DEF Flagged, Leaves, Reports, Unlists, Copies
  <1>14. CASE UNCHANGED serverVars
    BY <1>1, <1>14 DEF serverVars
  <1> QED
    BY <1>8, <1>9, <1>10, <1>11, <1>12, <1>13, <1>14 DEF Next

\* However many callers find the token expired, the broker issues one for each time
\* it lapsed and one at the start (refresh_token looks again under the write lock).
THEOREM TokenIssuedOnce == Spec => []OneIssue
  <1>1. ASSUME Init PROVE TokenInv
    <2>1. valid = FALSE /\ phase = [x \in Callers |-> "out"]
      BY <1>1 DEF Init, TokenInit
    <2>2. issued \in Nat /\ lapses \in Nat /\ issued <= lapses /\ issued <= lapses + 1
      BY <1>1 DEF Init, TokenInit
    <2>3. phase \in [Callers -> Phases] /\ \A x \in Callers : phase[x] # "issuing"
      BY <2>1 DEF Phases
    <2>4. OneIssuer
      BY <2>3 DEF OneIssuer
    <2> QED
      BY <2>1, <2>2, <2>3, <2>4, Zenon DEF TokenInv
  <1>2. TokenInv => OneIssue
    BY DEF TokenInv, OneIssue
  <1> QED
    BY <1>1, <1>2, TokenStep, PTL DEF Spec
--------------------------------------------------------------------------
\* The page.

\* A step that leaves the codes and the places of the runs alone, and the page no
\* more active than it was.
LEMMA SameRuns ==
    ASSUME PageInv, Typed', begun' = begun,
           Len(runs') = Len(runs),
           \A i \in 1..Len(runs) : runs'[i].code = runs[i].code /\ runs'[i].at = runs[i].at,
           \A r \in Requests : step'[r] = "spawned" => step[r] = "spawned",
           \A c \in Codes : status'[c].active => status[c].active
    PROVE  PageInv'
  <1>1. AllAnswered'
    BY DEF PageInv, AllAnswered, Answered
  <1>2. ShownRunning'
    BY DEF PageInv, ShownRunning, Running, RunIds
  <1> QED
    BY <1>1, <1>2 DEF PageInv

LEMMA ToldRuns ==
    ASSUME Typed, NEW ids
    PROVE  /\ Tell(ids) \in Seq(Runs) /\ Len(Tell(ids)) = Len(runs)
           /\ \A i \in 1..Len(runs) : /\ Tell(ids)[i].code = runs[i].code
                                      /\ Tell(ids)[i].at = runs[i].at
                                      /\ Tell(ids)[i].shot = runs[i].shot
                                      /\ Tell(ids)[i].manual = runs[i].manual
  <1>1. \A i \in 1..Len(runs) : runs[i] \in Runs
    BY DEF Typed
  <1>2. \A i \in 1..Len(runs) : [runs[i] EXCEPT !.told = TRUE] \in Runs
    BY <1>1 DEF Runs
  <1>3. Tell(ids) \in [1..Len(runs) -> Runs]
    BY <1>1, <1>2 DEF Tell, RunIds
  <1>4. Len(runs) \in Nat
    BY DEF Typed
  <1>5. Tell(ids) \in Seq(Runs) /\ Len(Tell(ids)) = Len(runs)
    BY <1>3, <1>4
  <1>6. ASSUME NEW i \in 1..Len(runs)
        PROVE  /\ Tell(ids)[i].code = runs[i].code /\ Tell(ids)[i].at = runs[i].at
               /\ Tell(ids)[i].shot = runs[i].shot /\ Tell(ids)[i].manual = runs[i].manual
    BY <1>1 DEF Tell, RunIds, Runs
  <1> QED
    BY <1>5, <1>6

\* The record of a run.
LEMMA RunType ==
    ASSUME Typed, NEW i \in RunIds
    PROVE  /\ runs[i] \in Runs
           /\ runs[i].code \in Codes /\ runs[i].manual \in BOOLEAN /\ runs[i].shot \in BOOLEAN
  <1>1. runs[i] \in Runs
    BY DEF Typed, RunIds
  <1> QED
    BY <1>1 DEF Runs

LEMMA RequestStep ==
    ASSUME PageInv, NEW r \in Requests,
           \/ Ask(r) \/ Claim(r) \/ PriceAnswered(r) \/ PriceRefused(r)
           \/ \E affordable \in BOOLEAN : Sized(r, affordable)
    PROVE  PageInv'
  <1>1. UNCHANGED <<runs, status, begun>>
    BY DEF Ask, Claim, PriceAnswered, PriceRefused, Sized, manager
  <1>2. PICK there \in Places \ {"spawned"} : step' = [step EXCEPT ![r] = there]
    BY DEF Ask, Claim, PriceAnswered, PriceRefused, Sized, At, Places
  <1>3. Typed'
    BY <1>1, <1>2 DEF PageInv, Typed, Places
  <1>4. \A q \in Requests : step'[q] = "spawned" => step[q] = "spawned"
    BY <1>2 DEF PageInv, Typed
  <1> QED
    BY <1>1, <1>3, <1>4, SameRuns

LEMMA SpawnStep ==
    ASSUME PageInv, NEW r \in Requests, Spawn(r)
    PROVE  PageInv'
  <1> DEFINE n == Len(runs)
             new == NewRun(CodeOf[r])
  <1>1. /\ runs' = Append(runs, new) /\ step' = [step EXCEPT ![r] = "spawned"]
        /\ begun' = [begun EXCEPT ![r] = n + 1] /\ status' = status
    BY DEF Spawn, At
  <1>2. new \in Runs /\ new.code = CodeOf[r] /\ new.at = "run"
    BY RequestsAssumption DEF NewRun, Runs
  <1>3. n \in Nat /\ runs \in Seq(Runs)
    BY DEF PageInv, Typed
  <1> HIDE DEF new
  <1>4. /\ Len(runs') = n + 1 /\ runs'[n + 1] = new /\ runs' \in Seq(Runs)
        /\ \A i \in 1..n : runs'[i] = runs[i]
    BY <1>1, <1>2, <1>3
  <1>5. Typed'
    BY <1>1, <1>3, <1>4 DEF PageInv, Typed, Places
  <1>6. ASSUME NEW q \in Requests, step'[q] = "spawned" PROVE Answered(q)'
    <2>1. CASE q = r
      BY <1>1, <1>2, <1>3, <1>4, <2>1 DEF Answered, PageInv, Typed
    <2>2. CASE q # r
      <3>1. step[q] = "spawned" /\ begun'[q] = begun[q]
        BY <1>1, <1>6, <2>2 DEF PageInv, Typed
      <3> QED
        BY <1>3, <1>4, <3>1 DEF Answered, PageInv, AllAnswered
    <2> QED
      BY <2>1, <2>2
  <1>7. ASSUME NEW c \in Codes, status'[c].active PROVE Running(c)'
    BY <1>1, <1>3, <1>4, <1>7 DEF PageInv, ShownRunning, Running, RunIds
  <1> QED
    BY <1>5, <1>6, <1>7 DEF PageInv, AllAnswered, ShownRunning

LEMMA StartedStep ==
    ASSUME PageInv, NEW r \in Requests, Started(r)
    PROVE  PageInv'
  <1>1. /\ runs' = runs /\ step[r] = "spawned" /\ step' = [step EXCEPT ![r] = "none"]
        /\ begun' = [begun EXCEPT ![r] = 0]
        /\ status' = [status EXCEPT ![CodeOf[r]].active = TRUE]
    BY DEF Started, At
  <1>2. CodeOf[r] \in Codes
    BY RequestsAssumption
  <1>3. Typed'
    BY <1>1, <1>2 DEF PageInv, Typed, Places
  <1>4. ASSUME NEW q \in Requests, step'[q] = "spawned" PROVE Answered(q)'
    <2>1. q # r /\ step[q] = "spawned" /\ begun'[q] = begun[q]
      BY <1>1, <1>4 DEF PageInv, Typed
    <2> QED
      BY <1>1, <2>1 DEF Answered, PageInv, AllAnswered
  <1>5. ASSUME NEW c \in Codes, status'[c].active PROVE Running(c)'
    <2>1. CASE c = CodeOf[r]
      BY <1>1, <2>1 DEF PageInv, AllAnswered, Answered, Running, RunIds
    <2>2. CASE c # CodeOf[r]
      BY <1>1, <1>2, <1>5, <2>2 DEF PageInv, Typed, ShownRunning, Running, RunIds
    <2> QED
      BY <2>1, <2>2
  <1> QED
    BY <1>3, <1>4, <1>5 DEF PageInv, AllAnswered, ShownRunning

\* A step of a run's own tasks writes its record.
LEMMA RunRecord ==
    ASSUME Typed, NEW i \in RunIds, NEW rec \in Runs, runs' = [runs EXCEPT ![i] = rec]
    PROVE  /\ runs' \in Seq(Runs) /\ Len(runs') = Len(runs) /\ runs'[i] = rec
           /\ \A j \in 1..Len(runs) : j # i => runs'[j] = runs[j]
  BY DEF Typed, RunIds

LEMMA LeavesStep ==
    ASSUME PageInv, NEW i \in RunIds, Leaves(i)
    PROVE  PageInv'
  <1> DEFINE rec == [runs[i] EXCEPT !.at = "left", !.shot = runs[i].manual]
  <1>1. /\ runs' = [runs EXCEPT ![i] = rec] /\ runs[i].at = "run"
        /\ \A r \in Requests : begun[r] # i
        /\ UNCHANGED <<status, step, begun>>
    BY DEF Leaves
  <1>2. rec \in Runs /\ rec.code = runs[i].code /\ rec.at = "left"
    BY RunType DEF PageInv, Runs
  <1> HIDE DEF rec
  <1>3. /\ runs' \in Seq(Runs) /\ Len(runs') = Len(runs) /\ runs'[i] = rec
        /\ \A j \in 1..Len(runs) : j # i => runs'[j] = runs[j]
    BY <1>1, <1>2, RunRecord DEF PageInv
  <1>4. Typed'
    BY <1>1, <1>3 DEF PageInv, Typed
  <1>5. AllAnswered'
    BY <1>1, <1>3 DEF PageInv, AllAnswered, Answered
  <1>6. ShownRunning'
    BY <1>1, <1>2, <1>3 DEF PageInv, ShownRunning, Running, RunIds
  <1> QED
    BY <1>4, <1>5, <1>6 DEF PageInv

LEMMA ReportsStep ==
    ASSUME PageInv, NEW i \in RunIds, Reports(i)
    PROVE  PageInv'
  <1> DEFINE rec == [runs[i] EXCEPT !.at = "reported"]
             c0 == runs[i].code
  <1>1. /\ runs' = [runs EXCEPT ![i] = rec] /\ runs[i].at = "left"
        /\ status' = [status EXCEPT ![c0].active = FALSE, ![c0].manual = @ \/ runs[i].shot]
        /\ UNCHANGED <<step, begun>>
    BY DEF Reports
  <1>2. rec \in Runs /\ rec.code = c0 /\ c0 \in Codes
    BY RunType DEF PageInv, Runs
  <1>3. runs[i].shot \in BOOLEAN
    BY RunType DEF PageInv
  <1> HIDE DEF rec
  <1>4. /\ runs' \in Seq(Runs) /\ Len(runs') = Len(runs) /\ runs'[i] = rec
        /\ \A j \in 1..Len(runs) : j # i => runs'[j] = runs[j]
    BY <1>1, <1>2, RunRecord DEF PageInv
  <1>5. status' \in [Codes -> [active : BOOLEAN, manual : BOOLEAN]]
    BY <1>1, <1>2, <1>3 DEF PageInv, Typed
  <1>6. Typed'
    BY <1>1, <1>4, <1>5 DEF PageInv, Typed
  <1>7. AllAnswered'
    BY <1>1, <1>4 DEF PageInv, AllAnswered, Answered
  <1>8. ASSUME NEW c \in Codes, status'[c].active PROVE Running(c)'
    <2>1. c # c0 /\ status[c].active
      BY <1>1, <1>2, <1>8 DEF PageInv, Typed
    <2>2. PICK j \in 1..Len(runs) : runs[j].code = c /\ runs[j].at \in {"run", "left"}
      BY <2>1 DEF PageInv, ShownRunning, Running, RunIds
    <2>3. j # i
      BY <2>1, <2>2
    <2> QED
      BY <1>4, <2>2, <2>3 DEF Running, RunIds
  <1> QED
    BY <1>6, <1>7, <1>8 DEF PageInv, ShownRunning

\* The end of a run, and what it is marked with, do not matter to the page.
LEMMA RunStep ==
    ASSUME PageInv, NEW i \in RunIds, Flagged(i) \/ Unlists(i) \/ Copies(i)
    PROVE  PageInv'
  <1>1. runs[i] \in Runs /\ runs[i].code \in Codes
    BY RunType DEF PageInv
  <1>2. UNCHANGED <<step, begun>>
    BY DEF Flagged, Unlists, Copies
  <1>3. CASE Flagged(i)
    <2> DEFINE rec == [runs[i] EXCEPT !.manual = TRUE]
    <2>1. runs' = [runs EXCEPT ![i] = rec] /\ status' = status
      BY <1>3 DEF Flagged
    <2>2. rec \in Runs /\ rec.code = runs[i].code /\ rec.at = runs[i].at
      BY <1>1 DEF Runs
    <2> HIDE DEF rec
    <2>3. /\ runs' \in Seq(Runs) /\ Len(runs') = Len(runs) /\ runs'[i] = rec
          /\ \A j \in 1..Len(runs) : j # i => runs'[j] = runs[j]
      BY <2>1, <2>2, RunRecord DEF PageInv
    <2>4. Typed'
      BY <1>2, <2>1, <2>3 DEF PageInv, Typed
    <2> QED
      BY <1>2, <2>1, <2>2, <2>3, <2>4, SameRuns
  <1>4. CASE Unlists(i)
    <2> DEFINE rec == [runs[i] EXCEPT !.at = "over"]
    <2>1. runs' = [runs EXCEPT ![i] = rec] /\ status' = status /\ runs[i].at = "reported"
      BY <1>4 DEF Unlists
    <2>2. rec \in Runs /\ rec.code = runs[i].code
      BY <1>1 DEF Runs
    <2> HIDE DEF rec
    <2>3. /\ runs' \in Seq(Runs) /\ Len(runs') = Len(runs) /\ runs'[i] = rec
          /\ \A j \in 1..Len(runs) : j # i => runs'[j] = runs[j]
      BY <2>1, <2>2, RunRecord DEF PageInv
    <2>4. Typed'
      BY <1>2, <2>1, <2>3 DEF PageInv, Typed
    <2>5. AllAnswered'
      BY <1>2, <2>1, <2>3 DEF PageInv, AllAnswered, Answered
    <2>6. ASSUME NEW c \in Codes, status'[c].active PROVE Running(c)'
      <3>1. PICK j \in 1..Len(runs) : runs[j].code = c /\ runs[j].at \in {"run", "left"}
        BY <2>1, <2>6 DEF PageInv, ShownRunning, Running, RunIds
      <3>2. j # i
        BY <2>1, <3>1
      <3> QED
        BY <2>3, <3>1, <3>2 DEF Running, RunIds
    <2> QED
      BY <2>4, <2>5, <2>6 DEF PageInv, ShownRunning
  <1>5. CASE Copies(i)
    <2> DEFINE rec == [runs[i] EXCEPT !.sync = ~Done(i)]
    <2>1. /\ runs' = [runs EXCEPT ![i] = rec]
          /\ \/ status' = status
             \/ status' = [status EXCEPT ![runs[i].code].manual = runs[i].manual]
      BY <1>5 DEF Copies
    <2>2. (~Done(i)) \in BOOLEAN
      BY DEF Done
    <2>3. rec \in Runs /\ rec.code = runs[i].code /\ rec.at = runs[i].at
      BY <1>1, <2>2 DEF Runs
    <2> HIDE DEF rec
    <2>4. /\ runs' \in Seq(Runs) /\ Len(runs') = Len(runs) /\ runs'[i] = rec
          /\ \A j \in 1..Len(runs) : j # i => runs'[j] = runs[j]
      BY <2>1, <2>3, RunRecord DEF PageInv
    <2>5. runs[i].manual \in BOOLEAN
      BY <1>1 DEF Runs
    <2>6. /\ status' \in [Codes -> [active : BOOLEAN, manual : BOOLEAN]]
          /\ \A c \in Codes : status'[c].active => status[c].active
      BY <1>1, <2>1, <2>5 DEF PageInv, Typed
    <2>7. Typed'
      BY <1>2, <2>4, <2>6 DEF PageInv, Typed
    <2> QED
      BY <1>2, <2>3, <2>4, <2>6, <2>7, SameRuns
  <1> QED
    BY <1>3, <1>4, <1>5

\* Steps that tell runs to stop.
LEMMA ToldStep ==
    ASSUME PageInv, Probe \/ Shutdown \/ \E c \in Codes : Stop(c)
    PROVE  PageInv'
  <1>1. UNCHANGED <<step, begun>>
    BY DEF Probe, Shutdown, Stop
  <1>2. runs' = runs \/ \E ids : runs' = Tell(ids)
    BY DEF Probe, Shutdown, Stop
  <1>3. /\ runs' \in Seq(Runs) /\ Len(runs') = Len(runs)
        /\ \A i \in 1..Len(runs) : runs'[i].code = runs[i].code /\ runs'[i].at = runs[i].at
    BY <1>2, ToldRuns DEF PageInv, Typed
  <1>4. /\ status' \in [Codes -> [active : BOOLEAN, manual : BOOLEAN]]
        /\ \A c \in Codes : status'[c].active => status[c].active
    BY DEF Probe, Shutdown, Stop, PageInv, Typed
  <1>5. Typed'
    BY <1>1, <1>3, <1>4 DEF PageInv, Typed
  <1> QED
    BY <1>1, <1>3, <1>4, <1>5, SameRuns

LEMMA PageStep == PageInv /\ [Next]_serverVars => PageInv'
  <1> SUFFICES ASSUME PageInv, [Next]_serverVars PROVE PageInv'
    OBVIOUS
  <1>1. CASE UNCHANGED <<status, runs, step, begun>>
    BY <1>1 DEF PageInv, Typed, AllAnswered, Answered, ShownRunning, Running, RunIds
  <1>2. CASE KeyArrives \/ Broker \/ UNCHANGED serverVars
    BY <1>1, <1>2 DEF KeyArrives, Broker, serverVars, manager
  <1> QED
    BY <1>2, RequestStep, SpawnStep, StartedStep, LeavesStep, ReportsStep, RunStep, ToldStep
    DEF Next

\* The page shows a code active only while a run of it goes on, also when two
\* requests have started two runs of one code (start_runner and its tasks).
THEOREM PageShowsWhatRuns == Spec => []ShownRunning
  <1>1. Init => PageInv
    BY DEF Init, PageInv, Typed, Places, AllAnswered, ShownRunning
  <1>2. PageInv => ShownRunning
    BY DEF PageInv
  <1> QED
    BY <1>1, <1>2, PageStep, PTL DEF Spec
--------------------------------------------------------------------------
\* The operator's flag.

\* One request per code, as the page sends them: the next one waits for the answer.
OneEach == \A q, r \in Requests : CodeOf[q] = CodeOf[r] => q = r

Asking == {"price", "size", "spawn"}

\* The handle of a code goes when its one run is over, so a run is started when the
\* earlier runs of its code are over; and what was manual at the end of a run stays so.
Orderly ==
    /\ handle \in [Codes -> Nat]
    /\ \A i \in RunIds : handle[runs[i].code] = 0 => runs[i].at = "over"
    /\ \A r \in Requests : step[r] \in Asking => handle[CodeOf[r]] = 0
    /\ \A i, j \in RunIds : j < i /\ runs[j].code = runs[i].code => runs[j].at = "over"
    /\ \A i \in RunIds : runs[i].shot => runs[i].manual

FlagInv == Orderly /\ ManualShown

\* A step that leaves the places of the runs alone, takes no flag back and lets a request
\* ask only where there is no handle.
LEMMA SameFlags ==
    ASSUME FlagInv, handle' = handle, Len(runs') = Len(runs),
           \A i \in RunIds : /\ runs'[i].code = runs[i].code /\ runs'[i].at = runs[i].at
                             /\ runs'[i].shot = runs[i].shot
                             /\ runs[i].manual => runs'[i].manual,
           \A r \in Requests : step'[r] \in Asking => step[r] \in Asking \/ handle[CodeOf[r]] = 0,
           \A i \in RunIds : /\ LastRun(i) /\ runs[i].at \in {"reported", "over"} /\ runs[i].shot
                             /\ status[runs[i].code].manual
                             => status'[runs[i].code].manual
    PROVE  FlagInv'
  <1>1. RunIds' = RunIds
    BY DEF RunIds
  <1>2. Orderly'
    BY <1>1 DEF FlagInv, Orderly
  <1>3. \A i \in RunIds : LastRun(i)' <=> LastRun(i)
    BY <1>1 DEF LastRun
  <1>4. ManualShown'
    BY <1>1, <1>3 DEF FlagInv, ManualShown
  <1> QED
    BY <1>2, <1>4 DEF FlagInv

\* A write of one flag of the page leaves the other.
LEMMA ActiveOnly ==
    ASSUME Typed, NEW d \in Codes, NEW b \in BOOLEAN
    PROVE  /\ status' = [status EXCEPT ![d].active = b]
                => \A c \in Codes : status'[c].manual = status[c].manual
           /\ \A m : status' = [status EXCEPT ![d].active = b, ![d].manual = m]
                => status'[d].manual = m /\ \A c \in Codes \ {d} : status'[c] = status[c]
  <1>1. status \in [Codes -> [active : BOOLEAN, manual : BOOLEAN]]
    BY DEF Typed
  <1>2. ASSUME status' = [status EXCEPT ![d].active = b]
        PROVE  \A c \in Codes : status'[c].manual = status[c].manual
    BY <1>1, <1>2
  <1>3. ASSUME NEW m, status' = [status EXCEPT ![d].active = b, ![d].manual = m]
        PROVE  status'[d].manual = m /\ \A c \in Codes \ {d} : status'[c] = status[c]
    <2> DEFINE rec == [[status[d] EXCEPT !.active = b] EXCEPT !.manual = m]
    <2>1. status' = [status EXCEPT ![d] = rec]
      BY <1>1, <1>3
    <2>2. rec.manual = m
      BY <1>1
    <2> HIDE DEF rec
    <2> QED
      BY <1>1, <2>1, <2>2
  <1> QED
    BY <1>2, <1>3

LEMMA RequestFlags ==
    ASSUME Typed, FlagInv, NEW r \in Requests,
           \/ Ask(r) \/ Claim(r) \/ PriceAnswered(r) \/ PriceRefused(r) \/ Started(r)
           \/ \E affordable \in BOOLEAN : Sized(r, affordable)
    PROVE  FlagInv'
  <1>1. UNCHANGED <<runs, handle>>
    BY DEF Ask, Claim, PriceAnswered, PriceRefused, Sized, Started, manager
  <1>2. \A c \in Codes : status'[c].manual = status[c].manual
    <2>1. status' = status \/ status' = [status EXCEPT ![CodeOf[r]].active = TRUE]
      BY DEF Ask, Claim, PriceAnswered, PriceRefused, Sized, Started, manager
    <2>2. CodeOf[r] \in Codes
      BY RequestsAssumption
    <2> QED
      BY <2>1, <2>2, ActiveOnly
  <1>3. \A q \in Requests : step'[q] \in Asking => step[q] \in Asking \/ handle[CodeOf[q]] = 0
    BY DEF Ask, Claim, PriceAnswered, PriceRefused, Sized, Started, At, Asking, Typed
  <1>4. \A i \in RunIds : runs[i].code \in Codes
    BY RunType
  <1> QED
    BY <1>1, <1>2, <1>3, <1>4, SameFlags

LEMMA ToldFlags ==
    ASSUME Typed, FlagInv, Probe \/ Shutdown \/ \E c \in Codes : Stop(c)
    PROVE  FlagInv'
  <1>1. UNCHANGED <<step, handle>>
    BY DEF Probe, Shutdown, Stop
  <1>2. runs' = runs \/ \E ids : runs' = Tell(ids)
    BY DEF Probe, Shutdown, Stop
  <1>3. Len(runs') = Len(runs)
    BY <1>2, ToldRuns
  <1>4. \A i \in RunIds : /\ runs'[i].code = runs[i].code /\ runs'[i].at = runs[i].at
                          /\ runs'[i].shot = runs[i].shot /\ runs'[i].manual = runs[i].manual
    BY <1>2, ToldRuns DEF RunIds
  <1>5. \A c \in Codes : status'[c].manual = status[c].manual
    <2>1. status' = status \/ \E c \in Codes : status' = [status EXCEPT ![c].active = FALSE]
      BY DEF Probe, Shutdown, Stop
    <2> QED
      BY <2>1, ActiveOnly
  <1>6. \A i \in RunIds : runs[i].code \in Codes
    BY RunType
  <1> QED
    BY <1>1, <1>3, <1>4, <1>5, <1>6, SameFlags

\* A run is started when all runs of its code are over, and is the last one then.
LEMMA SpawnFlags ==
    ASSUME OneEach, Typed, FlagInv, NEW r \in Requests, Spawn(r)
    PROVE  FlagInv'
  <1> DEFINE n == Len(runs)
             c == CodeOf[r]
             new == NewRun(c)
  <1>1. /\ runs' = Append(runs, new) /\ step[r] = "spawn" /\ step' = [step EXCEPT ![r] = "spawned"]
        /\ handle' = [handle EXCEPT ![c] = n + 1] /\ status' = status
    BY DEF Spawn, At
  <1>2. new \in Runs /\ new.code = c /\ new.at = "run" /\ new.shot = FALSE /\ c \in Codes
    BY RequestsAssumption DEF NewRun, Runs
  <1>3. n \in Nat /\ runs \in Seq(Runs)
    BY DEF Typed
  <1> HIDE DEF new
  <1>4. /\ Len(runs') = n + 1 /\ runs'[n + 1] = new
        /\ \A i \in RunIds : runs'[i] = runs[i]
        /\ RunIds' = RunIds \cup {n + 1} /\ RunIds = 1..n
    BY <1>1, <1>2, <1>3 DEF RunIds
  <1>5. handle[c] = 0
    BY <1>1 DEF FlagInv, Orderly, Asking
  <1>6. \A i \in RunIds : runs[i].code \in Codes /\ (runs[i].code = c => runs[i].at = "over")
    BY <1>5, RunType DEF FlagInv, Orderly
  <1>7. handle' \in [Codes -> Nat]
    BY <1>1, <1>2, <1>3 DEF FlagInv, Orderly
  <1>8. \A i \in RunIds' : handle'[runs'[i].code] = 0 => runs'[i].at = "over"
    BY <1>1, <1>2, <1>3, <1>4, <1>6 DEF FlagInv, Orderly
  <1>9. \A q \in Requests : step'[q] \in Asking => handle'[CodeOf[q]] = 0
    <2>1. ASSUME NEW q \in Requests, step'[q] \in Asking
          PROVE  handle'[CodeOf[q]] = 0
      <3>1. q # r /\ step[q] \in Asking
        BY <1>1, <2>1 DEF Typed, Asking
      <3>2. CodeOf[q] # c /\ CodeOf[q] \in Codes
        BY <3>1, RequestsAssumption DEF OneEach
      <3> QED
        BY <1>1, <3>1, <3>2 DEF FlagInv, Orderly
    <2> QED
      BY <2>1
  <1>10. \A i, j \in RunIds' : j < i /\ runs'[j].code = runs'[i].code => runs'[j].at = "over"
    <2>1. ASSUME NEW i \in RunIds', NEW j \in RunIds', j < i, runs'[j].code = runs'[i].code
          PROVE  runs'[j].at = "over"
      <3>1. j \in RunIds
        BY <1>3, <1>4, <2>1
      <3>2. CASE i = n + 1
        BY <1>2, <1>4, <1>6, <2>1, <3>1, <3>2
      <3>3. CASE i \in RunIds
        BY <1>4, <2>1, <3>1, <3>3 DEF FlagInv, Orderly
      <3> QED
        BY <1>4, <3>2, <3>3
    <2> QED
      BY <2>1
  <1>11. \A i \in RunIds' : runs'[i].shot => runs'[i].manual
    BY <1>2, <1>4 DEF FlagInv, Orderly
  <1>12. ManualShown'
    <2>1. ASSUME NEW i \in RunIds', LastRun(i)', runs'[i].at \in {"reported", "over"}, runs'[i].shot
          PROVE  status'[runs'[i].code].manual
      <3>1. i \in RunIds
        BY <1>2, <1>4, <2>1
      <3>2. LastRun(i)
        BY <1>4, <2>1, <3>1 DEF LastRun
      <3> QED
        BY <1>1, <1>4, <2>1, <3>1, <3>2 DEF FlagInv, ManualShown
    <2> QED
      BY <2>1 DEF ManualShown
  <1> QED
    BY <1>7, <1>8, <1>9, <1>10, <1>11, <1>12 DEF FlagInv, Orderly

\* The steps of a run's tasks up to its end.
LEMMA RunFlags ==
    ASSUME Typed, FlagInv, NEW i \in RunIds, Flagged(i) \/ Leaves(i)
    PROVE  FlagInv'
  <1>1. runs[i] \in Runs /\ UNCHANGED <<status, handle, step>> /\ runs[i].at = "run"
    BY RunType DEF Flagged, Leaves
  <1>2. PICK rec \in Runs : /\ runs' = [runs EXCEPT ![i] = rec] /\ rec.code = runs[i].code
                            /\ rec.at \in {"run", "left"}
                            /\ rec.shot => rec.manual
    <2>1. CASE Flagged(i)
      <3> DEFINE rec == [runs[i] EXCEPT !.manual = TRUE]
      <3>1. rec \in Runs /\ rec.code = runs[i].code /\ rec.at = runs[i].at /\ rec.manual
        BY <1>1 DEF Runs
      <3>2. runs' = [runs EXCEPT ![i] = rec]
        BY <2>1 DEF Flagged
      <3> QED
        BY <1>1, <3>1, <3>2
    <2>2. CASE Leaves(i)
      <3> DEFINE rec == [runs[i] EXCEPT !.at = "left", !.shot = runs[i].manual]
      <3>1. rec \in Runs /\ rec.code = runs[i].code /\ rec.at = "left"
        BY <1>1 DEF Runs
      <3>2. rec.shot = runs[i].manual /\ rec.manual = runs[i].manual
        BY <1>1 DEF Runs
      <3>3. runs' = [runs EXCEPT ![i] = rec]
        BY <2>2 DEF Leaves
      <3> QED
        BY <3>1, <3>2, <3>3
    <2> QED
      BY <2>1, <2>2
  <1>3. /\ RunIds' = RunIds /\ runs'[i] = rec
        /\ \A j \in RunIds : j # i => runs'[j] = runs[j]
    BY <1>2, RunRecord DEF RunIds
  <1>4. \A j \in RunIds : runs'[j].code = runs[j].code
    BY <1>2, <1>3
  <1>5. Orderly'
    <2>1. \A j \in RunIds : runs[j].at = "over" => j # i /\ runs'[j].at = "over"
      BY <1>1, <1>3
    <2>2. \A j \in RunIds : runs'[j].shot => runs'[j].manual
      BY <1>2, <1>3 DEF FlagInv, Orderly
    <2> QED
      BY <1>1, <1>3, <1>4, <2>1, <2>2 DEF FlagInv, Orderly
  <1>6. \A j \in RunIds : LastRun(j)' <=> LastRun(j)
    BY <1>3, <1>4 DEF LastRun
  <1>7. \A j \in RunIds : runs'[j].at \in {"reported", "over"} => j # i
    BY <1>2, <1>3
  <1>8. ManualShown'
    BY <1>1, <1>3, <1>6, <1>7 DEF FlagInv, ManualShown
  <1> QED
    BY <1>5, <1>8 DEF FlagInv

\* The end of a run sets the flag, and its handle goes when no run of its code is left.
LEMMA EndFlags ==
    ASSUME Typed, FlagInv, NEW i \in RunIds, Reports(i) \/ Unlists(i)
    PROVE  FlagInv'
  <1> DEFINE c == runs[i].code
  <1>1. runs[i] \in Runs /\ c \in Codes /\ runs[i].shot \in BOOLEAN /\ step' = step
        /\ runs[i].at \in {"left", "reported"}
    BY RunType DEF Reports, Unlists
  <1>2. PICK rec \in Runs : /\ runs' = [runs EXCEPT ![i] = rec] /\ rec.code = c
                            /\ rec.shot = runs[i].shot /\ rec.manual = runs[i].manual
                            /\ rec.at = IF runs[i].at = "left" THEN "reported" ELSE "over"
    <2> DEFINE to == IF runs[i].at = "left" THEN "reported" ELSE "over"
               rec == [runs[i] EXCEPT !.at = to]
    <2>1. to \in {"reported", "over"}
      OBVIOUS
    <2>2. runs' = [runs EXCEPT ![i] = rec]
      BY DEF Reports, Unlists
    <2> HIDE DEF to
    <2>3. rec \in Runs /\ rec.code = c /\ rec.shot = runs[i].shot /\ rec.manual = runs[i].manual /\ rec.at = to
      BY <1>1, <2>1 DEF Runs
    <2> QED
      BY <2>2, <2>3 DEF to
  <1>3. /\ RunIds' = RunIds /\ runs'[i] = rec
        /\ \A j \in RunIds : j # i => runs'[j] = runs[j]
    BY <1>2, RunRecord DEF RunIds
  <1>4. /\ \A j \in RunIds : runs'[j].code = runs[j].code /\ runs'[j].shot = runs[j].shot
                             /\ runs'[j].manual = runs[j].manual
        /\ \A j \in RunIds : runs[j].at = "over" => j # i /\ runs'[j].at = "over"
    BY <1>1, <1>2, <1>3
  \* No other run of the code is left.
  <1>5. \A j \in RunIds : j # i /\ runs[j].code = c => j < i /\ runs[j].at = "over"
    BY <1>1 DEF FlagInv, Orderly, RunIds
  <1>6. Orderly'
    <2>1. handle' \in [Codes -> Nat] /\ (handle' = handle \/ (runs'[i].at = "over" /\ handle' = [handle EXCEPT ![c] = 0]))
      BY <1>1, <1>2, <1>3 DEF Reports, Unlists, FlagInv, Orderly
    <2>2. \A j \in RunIds : runs[j].code \in Codes
      BY RunType
    <2>3. \A j \in RunIds : handle'[runs'[j].code] = 0 => runs'[j].at = "over"
      <3>1. ASSUME NEW j \in RunIds, handle'[runs'[j].code] = 0
            PROVE  runs'[j].at = "over"
        <4>1. CASE handle[runs[j].code] = 0
          BY <1>4, <4>1 DEF FlagInv, Orderly
        <4>2. CASE handle[runs[j].code] # 0
          <5>1. runs[j].code = c /\ runs'[i].at = "over"
            BY <1>1, <1>4, <2>1, <2>2, <3>1, <4>2 DEF FlagInv, Orderly
          <5> QED
            BY <1>4, <1>5, <5>1
        <4> QED
          BY <4>1, <4>2
      <3> QED
        BY <3>1
    <2>4. \A r \in Requests : step'[r] \in Asking => handle'[CodeOf[r]] = 0
      BY <1>1, <2>1, RequestsAssumption DEF FlagInv, Orderly
    <2> QED
      BY <1>3, <1>4, <2>1, <2>3, <2>4 DEF FlagInv, Orderly
  <1>7. \A j \in RunIds : LastRun(j)' <=> LastRun(j)
    BY <1>3, <1>4 DEF LastRun
  <1>8. /\ \A d \in Codes : status[d].manual => status'[d].manual
        /\ runs[i].at = "left" /\ runs[i].shot => status'[c].manual
    <2>1. CASE Unlists(i)
      BY <2>1 DEF Unlists
    <2>2. CASE Reports(i)
      <3> DEFINE m == status[c].manual \/ runs[i].shot
      <3>1. status' = [status EXCEPT ![c].active = FALSE, ![c].manual = m]
        BY <1>1, <2>2 DEF Reports, Typed
      <3>2. status[c].manual \/ runs[i].shot => m
        OBVIOUS
      <3> HIDE DEF m
      <3>3. status'[c].manual = m /\ \A d \in Codes \ {c} : status'[d] = status[d]
        BY <1>1, <3>1, ActiveOnly
      <3> QED
        BY <3>2, <3>3
    <2> QED
      BY <2>1, <2>2
  <1>9. ASSUME NEW j \in RunIds, LastRun(j), runs'[j].at \in {"reported", "over"}, runs[j].shot
        PROVE  status'[runs[j].code].manual
    <2>1. CASE runs[j].at \in {"reported", "over"}
      BY <1>8, <1>9, <2>1, RunType DEF FlagInv, ManualShown
    <2>2. CASE runs[j].at \notin {"reported", "over"}
      BY <1>1, <1>3, <1>8, <1>9, <2>2
    <2> QED
      BY <2>1, <2>2
  <1>10. ManualShown'
    BY <1>3, <1>4, <1>7, <1>9 DEF ManualShown
  <1> QED
    BY <1>6, <1>10 DEF FlagInv

\* A copy for a run that is not manual is made while a run of its code goes on only.
LEMMA CopyFlags ==
    ASSUME PageInv, FlagInv, NEW i \in RunIds, Copies(i)
    PROVE  FlagInv'
  <1> DEFINE c == runs[i].code
             rec == [runs[i] EXCEPT !.sync = ~Done(i)]
  <1>1. runs[i] \in Runs /\ c \in Codes /\ UNCHANGED <<step, handle>> /\ Typed
    BY RunType DEF Copies, PageInv
  <1>2. (~Done(i)) \in BOOLEAN
    BY DEF Done
  <1>3. /\ rec \in Runs /\ rec.code = c /\ rec.at = runs[i].at /\ rec.shot = runs[i].shot
        /\ rec.manual = runs[i].manual
    BY <1>1, <1>2 DEF Runs
  <1>4. runs' = [runs EXCEPT ![i] = rec]
    BY DEF Copies
  <1> HIDE DEF rec
  <1>5. /\ Len(runs') = Len(runs) /\ runs'[i] = rec
        /\ \A j \in RunIds : j # i => runs'[j] = runs[j]
    BY <1>1, <1>3, <1>4, RunRecord DEF RunIds
  <1>6. \A j \in RunIds : /\ runs'[j].code = runs[j].code /\ runs'[j].at = runs[j].at
                          /\ runs'[j].shot = runs[j].shot /\ runs'[j].manual = runs[j].manual
    BY <1>3, <1>5
  <1>7. ASSUME NEW j \in RunIds, LastRun(j), runs[j].at \in {"reported", "over"}, runs[j].shot,
               status[runs[j].code].manual
        PROVE  status'[runs[j].code].manual
    <2>0. runs[j].code \in Codes
      BY <1>1, RunType
    <2>1. CASE runs[j].code # c \/ Done(i)
      BY <1>1, <1>7, <2>0, <2>1 DEF Copies, Typed
    <2>2. CASE runs[j].code = c /\ ~Done(i)
      <3>1. status' = [status EXCEPT ![c].manual = runs[i].manual]
        BY <2>2 DEF Copies
      <3>2. ~status[c].active
        <4>1. \A k \in RunIds : runs[k].code = c => runs[k].at \notin {"run", "left"}
          BY <1>7, <2>2 DEF LastRun, FlagInv, Orderly, RunIds
        <4> QED
          BY <1>1, <4>1 DEF PageInv, ShownRunning, Running
      <3>3. runs[i].manual
        BY <2>2, <3>2 DEF Done
      <3> QED
        BY <1>1, <2>2, <3>1, <3>3 DEF Typed
    <2> QED
      BY <2>1, <2>2
  <1> QED
    BY <1>1, <1>5, <1>6, <1>7, SameFlags

\* A code whose last run left a position to the operator is shown so, whatever tasks of
\* earlier runs still copy (the sync task of start_runner), as long as the requests of one
\* code come one after the other.
THEOREM FlagStaysShown ==
    ASSUME OneEach
    PROVE  Spec => []ManualShown
  <1>1. Init => PageInv /\ FlagInv
    BY DEF Init, PageInv, Typed, Places, AllAnswered, ShownRunning, FlagInv, Orderly, Asking, ManualShown, RunIds
  <1>2. ASSUME PageInv, FlagInv, [Next]_serverVars
        PROVE  FlagInv'
    <2>1. CASE UNCHANGED <<status, runs, step, handle>>
      BY <1>2, <2>1 DEF FlagInv, Orderly, ManualShown, LastRun, RunIds
    <2>2. CASE KeyArrives \/ Broker \/ UNCHANGED serverVars
      BY <2>1, <2>2 DEF KeyArrives, Broker, serverVars, manager
    <2>3. Typed
      BY <1>2 DEF PageInv
    <2> QED
      BY <1>2, <2>2, <2>3, RequestFlags, ToldFlags, SpawnFlags, RunFlags, EndFlags, CopyFlags DEF Next
  <1>3. PageInv /\ [Next]_serverVars => PageInv'
    BY PageStep
  <1>4. FlagInv => ManualShown
    BY DEF FlagInv
  <1> QED
    BY <1>1, <1>2, <1>3, <1>4, PTL DEF Spec
=============================================================================
