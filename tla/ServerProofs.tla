---------------------------- MODULE ServerProofs ----------------------------
(***************************************************************************)
(* What a request meets in the server process, and the server's start: the *)
(* execution of a statement, the configuration, the runner, the way of a   *)
(* statement to the database and the stream that reports it, each for      *)
(* every instance, and then the parts side by side, as in module MCServer. *)
(***************************************************************************)
EXTENDS MCServer, SlicesProofs

(* Each part, seen by itself, behaves as its module says: a step of the    *)
(* server is one of the part, or leaves the part's variables alone.        *)
LEMMA ServerRunsItsParts ==
  ServerSpec => Spec /\ Exec!Spec /\ Stream!Spec /\ Load!Spec /\ Run!Spec
<1>1. ServerInit => Init /\ Exec!Init /\ Stream!Init /\ Load!Init /\ Run!Init
  BY DEF ServerInit
<1>2. [ServerNext \/ StreamOver]_serverVars
        => /\ [Next]_vars /\ [Exec!Next]_(Exec!vars) /\ [Stream!Next]_(Stream!vars)
           /\ [Load!Next]_(Load!vars) /\ [Run!Next]_(Run!vars)
  <2>1. UNCHANGED executorVars => UNCHANGED Exec!vars
    BY DEF executorVars, Exec!vars, Exec!call, Exec!result
  <2>2. UNCHANGED streamVars => UNCHANGED Stream!vars
    BY DEF streamVars, Stream!vars, Stream!thread, Stream!loop
  <2>3. UNCHANGED configVars => UNCHANGED Load!vars
    BY DEF configVars, Load!vars, Load!sources
  <2>4. UNCHANGED runnerVars => UNCHANGED Run!vars
    BY DEF runnerVars, Run!vars, Run!processes
  <2> QED
    BY <2>1, <2>2, <2>3, <2>4 DEF ServerNext, StreamOver, serverVars
<1> QED
  BY <1>1, <1>2, PTL DEF ServerSpec, Spec, Exec!Spec, Stream!Spec, Load!Spec, Run!Spec

-----------------------------------------------------------------------------
(* The executor.                                                           *)

ExecutorInv ==
  /\ found \in Nat /\ now \in Nat /\ start \in 0..now
  /\ executorPc \in {"idle", "connect"} => conn = "none"
  /\ executorPc = "over" => conn # "open"
  /\ outcome = "escaped" => conn = "none" /\ executorPc = "over"
  /\ limit # None => limit \in Nat /\ limit >= start + Timeout
  /\ executorPc \in {"idle", "connect"} => limit = None
  /\ outcome # None => executorPc \in {"close", "over"}
  /\ executorPc = "idle" => outcome = None
  /\ Exec!OutcomeIsTrue

LEMMA ExecutorInvStep ==
  ASSUME Exec!BoundsAssumption, ExecutorInv, [Exec!Next]_(Exec!vars) PROVE ExecutorInv'
<1>1. /\ Timeout \in Nat \ {0} /\ MaxRows \in Nat \ {0} /\ MaxSize \in Nat
      /\ None \notin Nat /\ None \notin {"rows", "timeout", "failed", "escaped"}
  BY DEF Exec!BoundsAssumption
<1> USE <1>1 DEF ExecutorInv, Exec!OutcomeIsTrue, Exec!ResultIsHonest, Exec!TimeoutIsDue
<1>2. CASE Exec!Call
  BY <1>2 DEF Exec!Call, Exec!result
<1>3. CASE Exec!Tick
  BY <1>3 DEF Exec!Tick, Exec!result, Exec!call
<1>4. CASE Exec!CannotConnect \/ Exec!ConnectRaises
  BY <1>4 DEF Exec!CannotConnect, Exec!ConnectRaises, Exec!Reachable, Exec!result, Exec!call
<1>5. CASE Exec!Connect \/ Exec!SetUp \/ Exec!Found
  BY <1>5 DEF Exec!Connect, Exec!SetUp, Exec!Found, Exec!Reachable, Exec!result, Exec!call
<1>6. CASE Exec!Send
  <2>1. Exec!LimitOf = None \/ (Exec!LimitOf \in Nat /\ Exec!LimitOf >= start + Timeout)
    BY DEF Exec!LimitOf
  <2> QED
    BY <1>6, <2>1 DEF Exec!Send, Exec!result, Exec!call
<1>7. CASE Exec!Fetch
  <2>1. CASE kind = "execute"
    <3>1. rows' = Exec!Smaller(Exec!Smaller(found, MaxRows + 1), MaxRows)
          /\ truncated' = (Exec!Smaller(found, MaxRows + 1) > MaxRows)
      BY <1>7, <2>1 DEF Exec!Fetch, Exec!Fetched
    <3>2. rows' = Exec!Smaller(found, MaxRows)
          /\ (Exec!Smaller(found, MaxRows + 1) > MaxRows <=> found > rows')
      BY <3>1 DEF Exec!Smaller
    <3>3. truncated' <=> found > rows'
      BY <3>1, <3>2, Zenon
    <3>4. found' = found
      BY <1>7 DEF Exec!Fetch, Exec!call
    <3>5. (truncated' <=> found > rows') /\ rows' = Exec!Smaller(found, MaxRows)
      BY <3>2, <3>3, Zenon
    <3>6. (truncated <=> found > rows)' /\ (rows = Exec!Smaller(found, MaxRows))'
      BY <3>4, <3>5, Zenon DEF Exec!Smaller
    <3>7. Exec!ResultIsHonest'
      BY <3>6, Zenon
    <3> QED
      BY <1>7, <3>7 DEF Exec!Fetch, Exec!result, Exec!call
  <2>2. CASE kind # "execute"
    BY <1>7, <2>2 DEF Exec!Fetch, Exec!result, Exec!call
  <2> QED
    BY <2>1, <2>2
<1>8. CASE Exec!Abort
  <2>1. now > start + Timeout
    BY <1>8 DEF Exec!Abort, Exec!PastLimit
  <2>2. executorPc' = "close" /\ outcome' \in {"timeout", "failed"}
    BY <1>8 DEF Exec!Abort
  <2>3. UNCHANGED <<kind, start, found, conn, limit, rows, truncated, now>>
    BY <1>8 DEF Exec!Abort, Exec!call, Exec!result
  <2>4. Exec!OutcomeIsTrue'
    BY <2>1, <2>2, <2>3
  <2> QED
    BY <2>2, <2>3, <2>4
<1>9. CASE Exec!Fail
  <2>1. /\ outcome' = IF kind = "execute" /\ named' THEN "timeout" ELSE "failed"
        /\ named' \in BOOLEAN /\ executorPc' = "close"
        /\ UNCHANGED <<kind, start, found, conn, limit, rows, truncated, now>>
    BY <1>9 DEF Exec!Fail, Exec!ByText, Exec!call
  <2>2. Exec!OutcomeIsTrue'
    BY <2>1
  <2> QED
    BY <2>1, <2>2
<1>10. CASE Exec!Close
  BY <1>10 DEF Exec!Close, Exec!result, Exec!call
<1>11. CASE Exec!Over \/ UNCHANGED Exec!vars
  BY <1>11 DEF Exec!Over, Exec!vars, Exec!result, Exec!call, Exec!Smaller
<1> QED
  BY <1>2, <1>3, <1>4, <1>5, <1>6, <1>7, <1>8, <1>9, <1>10, <1>11 DEF Exec!Next, Exec!Client

LEMMA ExecutorInvHolds == Exec!Spec => []ExecutorInv
<1>1. Exec!Init => ExecutorInv
  BY PartsAssumption DEF Exec!Init, Exec!BoundsAssumption, ExecutorInv, Exec!OutcomeIsTrue,
                         Exec!ResultIsHonest, Exec!TimeoutIsDue
<1>2. ExecutorInv /\ [Exec!Next]_(Exec!vars) => ExecutorInv'
  BY ExecutorInvStep, PartsAssumption
<1> QED
  BY <1>1, <1>2, PTL DEF Exec!Spec

(* On every backend, whatever fails and when, a call leaves no connection  *)
(* open, and only a call that never had one lets an error other than       *)
(* QueryExecutionError through (execute_readonly, explain_readonly).       *)
THEOREM ConnectionsAreClosed == ServerSpec => []NothingLeftOpen
<1>1. ExecutorInv => NothingLeftOpen
  BY DEF ExecutorInv, NothingLeftOpen, Exec!NothingLeftOpen
<1> QED
  BY <1>1, ExecutorInvHolds, ServerRunsItsParts, PTL

(* The rows reported are the first MaxRows, truncated says whether there   *)
(* were more, and a timeout is reported to nobody who waited less, unless  *)
(* the database raised an error whose text names one (execute_readonly).   *)
THEOREM ReportsAreTrue == ServerSpec => []OutcomeIsTrue
<1>1. ExecutorInv => OutcomeIsTrue
  BY DEF ExecutorInv, OutcomeIsTrue
<1> QED
  BY <1>1, ExecutorInvHolds, ServerRunsItsParts, PTL

-----------------------------------------------------------------------------
(* The configuration.  The file's keys are handled in any order: what      *)
(* counts is which of them are.                                            *)
Library(f) ==
  IF environ[f] # None THEN "environment" ELSE IF dotenv[f] # None THEN ".env" ELSE "default"

ConfigInv ==
  /\ environ \in [Fields -> {None, "NAME", "name"}]
  /\ dotenv \in [Fields -> {None, "NAME", "name", "export NAME"}]
  /\ left \subseteq yaml
  /\ configPc = "new" => left = yaml
  /\ configPc = "loaded" => left = {}
  /\ DOMAIN resolved = Fields
  /\ configPc # "new" =>
       \A f \in Fields :
         resolved[f] = IF f \in yaml \ left /\ ~Load!SetElsewhere(f) THEN "yaml" ELSE Library(f)

LEMMA ConfigInvStep ==
  ASSUME ConfigInv, [Load!Next]_(Load!vars) PROVE ConfigInv'
<1>1. CASE Load!Resolve
  BY <1>1 DEF Load!Resolve, Load!sources, Load!SetElsewhere, ConfigInv, Library
<1>2. ASSUME NEW k \in Fields \cup Unknown, Load!Merge(k) PROVE ConfigInv'
  <2>1. /\ configPc = "merge" /\ configPc' = "merge" /\ k \in left /\ left' = left \ {k}
        /\ environ' = environ /\ dotenv' = dotenv /\ yaml' = yaml
    BY <1>2 DEF Load!Merge, Load!sources
  <2>2. resolved' = IF k \in Fields /\ ~Load!SetElsewhere(k) THEN [resolved EXCEPT ![k] = "yaml"]
                                                             ELSE resolved
    BY <1>2 DEF Load!Merge
  <2>3. /\ DOMAIN resolved' = Fields
        /\ \A f \in Fields : resolved'[f] = IF f = k /\ ~Load!SetElsewhere(f) THEN "yaml" ELSE resolved[f]
    BY <2>2 DEF ConfigInv
  <2>4. \A f \in Fields : (Load!SetElsewhere(f)' <=> Load!SetElsewhere(f)) /\ Library(f)' = Library(f)
    BY <2>1 DEF Load!SetElsewhere, Library
  <2>5. ASSUME NEW f \in Fields
        PROVE  resolved'[f] = IF f \in yaml' \ left' /\ ~Load!SetElsewhere(f)' THEN "yaml" ELSE Library(f)'
    <3>1. resolved[f] = IF f \in yaml \ left /\ ~Load!SetElsewhere(f) THEN "yaml" ELSE Library(f)
      BY <2>1 DEF ConfigInv
    <3>2. k \in yaml
      BY <2>1 DEF ConfigInv
    <3> QED
      BY <2>1, <2>3, <2>4, <3>1, <3>2
  <2> QED
    BY <2>1, <2>3, <2>5 DEF ConfigInv
<1>3. CASE Load!Return
  BY <1>3 DEF Load!Return, Load!sources, Load!SetElsewhere, ConfigInv, Library
<1>4. CASE Load!Loaded \/ UNCHANGED Load!vars
  BY <1>4 DEF Load!Loaded, Load!vars, Load!sources, Load!SetElsewhere, ConfigInv, Library
<1> QED
  BY <1>1, <1>2, <1>3, <1>4 DEF Load!Next

LEMMA LoadedIsWanted ==
  ASSUME Load!KeysAssumption, ConfigInv PROVE Load!LastCapitalWins
<1>1. None # "NAME"
  BY DEF Load!KeysAssumption
<1> QED
  BY <1>1 DEF ConfigInv, Load!LastCapitalWins, Load!Wanted, Load!SetElsewhere, Library

(* Whatever the environment, .env and the file give, and in whatever order *)
(* the file's keys are handled: every field has the value of the last      *)
(* source that gives it, if that source and those after it spell it in     *)
(* capitals (load_config).                                                 *)
THEOREM CapitalsWin == ServerSpec => []LastCapitalWins
<1>1. Load!Init => ConfigInv
  BY DEF Load!Init, ConfigInv
<1>2. ConfigInv /\ [Load!Next]_(Load!vars) => ConfigInv'
  BY ConfigInvStep
<1>3. ConfigInv => LastCapitalWins
  BY LoadedIsWanted, PartsAssumption DEF LastCapitalWins
<1> QED
  BY <1>1, <1>2, <1>3, ServerRunsItsParts, PTL DEF Load!Spec

-----------------------------------------------------------------------------
(* The runner.  A child that was not told to exit has exited by the time   *)
(* the codes are looked at, and its code was seen.                         *)
RunnerKinds ==
  /\ child \in [Run!Processes -> {"none", "running"} \cup Run!Codes]
  /\ told \in [Run!Processes -> BOOLEAN]
  /\ seen \in [Run!Processes -> Run!Codes \cup {None}]

RunnerInv ==
  /\ RunnerKinds
  /\ runnerPc = "codes" => \A p \in Run!Processes : told[p] \/ (Run!Gone(p) /\ seen[p] = child[p])
  /\ runnerPc = "ended" /\ calm =>
       \A p \in Run!Processes :
         told[p] \/ (Run!Gone(p) /\ (child[p] = "failed" => status \notin {None, "ok"}))

LEMMA ShutdownLooks ==
  ASSUME RunnerKinds, Run!Shutdown
  PROVE  /\ told' \in [Run!Processes -> BOOLEAN] /\ seen' \in [Run!Processes -> Run!Codes \cup {None}]
         /\ \A p \in Run!Processes : told'[p] \/ (Run!Gone(p) /\ seen'[p] = child[p])
  BY DEF RunnerKinds, Run!Shutdown, Run!Polled, Run!Gone

LEMMA RunnerInvStep ==
  ASSUME Run!NoneAssumption, RunnerInv, [Run!Next]_(Run!vars) PROVE RunnerInv'
<1> USE DEF RunnerInv, RunnerKinds, Run!Gone
<1>1. CASE Run!Launch \/ Run!Install \/ Run!Sleep \/ Run!Die
  BY <1>1 DEF Run!Launch, Run!Install, Run!Sleep, Run!Die, Run!processes
<1>2. ASSUME NEW p \in Run!Processes, NEW here \in {"first", "second"}, NEW next \in {"second", "install"},
             Run!Start(p, here, next)
      PROVE  RunnerInv'
  BY <1>2 DEF Run!Start
<1>3. ASSUME NEW p \in Run!Processes, Run!Exit(p) PROVE RunnerInv'
  <2>1. child[p] = "running" /\ UNCHANGED <<runnerPc, told, seen, status, calm>>
    BY <1>3 DEF Run!Exit
  <2>2. PICK c \in Run!Codes : child' = [child EXCEPT ![p] = c]
    BY <1>3 DEF Run!Exit, Run!Codes
  <2>3. \A q \in Run!Processes : child'[q] = IF q = p THEN c ELSE child[q]
    BY <2>2
  <2>4. \A q \in Run!Processes : Run!Gone(q) => q # p
    BY <2>1 DEF Run!Codes
  <2> QED
    BY <2>1, <2>2, <2>3, <2>4
<1>4. CASE Run!Poll
  BY <1>4 DEF Run!Poll, Run!Polled
<1>5. CASE Run!Signal
  BY <1>5, ShutdownLooks DEF Run!Signal
<1>6. CASE Run!Finally
  BY <1>6, ShutdownLooks DEF Run!Finally
<1>7. CASE Run!End
  <2>1. UNCHANGED <<child, told, seen, calm>> /\ runnerPc' = "ended" /\ runnerPc = "codes"
    BY <1>7 DEF Run!End, Run!processes
  <2>2. ASSUME NEW p \in Run!Processes, ~told[p]
        PROVE  Run!Gone(p) /\ (child[p] = "failed" => status' \notin {None, "ok"})
    <3>1. Run!Gone(p) /\ seen[p] = child[p]
      BY <2>1, <2>2
    <3>2. child[p] = "failed" => Run!ExitCode \notin {None, "ok"}
      BY <3>1 DEF Run!ExitCode, Run!Processes, Run!Codes, Run!NoneAssumption
    <3> QED
      BY <1>7, <3>1, <3>2 DEF Run!End
  <2> QED
    BY <2>1, <2>2
<1>8. CASE Run!Over \/ UNCHANGED Run!vars
  BY <1>8 DEF Run!Over, Run!vars, Run!processes
<1> QED
  BY <1>1, <1>2, <1>3, <1>4, <1>5, <1>6, <1>7, <1>8 DEF Run!Next, Run!Main, Run!Processes

(* Whatever exits and signals come, and in whatever order: with its        *)
(* handlers in place the runner leaves no child alone that was not told to *)
(* exit, and it reports a child that failed by itself (main).              *)
THEOREM RunnerIsThorough == ServerSpec => []RunnerEndsWell
<1>1. Run!Init => RunnerInv
  BY DEF Run!Init, RunnerInv, RunnerKinds, Run!Codes
<1>2. RunnerInv /\ [Run!Next]_(Run!vars) => RunnerInv'
  BY RunnerInvStep, PartsAssumption
<1>3. RunnerInv => RunnerEndsWell
  BY DEF RunnerInv, RunnerEndsWell, Run!RunnerEndsWell, Run!NoOrphans, Run!FailureIsReported
<1> QED
  BY <1>1, <1>2, <1>3, ServerRunsItsParts, PTL DEF Run!Spec

-----------------------------------------------------------------------------
(* The text of a WHERE.                                                    *)
LEMMA AndTextIs ==
  ASSUME NEW x \in Wheres, NEW y \in Wheres
  PROVE  /\ AndText(x, y) \in Wheres
         /\ Len(x) \in Nat \ {0} /\ Len(y) \in Nat \ {0}
         /\ Len(AndText(x, y)) = Len(x) + Len(y) - 1
         /\ \A i \in 1 .. Len(x) + Len(y) - 1 :
              AndText(x, y)[i] = IF i < Len(x) THEN x[i]
                                 ELSE IF i = Len(x) THEN x[i] \cup y[1]
                                 ELSE y[i - Len(x) + 1]
<1> DEFINE m == Len(x)
           k == Len(y)
           n == m + k - 1
           S == SUBSET Conditions
           T == AndText(x, y)
<1>1. m \in Nat \ {0} /\ k \in Nat \ {0} /\ x \in [1..m -> S] /\ y \in [1..k -> S]
  BY DEF Wheres
<1> HIDE DEF m, k
<1>2. \A i \in 1..n : /\ i < m => i \in 1..m
                      /\ i = m => i \in 1..m /\ 1 \in 1..k
                      /\ i > m => i - m + 1 \in 1..k
  BY <1>1
<1>3. \A i \in 1..n : (IF i < m THEN x[i] ELSE IF i = m THEN x[i] \cup y[1] ELSE y[i - m + 1]) \in S
  <2> SUFFICES ASSUME NEW i \in 1..n
               PROVE  (IF i < m THEN x[i] ELSE IF i = m THEN x[i] \cup y[1] ELSE y[i - m + 1]) \in S
    OBVIOUS
  <2>1. CASE i < m
    BY <1>1, <1>2, <2>1
  <2>2. CASE i = m
    <3>1. x[i] \in S /\ y[1] \in S
      BY <1>1, <1>2, <2>2
    <3> QED
      BY <2>2, <3>1
  <2>3. CASE i > m
    BY <1>1, <1>2, <2>3
  <2> QED
    BY <1>1, <2>1, <2>2, <2>3
<1>4. T = [i \in 1..n |-> IF i < m THEN x[i] ELSE IF i = m THEN x[i] \cup y[1] ELSE y[i - m + 1]]
  BY DEF AndText, m, k
<1>5. T \in [1..n -> S] /\ n \in Nat \ {0}
  BY <1>1, <1>3, <1>4
<1>6. T \in Seq(S) /\ Len(T) = n
  <2> HIDE DEF T, n, S
  <2> QED
    BY <1>5
<1>7. T # <<>>
  <2> HIDE DEF T, n, S
  <2> QED
    BY <1>5, <1>6
<1> QED
  BY <1>1, <1>4, <1>6, <1>7 DEF m, k, Wheres

LEMMA AndOne ==
  ASSUME NEW x \in Wheres, NEW y \in Wheres, Len(y) = 1
  PROVE  /\ AndText(x, y) \in Wheres
         /\ Len(x) \in Nat \ {0} /\ Len(AndText(x, y)) = Len(x)
         /\ \A i \in 1 .. Len(x) :
              AndText(x, y)[i] = IF i < Len(x) THEN x[i] ELSE x[i] \cup y[1]
<1> DEFINE m == Len(x)
           k == Len(y)
           s == AndText(x, y)
<1>1. /\ s \in Wheres /\ m \in Nat \ {0} /\ Len(s) = m + k - 1
  BY AndTextIs
<1>2. \A i \in 1 .. m + k - 1 :
        s[i] = IF i < m THEN x[i] ELSE IF i = m THEN x[i] \cup y[1] ELSE y[i - m + 1]
  BY AndTextIs
<1>3. k = 1
  OBVIOUS
<1> HIDE DEF m, k, s
<1>4. 1 .. m + k - 1 = 1 .. m /\ Len(s) = m
  BY <1>1, <1>3
<1>5. \A i \in 1 .. m : s[i] = IF i < m THEN x[i] ELSE x[i] \cup y[1]
  <2> SUFFICES ASSUME NEW i \in 1 .. m
               PROVE  s[i] = IF i < m THEN x[i] ELSE x[i] \cup y[1]
    OBVIOUS
  <2>1. s[i] = IF i < m THEN x[i] ELSE IF i = m THEN x[i] \cup y[1] ELSE y[i - m + 1]
    BY <1>2, <1>4
  <2>2. i < m \/ i = m
    BY <1>1
  <2> QED
    BY <1>1, <2>1, <2>2
<1> QED
  BY <1>1, <1>4, <1>5 DEF m, s

LEMMA NoWhere == <<{}>> \in Wheres /\ Len(<<{}>>) = 1
BY DEF Wheres

(* The filters are joined in the order of the dictionary: j[n] is the text *)
(* after n of them.                                                        *)
Joins(j, names, fs) ==
  /\ j \in [0 .. Len(fs) -> Wheres]
  /\ Combined(names, fs) = j[Len(fs)]
  /\ j[0] = <<{}>>
  /\ \A n \in 1 .. Len(fs) :
       j[n] = IF fs[n].name \in names THEN AndText(j[n - 1], fs[n].where) ELSE j[n - 1]

LEMMA CombinedSteps ==
  ASSUME NEW fs \in Seq(RowFilters), NEW names
  PROVE  \E j : Joins(j, names, fs)
<1> DEFINE Value(g, n) == IF n = 0 THEN <<{}>>
                          ELSE IF fs[n].name \in names THEN AndText(g[n - 1], fs[n].where)
                          ELSE g[n - 1]
           Done == {m \in Nat : m <= Len(fs) => \E g : g = [n \in 0..m |-> Value(g, n)]}
<1>0. Len(fs) \in Nat
  BY LenProperties
<1>1. 0 \in Done
  <2>1. [n \in 0..0 |-> <<{}>>] = [n \in 0..0 |-> Value([j \in 0..0 |-> <<{}>>], n)]
    OBVIOUS
  <2> QED
    BY <2>1
<1>2. \A m \in Nat : m \in Done => m + 1 \in Done
  <2>1. ASSUME NEW m \in Nat, NEW g, g = [n \in 0..m |-> Value(g, n)]
        PROVE  \E h : h = [n \in 0..(m + 1) |-> Value(h, n)]
    <3> DEFINE h == [n \in 0..(m + 1) |-> Value(g, n)]
    <3>1. \A n \in 0..m : g[n] = Value(g, n)
      <4> HIDE DEF Value
      <4> QED
        BY <2>1
    <3>2. \A n \in 0..(m + 1) : h[n] = Value(g, n)
      <4> HIDE DEF Value
      <4> QED
        OBVIOUS
    <3>3. \A n \in 0..m : h[n] = g[n]
      <4> HIDE DEF Value, h
      <4> QED
        BY <3>1, <3>2
    <3>4. ASSUME NEW n \in 0..(m + 1)
          PROVE  Value(h, n) = Value(g, n)
      <4>1. CASE n = 0
        BY <4>1
      <4>2. CASE n # 0
        <5>1. n - 1 \in 0..m
          BY <4>2
        <5>2. h[n - 1] = g[n - 1]
          BY <3>3, <5>1
        <5> HIDE DEF h
        <5> QED
          BY <5>2
      <4> QED
        BY <4>1, <4>2
    <3>5. h = [n \in 0..(m + 1) |-> Value(h, n)]
      <4>1. \A n \in 0..(m + 1) : Value(h, n) = Value(g, n)
        BY <3>4
      <4> HIDE DEF Value
      <4> QED
        BY <4>1
    <3> HIDE DEF h
    <3> QED
      BY <3>5
  <2>2. ASSUME NEW m \in Nat, m \in Done, m + 1 <= Len(fs)
        PROVE  \E h : h = [n \in 0..(m + 1) |-> Value(h, n)]
    <3>1. m <= Len(fs)
      BY <1>0, <2>2
    <3>2. PICK g : g = [n \in 0..m |-> Value(g, n)]
      <4> HIDE DEF Value
      <4> QED
        BY <2>2, <3>1
    <3> HIDE DEF Value
    <3> QED
      BY <2>1, <3>2
  <2> HIDE DEF Value
  <2> QED
    BY <2>2
<1>3. \E g : g = [n \in 0..Len(fs) |-> Value(g, n)]
  <2>1. Len(fs) \in Done
    <3> HIDE DEF Done
    <3> QED
      BY <1>0, <1>1, <1>2, NatIsInductive
  <2> HIDE DEF Value
  <2> QED
    BY <1>0, <2>1
<1> DEFINE j == CHOOSE g : g = [n \in 0..Len(fs) |-> Value(g, n)]
<1>4. j = [n \in 0..Len(fs) |-> Value(j, n)]
  <2> HIDE DEF Value
  <2> QED
    BY <1>3
<1>5. Combined(names, fs) = j[Len(fs)]
  BY DEF Combined
<1> HIDE DEF j
<1>6. \A n \in 0..Len(fs) : j[n] = Value(j, n)
  <2> HIDE DEF Value
  <2> QED
    BY <1>4
<1>7. /\ j[0] = <<{}>>
      /\ \A n \in 1..Len(fs) :
           j[n] = IF fs[n].name \in names THEN AndText(j[n - 1], fs[n].where) ELSE j[n - 1]
  BY <1>0, <1>6
<1>8. j \in [0..Len(fs) -> Wheres]
  <2> DEFINE Typed == {m \in Nat : m <= Len(fs) => j[m] \in Wheres}
  <2>1. 0 \in Typed
    BY <1>7, NoWhere
  <2>2. \A m \in Nat : m \in Typed => m + 1 \in Typed
    <3> SUFFICES ASSUME NEW m \in Nat, m + 1 <= Len(fs), j[m] \in Wheres
                 PROVE  j[m + 1] \in Wheres
      BY <1>0
    <3>1. fs[m + 1] \in RowFilters
      BY <1>0, ElementOfSeq
    <3>2. fs[m + 1].where \in Wheres
      BY <3>1 DEF RowFilters
    <3>3. AndText(j[m], fs[m + 1].where) \in Wheres
      BY <3>2, AndTextIs
    <3>4. j[m + 1] = IF fs[m + 1].name \in names THEN AndText(j[m], fs[m + 1].where) ELSE j[m]
      BY <1>0, <1>7
    <3> QED
      BY <3>3, <3>4
  <2>3. \A m \in Nat : m \in Typed
    <3> HIDE DEF Typed
    <3> QED
      BY <2>1, <2>2, NatIsInductive
  <2>4. \A m \in 0..Len(fs) : j[m] \in Wheres
    BY <1>0, <2>3
  <2> HIDE DEF Value
  <2> QED
    BY <1>4, <2>4
<1> QED
  BY <1>5, <1>7, <1>8 DEF Joins

LEMMA CombinedType ==
  ASSUME NEW fs \in Seq(RowFilters), NEW names
  PROVE  Combined(names, fs) \in Wheres
BY CombinedSteps, LenProperties DEF Joins

(* Filters without OR make one alternative, which has all their conditions. *)
LEMMA CombinedPlain ==
  ASSUME NEW fs \in Seq(RowFilters), NEW names,
         \A i \in DOMAIN fs : fs[i].name \in names => NoOr(fs[i].where)
  PROVE  /\ Len(Combined(names, fs)) = 1
         /\ \A i \in DOMAIN fs :
              fs[i].name \in names => fs[i].where[1] \subseteq Combined(names, fs)[1]
<1>1. PICK j : Joins(j, names, fs)
  BY CombinedSteps
<1>2. Len(fs) \in Nat
  BY LenProperties
<1> DEFINE Good == {m \in Nat : m <= Len(fs) =>
             /\ Len(j[m]) = 1
             /\ \A i \in 1..m : fs[i].name \in names => fs[i].where[1] \subseteq j[m][1]}
<1>3. 0 \in Good
  BY <1>1, NoWhere DEF Joins
<1>4. \A m \in Nat : m \in Good => m + 1 \in Good
  <2> SUFFICES ASSUME NEW m \in Nat, m + 1 <= Len(fs), Len(j[m]) = 1,
                      \A i \in 1..m : fs[i].name \in names => fs[i].where[1] \subseteq j[m][1]
               PROVE  /\ Len(j[m + 1]) = 1
                      /\ \A i \in 1..(m + 1) :
                           fs[i].name \in names => fs[i].where[1] \subseteq j[m + 1][1]
    BY <1>2
  <2> DEFINE f == fs[m + 1]
  <2>1. f \in RowFilters /\ m + 1 \in DOMAIN fs /\ m \in 0..Len(fs)
    BY <1>2, ElementOfSeq
  <2>2. f.where \in Wheres /\ j[m] \in Wheres
    BY <1>1, <2>1 DEF RowFilters, Joins
  <2>3. j[m + 1] = IF f.name \in names THEN AndText(j[m], f.where) ELSE j[m]
    BY <1>1, <1>2 DEF Joins
  <2>4. f.name \in names => Len(f.where) = 1
    BY <2>1 DEF NoOr
  <2>5. CASE f.name \in names
    <3>1. Len(j[m + 1]) = 1 /\ j[m + 1][1] = j[m][1] \cup f.where[1]
      <4>1. j[m + 1] = AndText(j[m], f.where) /\ Len(f.where) = 1 /\ Len(j[m]) = 1
        BY <2>3, <2>4, <2>5
      <4> DEFINE x == j[m]
                 y == f.where
      <4>2. x \in Wheres /\ y \in Wheres /\ Len(x) = 1 /\ Len(y) = 1 /\ j[m + 1] = AndText(x, y)
        BY <2>2, <4>1
      <4> HIDE DEF f, x, y
      <4>3. /\ Len(AndText(x, y)) = Len(x)
            /\ \A i \in 1 .. Len(x) :
                 AndText(x, y)[i] = IF i < Len(x) THEN x[i] ELSE x[i] \cup y[1]
        BY <4>2, AndOne
      <4>4. Len(AndText(x, y)) = 1 /\ AndText(x, y)[1] = x[1] \cup y[1]
        BY <4>2, <4>3
      <4> QED
        BY <4>2, <4>4 DEF x, y
    <3>2. \A i \in 1..(m + 1) : i \in 1..m \/ i = m + 1
      OBVIOUS
    <3> QED
      BY <3>1, <3>2
  <2>6. CASE f.name \notin names
    <3>1. \A i \in 1..(m + 1) : i \in 1..m \/ i = m + 1
      OBVIOUS
    <3> QED
      BY <2>3, <2>6, <3>1
  <2> QED
    BY <2>5, <2>6
<1>5. Len(fs) \in Good
  <2> HIDE DEF Good
  <2> QED
    BY <1>2, <1>3, <1>4, NatIsInductive
<1> QED
  BY <1>1, <1>2, <1>5 DEF Joins

LEMMA CombinedNone ==
  ASSUME NEW fs \in Seq(RowFilters), NEW names, \A i \in DOMAIN fs : fs[i].name \notin names
  PROVE  Combined(names, fs) = <<{}>>
<1>1. PICK j : Joins(j, names, fs)
  BY CombinedSteps
<1>2. Len(fs) \in Nat
  BY LenProperties
<1> DEFINE None0 == {m \in Nat : m <= Len(fs) => j[m] = <<{}>>}
<1>3. 0 \in None0
  BY <1>1 DEF Joins
<1>4. \A m \in Nat : m \in None0 => m + 1 \in None0
  <2>1. ASSUME NEW m \in Nat, j[m] = <<{}>>, m + 1 <= Len(fs)
        PROVE  j[m + 1] = <<{}>>
    <3>1. m + 1 \in 1..Len(fs) /\ m + 1 \in DOMAIN fs /\ (m + 1) - 1 = m
      BY <1>2, <2>1
    <3>2. fs[m + 1].name \notin names
      BY <3>1
    <3>3. j[m + 1] = j[m]
      BY <1>1, <3>1, <3>2 DEF Joins
    <3> QED
      BY <2>1, <3>3
  <2> QED
    BY <1>2, <2>1
<1>5. Len(fs) \in None0
  <2> HIDE DEF None0
  <2> QED
    BY <1>2, <1>3, <1>4, NatIsInductive
<1> QED
  BY <1>1, <1>2, <1>5 DEF Joins

LEMMA AndNothing ==
  ASSUME NEW x \in Wheres
  PROVE  AndText(x, <<{}>>) = x
<1> DEFINE t == AndText(x, <<{}>>)
<1>1. /\ t \in Wheres /\ Len(t) = Len(x) /\ Len(x) \in Nat
      /\ \A i \in 1..Len(x) : t[i] = IF i < Len(x) THEN x[i] ELSE x[i] \cup {}
  <2> DEFINE y == <<{}>>
  <2>1. y \in Wheres /\ Len(y) = 1 /\ y[1] = {}
    BY NoWhere
  <2> HIDE DEF y
  <2>2. /\ AndText(x, y) \in Wheres /\ Len(x) \in Nat /\ Len(AndText(x, y)) = Len(x)
        /\ \A i \in 1..Len(x) : AndText(x, y)[i] = IF i < Len(x) THEN x[i] ELSE x[i] \cup y[1]
    BY <2>1, AndOne
  <2> QED
    BY <2>1, <2>2 DEF y
<1>2. \A i \in 1..Len(x) : t[i] = x[i]
  BY <1>1
<1> HIDE DEF t
<1>3. t \in Seq(SUBSET Conditions) /\ x \in Seq(SUBSET Conditions)
  BY <1>1 DEF Wheres
<1>4. t = x
  BY <1>1, <1>2, <1>3
<1> QED
  BY <1>4 DEF t

(* Joined a second time, a text changes nothing: the alternative that the  *)
(* second joining adds is absorbed by one that is there.                   *)
LEMMA AndTwice ==
  ASSUME NEW x \in Wheres, NEW y \in Wheres
  PROVE  /\ Entails(AndText(AndText(x, y), y), AndText(x, y))
         /\ Entails(AndText(x, y), AndText(AndText(x, y), y))
<1> DEFINE m == Len(x)
           k == Len(y)
           s == AndText(x, y)
           t == AndText(s, y)
<1>1. /\ m \in Nat \ {0} /\ k \in Nat \ {0} /\ s \in Wheres /\ t \in Wheres
      /\ Len(s) = m + k - 1 /\ Len(t) = m + k + k - 2
      /\ DOMAIN s = 1..(m + k - 1) /\ DOMAIN t = 1..(m + k + k - 2)
  <2>1. m \in Nat \ {0} /\ k \in Nat \ {0} /\ s \in Wheres /\ Len(s) = m + k - 1
    BY AndTextIs
  <2>2. t \in Wheres /\ Len(t) = Len(s) + k - 1
    BY <2>1, AndTextIs
  <2> HIDE DEF s, t, m, k
  <2> QED
    BY <2>1, <2>2 DEF Wheres
<1>2. \A i \in 1..(m + k - 1) :
        s[i] = IF i < m THEN x[i] ELSE IF i = m THEN x[i] \cup y[1] ELSE y[i - m + 1]
  BY AndTextIs
<1>3. \A i \in 1..(m + k + k - 2) :
        t[i] = IF i < m + k - 1 THEN s[i] ELSE IF i = m + k - 1 THEN s[i] \cup y[1]
               ELSE y[i - (m + k - 1) + 1]
  <2>1. \A i \in 1..(Len(s) + k - 1) :
          t[i] = IF i < Len(s) THEN s[i] ELSE IF i = Len(s) THEN s[i] \cup y[1]
                 ELSE y[i - Len(s) + 1]
    BY <1>1, AndTextIs
  <2> HIDE DEF s, t, m, k
  <2> QED
    BY <1>1, <2>1
<1> HIDE DEF m, k, s, t
<1>4. ASSUME NEW i \in DOMAIN t PROVE \E j \in DOMAIN s : s[j] \subseteq t[i]
  <2>1. CASE i <= m + k - 1
    <3>1. i \in DOMAIN s /\ s[i] \subseteq t[i]
      BY <1>1, <1>3, <2>1
    <3> QED
      BY <3>1
  <2>2. CASE i > m + k - 1
    <3> DEFINE j == i - k + 1
    <3>1. j \in DOMAIN s /\ j > m /\ j - m + 1 = i - (m + k - 1) + 1
      BY <1>1, <2>2
    <3>2. t[i] = y[i - (m + k - 1) + 1]
      <4>1. i \in 1..(m + k + k - 2) /\ ~(i < m + k - 1) /\ i # m + k - 1
        BY <1>1, <2>2
      <4> QED
        BY <1>3, <4>1
    <3>3. s[j] = y[j - m + 1]
      <4>1. j \in 1..(m + k - 1) /\ j \in Int /\ m \in Int /\ j > m
        BY <1>1, <3>1
      <4> HIDE DEF j
      <4>2. ~(j < m) /\ j # m
        BY <4>1
      <4> QED
        BY <1>2, <4>1, <4>2
    <3> HIDE DEF j
    <3> QED
      BY <3>1, <3>2, <3>3
  <2> QED
    BY <1>1, <2>1, <2>2
<1>5. ASSUME NEW i \in DOMAIN s PROVE \E j \in DOMAIN t : t[j] \subseteq s[i]
  <2>1. CASE i < m + k - 1
    <3>1. i \in DOMAIN t /\ t[i] = s[i]
      BY <1>1, <1>3, <2>1
    <3> QED
      BY <3>1
  <2>2. CASE i = m + k - 1 /\ k = 1
    <3>1. i = m /\ i \in DOMAIN t /\ i \in 1..(m + k + k - 2)
      BY <1>1, <2>2
    <3>2. t[i] = s[i] \cup y[1] /\ s[i] = x[i] \cup y[1]
      BY <1>1, <1>2, <1>3, <2>2, <3>1
    <3>3. t[i] = s[i]
      BY <3>2
    <3> QED
      BY <3>1, <3>3
  <2>3. CASE i = m + k - 1 /\ k > 1
    <3> DEFINE j == m + k + k - 2
    <3>1. j \in DOMAIN t /\ j > m + k - 1 /\ j - (m + k - 1) + 1 = k
      BY <1>1, <2>3
    <3>2. t[j] = y[k]
      BY <1>1, <1>3, <3>1
    <3>3. i > m /\ i - m + 1 = k
      BY <1>1, <2>3
    <3>4. s[i] = y[k]
      BY <1>1, <1>2, <3>3
    <3> QED
      BY <3>1, <3>2, <3>4
  <2> QED
    BY <1>1, <2>1, <2>2, <2>3
<1>6. Entails(t, s) /\ Entails(s, t)
  BY <1>4, <1>5 DEF Entails
<1> QED
  BY <1>6 DEF s, t

(* A text without OR only adds conditions, and protected on both sides it  *)
(* adds them to every alternative there is.                                *)
LEMMA AndPlain ==
  ASSUME NEW x \in Wheres, NEW y \in Wheres, Len(y) = 1
  PROVE  /\ Entails(AndText(x, y), x)
         /\ Len(x) = 1 => /\ Len(AndText(x, y)) = 1
                          /\ AndText(x, y)[1] = x[1] \cup y[1]
<1> DEFINE s == AndText(x, y)
<1>1. /\ Len(x) \in Nat \ {0} /\ s \in Wheres /\ Len(s) = Len(x)
      /\ \A i \in 1..Len(x) : s[i] = IF i < Len(x) THEN x[i] ELSE x[i] \cup y[1]
  BY AndOne
<1> HIDE DEF s
<1>2. DOMAIN s = 1..Len(x) /\ DOMAIN x = 1..Len(x)
  BY <1>1 DEF Wheres
<1>3. \A i \in DOMAIN s : i \in DOMAIN x /\ x[i] \subseteq s[i]
  BY <1>1, <1>2
<1>4. Entails(s, x)
  BY <1>3 DEF Entails
<1>5. Len(x) = 1 => Len(s) = 1 /\ s[1] = x[1] \cup y[1]
  BY <1>1
<1> QED
  BY <1>4, <1>5 DEF s

LEMMA EntailsTransitive ==
  ASSUME NEW w, NEW v, NEW u, Entails(w, v), Entails(v, u)
  PROVE  Entails(w, u)
<1> SUFFICES ASSUME NEW i \in DOMAIN w PROVE \E j \in DOMAIN u : u[j] \subseteq w[i]
  BY DEF Entails
<1>1. PICK j \in DOMAIN v : v[j] \subseteq w[i]
  BY DEF Entails
<1>2. PICK l \in DOMAIN u : u[l] \subseteq v[j]
  BY DEF Entails
<1> QED
  BY <1>1, <1>2

-----------------------------------------------------------------------------
(* The two ways of a statement.  What the validator emits differs from     *)
(* what it was given in the conditions and in the limit.                   *)
Enforced(l) ==
  IF l = None THEN Literal(settings.default)
  ELSE IF l.literal /\ l.value > settings.max THEN Literal(settings.max) ELSE l

Emitted(s) ==
  [form |-> s.form, keyword |-> s.keyword, from |-> s.from, columns |-> s.columns,
   aliases |-> s.aliases, where |-> AndText(s.where, Combined(NamesOf(s), filters)),
   limit |-> Enforced(s.limit)]

Configured == SettingsAssumption /\ filters \in FilterSets /\ settings \in Settings

LEMMA EmittedIsText ==
  ASSUME Configured, NEW s \in Texts
  PROVE  Emitted(s) \in Texts /\ Enforced(s.limit) \in Limits
<1>1. Enforced(s.limit) \in Limits
  BY DEF Configured, SettingsAssumption, Enforced, Literal, Limits, Texts
<1>2. filters \in Seq(RowFilters)
  BY DEF Configured, SettingsAssumption
<1>3. Combined(NamesOf(s), filters) \in Wheres /\ s.where \in Wheres
  BY <1>2, CombinedType DEF Texts
<1> DEFINE w == AndText(s.where, Combined(NamesOf(s), filters))
<1>4. w \in Wheres
  BY <1>3, AndTextIs
<1> HIDE DEF w
<1>5. Emitted(s) = [form |-> s.form, keyword |-> s.keyword, from |-> s.from, columns |-> s.columns,
                    aliases |-> s.aliases, where |-> w, limit |-> Enforced(s.limit)]
  BY DEF Emitted, w
<1> QED
  BY <1>1, <1>4, <1>5 DEF Texts

LEMMA CheckedEmits ==
  ASSUME Configured, NEW s \in Texts
  PROVE  /\ Checked(s) # Rejected => Acceptable(s, schema, filters)
         /\ Acceptable(s, schema, filters) => Checked(s) = Emitted(s) /\ Checked(s) # Rejected
<1>1. Acceptable(s, schema, filters) =>
        Checked(s) = EnforceLimit(InjectFilters(s, filters), settings)
  BY DEF Checked, ValidateSql
<1>2. InjectFilters(s, filters) = [Emitted(s) EXCEPT !.limit = s.limit]
  <2>1. s = [form |-> s.form, keyword |-> s.keyword, from |-> s.from, columns |-> s.columns,
             aliases |-> s.aliases, where |-> s.where, limit |-> s.limit]
    BY DEF Texts
  <2>2. InjectFilters(s, filters) = [s EXCEPT !.where = AndText(s.where, Combined(NamesOf(s), filters))]
    BY DEF InjectFilters
  <2> DEFINE w == AndText(s.where, Combined(NamesOf(s), filters))
  <2> HIDE DEF w
  <2>3. [s EXCEPT !.where = w]
        = [form |-> s.form, keyword |-> s.keyword, from |-> s.from, columns |-> s.columns,
           aliases |-> s.aliases, where |-> w, limit |-> s.limit]
    BY <2>1
  <2> QED
    BY <2>2, <2>3 DEF Emitted, w
<1>3. ASSUME NEW l
      PROVE  [[Emitted(s) EXCEPT !.limit = s.limit] EXCEPT !.limit = l] = [Emitted(s) EXCEPT !.limit = l]
  BY DEF Emitted
<1>4. EnforceLimit(InjectFilters(s, filters), settings) = [Emitted(s) EXCEPT !.limit = Enforced(s.limit)]
  BY <1>2, <1>3 DEF EnforceLimit, Emitted, Enforced
<1>5. EnforceLimit(InjectFilters(s, filters), settings) = Emitted(s)
  BY <1>4 DEF Emitted
<1>6. Emitted(s) # Rejected
  BY EmittedIsText DEF Configured, SettingsAssumption
<1>7. Checked(s) # Rejected => Acceptable(s, schema, filters)
  BY DEF Checked, ValidateSql
<1> QED
  BY <1>1, <1>5, <1>6, <1>7

(* The second time the filters change nothing, and the limit only comes    *)
(* down to the maximum.                                                    *)
LEMMA EmittedTwice ==
  ASSUME Configured, NEW s \in Texts, size \in Nat
  PROVE  /\ Entails(Emitted(Emitted(s)).where, Emitted(s).where)
         /\ Entails(Emitted(s).where, Emitted(Emitted(s)).where)
         /\ AnswerOf(Emitted(Emitted(s))).rows = AnswerOf(Emitted(s)).rows
<1>1. NamesOf(Emitted(s)) = NamesOf(s)
  BY DEF NamesOf, Emitted, TablesOf, AliasesOf
<1>2. /\ Entails(Emitted(Emitted(s)).where, Emitted(s).where)
      /\ Entails(Emitted(s).where, Emitted(Emitted(s)).where)
  <2> DEFINE f == Combined(NamesOf(s), filters)
  <2>1. f \in Wheres /\ s.where \in Wheres
    BY CombinedType DEF Configured, SettingsAssumption, Texts
  <2>2. Emitted(s).where = AndText(s.where, f)
    BY DEF Emitted
  <2>3. Emitted(Emitted(s)).where = AndText(Emitted(s).where, Combined(NamesOf(Emitted(s)), filters))
    BY DEF Emitted
  <2>4. Emitted(Emitted(s)).where = AndText(AndText(s.where, f), f)
    BY <1>1, <2>2, <2>3
  <2> HIDE DEF f
  <2> QED
    BY <2>1, <2>2, <2>4, AndTwice
<1> DEFINE l == Enforced(s.limit)
<1>3. l \in Limits /\ None \notin Limits /\ settings.max \in Nat
  BY EmittedIsText DEF Configured, SettingsAssumption
<1>4. Emitted(s).limit = l /\ Emitted(Emitted(s)).limit = Enforced(l)
  BY DEF Emitted
<1>5. Enforced(l) = l \/ (l.value > settings.max /\ Enforced(l).value = settings.max)
  BY <1>3 DEF Enforced, Literal
<1>6. Smaller(Smaller(size, Enforced(l).value), settings.max)
      = Smaller(Smaller(size, l.value), settings.max)
  <2>1. l.value \in Nat
    BY <1>3 DEF Limits
  <2> HIDE DEF l
  <2> QED
    BY <1>3, <1>5, <2>1 DEF Smaller
<1> QED
  BY <1>2, <1>4, <1>6 DEF AnswerOf

(* Without filters the validator accepts what it emitted.                  *)
LEMMA EmittedIsAcceptable ==
  ASSUME Configured, NEW s \in Texts, Acceptable(s, schema, filters), FiltersOf(NamesOf(s)) = {}
  PROVE  Acceptable(Emitted(s), schema, filters)
<1>0. Emitted(s).where = s.where
  <2>1. \A i \in DOMAIN filters : filters[i].name \notin NamesOf(s)
    BY DEF FiltersOf
  <2>2. Combined(NamesOf(s), filters) = <<{}>>
    BY <2>1, CombinedNone DEF Configured, SettingsAssumption
  <2>3. s.where \in Wheres
    BY DEF Texts
  <2> QED
    BY <2>2, <2>3, AndNothing DEF Emitted
<1>1. /\ TablesOf(Emitted(s)) = TablesOf(s) /\ AliasesOf(Emitted(s)) = AliasesOf(s)
      /\ Emitted(s).aliases = s.aliases /\ Emitted(s).from = s.from
      /\ Emitted(s).columns = s.columns /\ Emitted(s).where = s.where
      /\ Emitted(s).form = s.form /\ Emitted(s).keyword = s.keyword
  BY <1>0 DEF Emitted, TablesOf, AliasesOf
<1>2. /\ ConditionsOf(Emitted(s)) = ConditionsOf(s) /\ ColumnsOf(Emitted(s)) = ColumnsOf(s)
      /\ NamesOf(Emitted(s)) = NamesOf(s)
  BY <1>1 DEF ColumnsOf, ConditionsOf, NamesOf
<1>3. HasKeyword(Emitted(s)) <=> HasKeyword(s)
  BY <1>1, <1>2, Zenon DEF HasKeyword
<1>4. IsOneSelect(Emitted(s)) /\ TablesAllowed(Emitted(s), schema)
  BY <1>1 DEF IsOneSelect, TablesAllowed, Acceptable
<1>5. ASSUME NEW c \in ColumnsOf(s) PROVE ColumnAllowed(Emitted(s), c, schema)
  <2>1. TableOf(Emitted(s), c) = TableOf(s, c)
    BY <1>1 DEF TableOf
  <2>2. ColumnAllowed(s, c, schema)
    BY DEF Acceptable
  <2> QED
    BY <1>1, <2>1, <2>2, Zenon DEF ColumnAllowed
<1> QED
  BY <1>2, <1>3, <1>4, <1>5 DEF Acceptable

(* Every statement that gets as far as the database is the model's, once   *)
(* or twice through the validator, and it was acceptable if nothing has    *)
(* changed since.                                                          *)
PreviewInv ==
  /\ filters \in FilterSets /\ settings \in Settings /\ size \in Sizes
  /\ changes \in Nat /\ since \in Nat /\ since <= changes
  /\ pc \in {"explain", "ready", "run", "success"} => raw \in Statements
  /\ pc \in {"explain", "ready"} => safe = Emitted(raw) /\ way = "approve"
  /\ pc \in {"run", "success"} =>
       safe = IF way = "answer" THEN Emitted(raw) ELSE Emitted(Emitted(raw))
  /\ pc \in {"explain", "ready", "run", "success"} /\ changes = since =>
       Acceptable(raw, schema, filters)
  /\ pc = "success" => answer = AnswerOf(safe)

LEMMA PreviewInvStep ==
  ASSUME PreviewInv, [Next]_vars PROVE PreviewInv'
<1>1. Configured /\ Statements \subseteq Texts
  BY SettingsAssumption DEF PreviewInv, Configured
<1>2. UNCHANGED fixed
  BY DEF Next, Change, Generate, Explain, Approve, Execute, Over, vars
<1>3. UNCHANGED <<filters, settings, size>>
  BY <1>2 DEF fixed
<1>4. ASSUME NEW s PROVE Combined(NamesOf(s), filters') = Combined(NamesOf(s), filters)
  BY <1>3
<1>5. Emitted(raw)' = Emitted(raw') /\ Emitted(Emitted(raw))' = Emitted(Emitted(raw'))
      /\ AnswerOf(safe)' = AnswerOf(safe')
  BY <1>3, <1>4 DEF Emitted, Enforced, Literal, AnswerOf, Smaller
<1>6. ASSUME UNCHANGED request
      PROVE  /\ UNCHANGED <<way, raw, safe, answer, since>>
             /\ Emitted(raw)' = Emitted(raw) /\ Emitted(Emitted(raw))' = Emitted(Emitted(raw))
             /\ AnswerOf(safe)' = AnswerOf(safe)
  BY <1>5, <1>6 DEF request
<1>7. CASE Change
  BY <1>3, <1>6, <1>7 DEF Change, PreviewInv
<1>8. CASE Generate
  <2>1. /\ raw' \in Statements /\ safe' = Checked(raw') /\ since' = changes /\ way' \in {"answer", "approve"}
        /\ pc' = IF safe' = Rejected THEN "blocked" ELSE IF way' = "answer" THEN "run" ELSE "explain"
        /\ schema' = schema /\ changes' = changes
    BY <1>8 DEF Generate
  <2>2. Checked(raw') # Rejected =>
          Acceptable(raw', schema, filters) /\ Checked(raw') = Emitted(raw')
    BY <1>1, <2>1, CheckedEmits
  <2>3. Acceptable(raw', schema, filters) => Acceptable(raw, schema, filters)'
    BY <1>3, <2>1
  <2> QED
    BY <1>3, <1>5, <2>1, <2>2, <2>3 DEF PreviewInv
<1>9. CASE Explain
  BY <1>3, <1>6, <1>9 DEF Explain, PreviewInv
<1>10. CASE Approve
  <2>1. /\ pc = "ready" /\ safe' = Checked(safe)
        /\ pc' = IF safe' = Rejected THEN "blocked" ELSE "run"
        /\ UNCHANGED <<schema, changes, way, raw, answer, since>>
    BY <1>10 DEF Approve
  <2>2. safe = Emitted(raw) /\ way = "approve" /\ raw \in Statements
    BY <2>1 DEF PreviewInv
  <2>3. Checked(safe) # Rejected => Checked(safe) = Emitted(Emitted(raw))
    BY <1>1, <2>2, CheckedEmits, EmittedIsText
  <2> QED
    BY <1>3, <1>5, <2>1, <2>2, <2>3 DEF PreviewInv
<1>11. CASE Execute
  <2>1. /\ pc = "run" /\ pc' \in {"success", "error"}
        /\ pc' = "success" => answer' = AnswerOf(safe)
        /\ UNCHANGED <<schema, changes, way, raw, safe, since>>
    BY <1>11 DEF Execute
  <2> QED
    BY <1>3, <1>5, <2>1 DEF PreviewInv
<1>12. CASE Over \/ UNCHANGED vars
  BY <1>3, <1>6, <1>12 DEF Over, vars, PreviewInv
<1> QED
  BY <1>7, <1>8, <1>9, <1>10, <1>11, <1>12 DEF Next

LEMMA PreviewInvHolds == Spec => []PreviewInv
<1>1. Init => PreviewInv
  BY DEF Init, PreviewInv
<1>2. PreviewInv /\ [Next]_vars => PreviewInv'
  BY PreviewInvStep
<1> QED
  BY <1>1, <1>2, PTL DEF Spec

LEMMA KeptFilters ==
  ASSUME PreviewInv PROVE FiltersKept
<1> SUFFICES ASSUME pc = "success" PROVE FiltersKept
  BY DEF FiltersKept, Answered
<1>1. Configured /\ raw \in Texts /\ size \in Nat /\ settings.max \in Nat
  BY SettingsAssumption DEF PreviewInv, Configured
<1>2. answer = AnswerOf(safe) /\ (safe = Emitted(raw) \/ safe = Emitted(Emitted(raw)))
  BY DEF PreviewInv
<1>3. Entails(safe.where, Emitted(raw).where)
  <2>1. Entails(Emitted(raw).where, Emitted(raw).where)
    BY DEF Entails
  <2> QED
    BY <1>1, <1>2, <2>1, EmittedTwice
<1>4. safe.limit \in Limits
  BY <1>1, <1>2, EmittedIsText DEF Emitted
<1>5. answer.rows <= settings.max
  <2>1. Smaller(size, safe.limit.value) \in Nat
    BY <1>1, <1>4 DEF Smaller, Limits
  <2>2. answer.rows = Smaller(Smaller(size, safe.limit.value), settings.max)
    BY <1>2 DEF AnswerOf
  <2> QED
    BY <1>1, <2>1, <2>2 DEF Smaller
<1>6. ASSUME \A f \in FiltersOf(NamesOf(raw)) : NoOr(f.where)
      PROVE  /\ Entails(answer.where, raw.where)
             /\ NoOr(raw.where) =>
                  \A f \in FiltersOf(TablesOf(raw)) : Entails(answer.where, f.where)
  <2> DEFINE all == Combined(NamesOf(raw), filters)
  <2>1. filters \in Seq(RowFilters) /\ raw.where \in Wheres /\ all \in Wheres
    BY <1>1, CombinedType DEF Configured, SettingsAssumption, Texts
  <2>2. \A i \in DOMAIN filters : filters[i].name \in NamesOf(raw) => NoOr(filters[i].where)
    BY <1>6 DEF FiltersOf
  <2>3. /\ Len(all) = 1
        /\ \A i \in DOMAIN filters :
             filters[i].name \in NamesOf(raw) => filters[i].where[1] \subseteq all[1]
    BY <2>1, <2>2, CombinedPlain
  <2>4. Emitted(raw).where = AndText(raw.where, all) /\ answer.where = safe.where
    BY <1>2 DEF Emitted, AnswerOf
  <2> HIDE DEF all
  <2>5. Entails(answer.where, raw.where)
    BY <1>3, <2>1, <2>3, <2>4, AndPlain, EntailsTransitive
  <2>6. ASSUME NoOr(raw.where), NEW f \in FiltersOf(TablesOf(raw))
        PROVE  Entails(answer.where, f.where)
    <3>1. PICK i \in DOMAIN filters : f = filters[i] /\ filters[i].name \in TablesOf(raw)
      BY <2>6 DEF FiltersOf
    <3>2. filters[i].name \in NamesOf(raw)
      BY <3>1 DEF NamesOf
    <3>3. f.where \in Wheres /\ Len(f.where) = 1 /\ f.where[1] \subseteq all[1]
      <4>1. filters[i] \in RowFilters
        BY <2>1, ElementOfSeq
      <4>2. filters[i].where \in Wheres
        BY <4>1 DEF RowFilters
      <4> QED
        BY <2>2, <2>3, <3>1, <3>2, <4>2 DEF NoOr
    <3>4. /\ Len(Emitted(raw).where) = 1 /\ Emitted(raw).where \in Wheres
          /\ all[1] \subseteq Emitted(raw).where[1]
      <4> DEFINE w == raw.where
                 e == AndText(w, all)
      <4>1. w \in Wheres /\ Len(w) = 1
        BY <2>1, <2>6 DEF NoOr
      <4> HIDE DEF w
      <4>2. e \in Wheres
        BY <2>1, <4>1, AndTextIs
      <4>3. Len(e) = 1 /\ e[1] = w[1] \cup all[1]
        BY <2>1, <2>3, <4>1, AndPlain
      <4> HIDE DEF e
      <4> QED
        BY <2>4, <4>2, <4>3 DEF e, w
    <3>5. DOMAIN f.where = {1} /\ DOMAIN Emitted(raw).where = {1}
      BY <3>3, <3>4 DEF Wheres
    <3>6. Entails(Emitted(raw).where, f.where)
      BY <3>3, <3>4, <3>5 DEF Entails
    <3> QED
      BY <1>3, <2>4, <3>6, EntailsTransitive
  <2> QED
    BY <2>5, <2>6
<1> QED
  BY <1>5, <1>6 DEF FiltersKept

LEMMA AgreedAnswers ==
  ASSUME PreviewInv PROVE ApprovalAgrees
<1>1. Configured /\ size \in Nat /\ Statements \subseteq Texts
  BY SettingsAssumption DEF PreviewInv, Configured
<1>2. ASSUME pc = "success", way = "approve", changes = since
      PROVE  /\ Entails(answer.where, AnswerOf(Checked(raw)).where)
             /\ Entails(AnswerOf(Checked(raw)).where, answer.where)
             /\ answer.rows = AnswerOf(Checked(raw)).rows
  <2>1. raw \in Texts /\ answer = AnswerOf(Emitted(Emitted(raw)))
    BY <1>1, <1>2 DEF PreviewInv
  <2>2. Checked(raw) = Emitted(raw)
    BY <1>1, <1>2, <2>1, CheckedEmits DEF PreviewInv
  <2>3. /\ Entails(Emitted(Emitted(raw)).where, Emitted(raw).where)
        /\ Entails(Emitted(raw).where, Emitted(Emitted(raw)).where)
        /\ answer.rows = AnswerOf(Emitted(raw)).rows
    BY <1>1, <2>1, EmittedTwice
  <2> QED
    BY <2>1, <2>2, <2>3 DEF AnswerOf
<1>3. ASSUME pc = "ready", changes = since, FiltersOf(NamesOf(raw)) = {}
      PROVE  Checked(safe) # Rejected
  <2>1. raw \in Texts /\ safe = Emitted(raw) /\ Acceptable(raw, schema, filters)
    BY <1>1, <1>3 DEF PreviewInv
  <2>2. safe \in Texts /\ Acceptable(safe, schema, filters)
    BY <1>1, <1>3, <2>1, EmittedIsText, EmittedIsAcceptable
  <2> QED
    BY <1>1, <2>2, CheckedEmits
<1> QED
  BY <1>2, <1>3 DEF ApprovalAgrees, SameAnswer, UnfilteredCanBeApproved, Answered

(* Whatever the model generates, whatever the filters are and however the  *)
(* database changes: on both ways an answer has no more than the maximum   *)
(* of rows; where no filter that applies has an OR at its top, it          *)
(* satisfies the statement's own WHERE, and where the statement has none   *)
(* either, the filter of every table it read (answer, preview,             *)
(* execute_approved, validate_sql).                                        *)
THEOREM FiltersAreKept == ServerSpec => []FiltersKept
<1>1. PreviewInv => FiltersKept
  BY KeptFilters
<1> QED
  BY <1>1, PreviewInvHolds, ServerRunsItsParts, PTL

(* A preview that is approved before anything changes gives the answer     *)
(* that answer() gives, although it is validated twice, whatever OR there  *)
(* is in it or in a filter, and without row filters it can be approved     *)
(* (preview, execute_approved, validate_sql).                              *)
THEOREM ApprovalIsNoDetour == ServerSpec => []ApprovalAgrees
<1>1. PreviewInv => ApprovalAgrees
  BY AgreedAnswers
<1> QED
  BY <1>1, PreviewInvHolds, ServerRunsItsParts, PTL

-----------------------------------------------------------------------------
(* The stream.  The theorems of StreamProofs are about those of            *)
(* MCServer: S and Stream instantiate the same module in the same way.     *)
S == INSTANCE StreamProofs

LEMMA SameStreams == Stream!Spec => S!Spec
<1>1. Stream!Init => S!Init
  BY DEF Stream!Init, S!Init
<1> USE DEF Stream!thread, S!thread, Stream!loop, S!loop, Stream!Callback, S!Callback,
            Stream!Stages, S!Stages, Stream!Final, S!Final, Stream!Post, S!Post
<1>2. ASSUME NEW s \in Streams
      PROVE  /\ Stream!Start(s) => S!Start(s)
             /\ Stream!Emit(s) => S!Emit(s)
             /\ Stream!Return(s) => S!Return(s)
             /\ Stream!Fail(s) => S!Fail(s)
             /\ Stream!Finally(s) => S!Finally(s)
             /\ Stream!Put(s) => S!Put(s)
             /\ Stream!Wait(s) => S!Wait(s)
             /\ Stream!Send(s) => S!Send(s)
             /\ Stream!Break(s) => S!Break(s)
             /\ Stream!Leave(s) => S!Leave(s)
  <2>1. Stream!Start(s) => S!Start(s)
    BY DEF Stream!Start, S!Start
  <2>2. Stream!Emit(s) => S!Emit(s)
    BY DEF Stream!Emit, S!Emit, Stream!Steps, S!Steps, Stream!Onward, S!Onward,
           Stream!Retry, S!Retry, Stream!GiveUp, S!GiveUp
  <2>3. Stream!Return(s) => S!Return(s)
    BY DEF Stream!Return, S!Return, Stream!Outcomes, S!Outcomes
  <2>4. /\ Stream!Fail(s) => S!Fail(s)
        /\ Stream!Finally(s) => S!Finally(s)
    BY DEF Stream!Fail, S!Fail, Stream!Finally, S!Finally
  <2>5. /\ Stream!Put(s) => S!Put(s)
        /\ Stream!Wait(s) => S!Wait(s)
    BY DEF Stream!Put, S!Put, Stream!Wait, S!Wait, Stream!Turn, S!Turn
  <2>6. /\ Stream!Send(s) => S!Send(s)
        /\ Stream!Break(s) => S!Break(s)
    BY DEF Stream!Send, S!Send, Stream!Break, S!Break, Stream!Turn, S!Turn,
           Stream!Unsendable, S!Unsendable
  <2>7. Stream!Leave(s) => S!Leave(s)
    BY DEF Stream!Leave, S!Leave, Stream!Callbacks, S!Callbacks, Stream!Events, S!Events,
           Stream!Filter, S!Filter
  <2> QED
    BY <2>1, <2>2, <2>3, <2>4, <2>5, <2>6, <2>7
<1>3. Stream!Next => S!Next
  BY <1>2 DEF Stream!Next, S!Next, Stream!Work, S!Work, Stream!Serve, S!Serve
<1>4. UNCHANGED Stream!vars => UNCHANGED S!vars
  BY DEF Stream!vars, S!vars
<1> QED
  BY <1>1, <1>3, <1>4, PTL DEF Stream!Spec, S!Spec

LEMMA StreamBounds == S!BoundsAssumption
BY PartsAssumption DEF S!BoundsAssumption, Stream!BoundsAssumption

(* A client that stayed to the end heard stages, one result or error that  *)
(* agrees with the last of them, and "done", whatever the schedule of the  *)
(* thread, the loop and the other clients (query_stream_route).            *)
THEOREM StreamsEndTruly == ServerSpec => []EndsAsItSays
<1>1. S!EndsAsItSays => EndsAsItSays
  BY DEF S!EndsAsItSays, EndsAsItSays, Stream!EndsAsItSays, S!Cardinality, Stream!Cardinality
<1>2. ServerSpec => S!Spec
  BY ServerRunsItsParts, SameStreams, PTL
<1> QED
  BY <1>1, <1>2, S!StreamsAreTrue, StreamBounds, PTL
=============================================================================
