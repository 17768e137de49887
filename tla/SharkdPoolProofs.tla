--------------------------- MODULE SharkdPoolProofs ---------------------------
(***************************************************************************)
(* What SharkdPool keeps, that it implements SharkdSession, what it        *)
(* publishes and how far it exceeds its limit, for any callers, references,*)
(* sessions and pool size.                                                 *)
(***************************************************************************)
EXTENDS SharkdPool, FiniteSetTheorems, TLAPS

Holding == Working \cup {"closing"}

\* Where a caller is says what it has: a reference, a session, attempts left.
ControlInv ==
  \A c \in Caller :
    /\ pc[c] \in Working \cup {"acquire", "spawn"} => want[c] \in Ref
    /\ pc[c] \in Holding => cur[c] \in Session /\ proc[cur[c]] # "unborn"
    /\ pc[c] = "acquire" => tries[c] > 0
    /\ pc[c] = "idle" => tries[c] = 0
    /\ pc[c] = "closing" /\ tries[c] > 0 => want[c] \in Ref

\* The mutex: held exactly by the caller reading an answer, never by two, and with
\* nothing on the pipe while it is free.
LockInv ==
  /\ \A c \in Caller : pc[c] \in {"loading", "reading"} => lock[cur[c]] = c
  /\ \A s \in Session : lock[s] # None =>
       /\ pc[lock[s]] \in {"loading", "reading"}
       /\ cur[lock[s]] = s
       /\ asked[s] = <<lock[s]>>
  /\ \A s \in Session : lock[s] = None => asked[s] = <<>>

\* The order in which a session is let go of: marked dead with no request in
\* flight, its stdin closed only then, the process waited for only after that.
LifeInv ==
  \A s \in Session :
    /\ lock[s] # None => ~dead[s]
    /\ closed[s] => dead[s]
    /\ proc[s] = "waited" => closed[s]

\* A session nobody has started is nowhere.
UnbornInv ==
  \A s \in Session : proc[s] = "unborn" =>
    /\ s \notin Published \cup retiring \cup tmp
    /\ ~dead[s] /\ lock[s] = None

\* Sessions hold what they are wanted for.
HoldsInv ==
  /\ \A r \in Ref : live[r] # None => holds[live[r]] = r
  /\ AnswersOwnCapture

\* A session that is still loading is known to nobody else.
LoadingInv ==
  \A c \in Caller : pc[c] = "loading" =>
    cur[c] \notin Published \cup retiring

IInv ==
  /\ TypeOK
  /\ ControlInv
  /\ LockInv
  /\ LifeInv
  /\ UnbornInv
  /\ HoldsInv
  /\ LoadingInv
  /\ NoneLost
  /\ MergeOutlivesReader

\* Closing a session marks it dead, and whatever else it does concerns it alone.
LEMMA CloseEffect ==
  ASSUME TypeOK, NEW s \in Session, Close(s)
  PROVE  /\ lock[s] = None
         /\ dead' = [dead EXCEPT ![s] = TRUE]
         /\ closed' \in [Session -> BOOLEAN]
         /\ closed[s] => closed'[s]
         /\ \A t \in Session \ {s} : closed'[t] = closed[t]
BY DEF Close, TypeOK

\* Reading the answer empties the pipe: there is one request on it at a time.
LEMMA ReadClears ==
  ASSUME TypeOK, ControlInv, LockInv, NEW c \in Caller, ReadAnswer(c),
         pc[c] \in {"loading", "reading"}
  PROVE  /\ asked' = [asked EXCEPT ![cur[c]] = <<>>]
         /\ lock' = [lock EXCEPT ![cur[c]] = None]
         /\ UNCHANGED <<holds, proc, dead, closed, tmp>>
<1>1. lock[cur[c]] = c /\ cur[c] \in Session
  BY DEF LockInv, ControlInv, Holding, Working
<1>2. asked[cur[c]] = <<c>>
  BY <1>1, PoolAssumption DEF LockInv
<1>3. Tail(<<c>>) = <<>>
  OBVIOUS
<1>. QED BY <1>1, <1>2, <1>3 DEF ReadAnswer, TypeOK

\* Types are kept: the attempts a call has left are counted down from two and only
\* where there is one (pool.call).
LEMMA TypeStep ==
  ASSUME TypeOK, ControlInv, LockInv, [Next]_vars
  PROVE  TypeOK'
<1> USE PoolAssumption DEF TypeOK, poolVars, sessionVars, callerVars, vars, Goto
<1>1. ASSUME NEW c \in Caller, Step(c) PROVE TypeOK'
  <2>1. CASE AcquireHit(c)
    BY <2>1 DEF AcquireHit, Touch, Usable, ControlInv, Holding, Working
  <2>2. CASE AcquireMiss(c)
    BY <2>2 DEF AcquireMiss, Retire, Usable, Open, ControlInv, Holding, Working
  <2>3. CASE SpawnFails(c)
    BY <2>3 DEF SpawnFails, Return
  <2>4. CASE \E s \in Session : Spawn(c, s)
    BY <2>4 DEF Spawn, Touch, ControlInv, Holding, Working
  <2>5. CASE Loaded(c)
    <3>1. /\ pc[c] = "loading" /\ pc' = [pc EXCEPT ![c] = "do"]
          /\ UNCHANGED <<holds, proc, dead, closed, tmp, newer, want, tries>>
          /\ lock' = [lock EXCEPT ![cur[c]] = None]
          /\ asked' = [asked EXCEPT ![cur[c]] = <<>>]
      BY <2>5, ReadClears DEF Loaded
    <3>2. CASE Usable(want[c])
      <4>1. cur' = [cur EXCEPT ![c] = live[want[c]]] /\ live' = live /\ retiring' = retiring \cup {cur[c]}
        BY <2>5, <3>2 DEF Loaded, Discard
      <4>. QED BY <3>1, <3>2, <4>1 DEF Usable, ControlInv, Holding, Working
    <3>3. CASE ~Usable(want[c])
      <4>1. live' = [live EXCEPT ![want[c]] = cur[c]] /\ UNCHANGED <<retiring, cur>>
        BY <2>5, <3>3 DEF Loaded
      <4>. QED BY <3>1, <3>3, <4>1 DEF Usable, ControlInv, Holding, Working
    <3>. QED BY <3>2, <3>3
  <2>6. CASE LoadRefused(c)
    <3>1. /\ pc[c] \in {"loading", "reading"}
          /\ asked' = [asked EXCEPT ![cur[c]] = <<>>]
          /\ lock' = [lock EXCEPT ![cur[c]] = None]
          /\ UNCHANGED <<holds, proc, dead, closed, tmp>>
      BY <2>6, ReadClears DEF LoadRefused
    <3>. QED BY <2>6, <3>1 DEF LoadRefused, LoadFails, ControlInv, Holding, Working
  <2>7. CASE Ask(c)
    BY <2>7 DEF Ask, Touch, ControlInv, Holding, Working
  <2>8. CASE AskDead(c)
    BY <2>8 DEF AskDead
  <2>9. CASE Answered(c)
    <3>1. /\ pc[c] \in {"loading", "reading"}
          /\ asked' = [asked EXCEPT ![cur[c]] = <<>>]
          /\ lock' = [lock EXCEPT ![cur[c]] = None]
          /\ UNCHANGED <<holds, proc, dead, closed, tmp>>
      BY <2>9, ReadClears DEF Answered
    <3>. QED BY <2>9, <3>1 DEF Answered, Return, ControlInv, Holding, Working
  <2>10. CASE Refused(c)
    <3>1. /\ pc[c] \in {"loading", "reading"}
          /\ asked' = [asked EXCEPT ![cur[c]] = <<>>]
          /\ lock' = [lock EXCEPT ![cur[c]] = None]
          /\ UNCHANGED <<holds, proc, dead, closed, tmp>>
      BY <2>10, ReadClears DEF Refused
    <3>. QED BY <2>10, <3>1 DEF Refused, ControlInv, Holding, Working
  <2>11. CASE AfterRefusal(c)
    <3>1. pc[c] = "refused" /\ UNCHANGED <<poolVars, sessionVars, tmp>>
      BY <2>11 DEF AfterRefusal
    <3>2. CASE dead[cur[c]]
      <4>1. pc' = [pc EXCEPT ![c] = "drop"] /\ UNCHANGED <<want, cur, tries>>
        BY <2>11, <3>2 DEF AfterRefusal
      <4>. QED BY <3>1, <4>1
    <3>3. CASE ~dead[cur[c]]
      <4>1. Return(c)
        BY <2>11, <3>3 DEF AfterRefusal
      <4>. QED BY <3>1, <4>1 DEF Return
    <3>. QED BY <3>2, <3>3
  <2>12. CASE Broken(c)
    <3>1. /\ pc[c] \in {"reading", "loading"}
          /\ UNCHANGED <<poolVars, holds, proc, closed, tmp, want, cur>> /\ MarkDead(cur[c])
      BY <2>12 DEF Broken
    <3>2. CASE pc[c] = "loading"
      <4>1. LoadFails(c)
        BY <2>12, <3>2 DEF Broken
      <4>. QED BY <3>1, <3>2, <4>1 DEF MarkDead, LoadFails, ControlInv, Holding, Working
    <3>3. CASE pc[c] # "loading"
      <4>1. pc' = [pc EXCEPT ![c] = "drop"] /\ UNCHANGED tries
        BY <2>12, <3>3 DEF Broken
      <4>. QED BY <3>1, <3>3, <4>1 DEF MarkDead, ControlInv, Holding, Working
    <3>. QED BY <3>2, <3>3
  <2>13. CASE Drop(c)
    BY <2>13 DEF Drop, ControlInv, Holding, Working
  <2>14. CASE CloseThen(c)
    <3>1. /\ pc[c] = "closing" /\ Close(cur[c])
          /\ UNCHANGED <<poolVars, holds, proc, lock, asked, tmp>>
      BY <2>14 DEF CloseThen
    <3>c. /\ cur[c] \in Session /\ lock[cur[c]] = None
          /\ dead' = [dead EXCEPT ![cur[c]] = TRUE]
          /\ closed' \in [Session -> BOOLEAN]
          /\ closed[cur[c]] => closed'[cur[c]]
          /\ \A t \in Session \ {cur[c]} : closed'[t] = closed[t]
      BY <3>1, CloseEffect DEF ControlInv, Holding, Working
    <3>2. CASE tries[c] > 0
      <4>1. /\ pc' = [pc EXCEPT ![c] = "acquire"]
            /\ cur' = [cur EXCEPT ![c] = None]
            /\ UNCHANGED <<want, tries>>
        BY <2>14, <3>2 DEF CloseThen
      <4>. QED BY <3>1, <3>c, <3>2, <4>1 DEF ControlInv, Holding, Working
    <3>3. CASE ~(tries[c] > 0)
      <4>1. Return(c)
        BY <2>14, <3>3 DEF CloseThen
      <4>. QED BY <3>1, <3>c, <4>1 DEF Return, ControlInv, Holding, Working
    <3>. QED BY <3>2, <3>3
  <2>. QED
    BY <1>1, <2>1, <2>2, <2>3, <2>4, <2>5, <2>6, <2>7, <2>8, <2>9, <2>10, <2>11, <2>12, <2>13, <2>14 DEF Step
<1>2. ASSUME NEW c \in Caller, NEW r \in Ref, Call(c, r) PROVE TypeOK'
  BY <1>2 DEF Call
<1>3. ASSUME NEW c \in Caller, NEW r \in Ref, CloseFile(c, r) PROVE TypeOK'
  BY <1>3 DEF CloseFile
<1>4. ASSUME NEW s \in Session, CloseRetired(s) PROVE TypeOK'
  BY <1>4, CloseEffect DEF CloseRetired
<1>5. ASSUME NEW s \in Session, Crash(s) PROVE TypeOK'
  BY <1>5 DEF Crash
<1>6. ASSUME NEW s \in Session, End(s) PROVE TypeOK'
  BY <1>6 DEF End
<1>7. ASSUME NEW gone \in SUBSET Open, Reap(gone) PROVE TypeOK'
  BY <1>7 DEF Reap, Retire, Open
<1>8. CASE UNCHANGED vars
  BY <1>8
<1>. QED BY <1>1, <1>2, <1>3, <1>4, <1>5, <1>6, <1>7, <1>8 DEF Next

\* No caller goes on without a reference, or to a session without having one
\* (pool.call, pool.acquire).
LEMMA ControlStep ==
  ASSUME TypeOK, ControlInv, LockInv, UnbornInv, TypeOK', [Next]_vars
  PROVE  ControlInv'
<1> USE PoolAssumption DEF TypeOK, ControlInv, UnbornInv, Published, Holding, Working, poolVars, sessionVars, callerVars, vars, Goto
<1>1. ASSUME NEW c \in Caller, Step(c) PROVE ControlInv'
  <2>1. CASE AcquireHit(c)
    BY <2>1 DEF AcquireHit, Touch, Usable
  <2>2. CASE AcquireMiss(c)
    BY <2>2 DEF AcquireMiss, Retire, Usable, Open
  <2>3. CASE SpawnFails(c)
    BY <2>3 DEF SpawnFails, Return
  <2>4. CASE \E s \in Session : Spawn(c, s)
    BY <2>4 DEF Spawn, Touch
  <2>5. CASE Loaded(c)
    <3>1. /\ pc[c] = "loading" /\ pc' = [pc EXCEPT ![c] = "do"]
          /\ UNCHANGED <<holds, proc, dead, closed, tmp, newer, want, tries>>
          /\ lock' = [lock EXCEPT ![cur[c]] = None]
          /\ asked' = [asked EXCEPT ![cur[c]] = <<>>]
      BY <2>5, ReadClears DEF Loaded
    <3>2. CASE Usable(want[c])
      <4>1. cur' = [cur EXCEPT ![c] = live[want[c]]] /\ live' = live /\ retiring' = retiring \cup {cur[c]}
        BY <2>5, <3>2 DEF Loaded, Discard
      <4>. QED BY <3>1, <3>2, <4>1 DEF Usable
    <3>3. CASE ~Usable(want[c])
      <4>1. live' = [live EXCEPT ![want[c]] = cur[c]] /\ UNCHANGED <<retiring, cur>>
        BY <2>5, <3>3 DEF Loaded
      <4>. QED BY <3>1, <3>3, <4>1 DEF Usable
    <3>. QED BY <3>2, <3>3
  <2>6. CASE LoadRefused(c)
    <3>1. /\ pc[c] \in {"loading", "reading"}
          /\ asked' = [asked EXCEPT ![cur[c]] = <<>>]
          /\ lock' = [lock EXCEPT ![cur[c]] = None]
          /\ UNCHANGED <<holds, proc, dead, closed, tmp>>
      BY <2>6, ReadClears DEF LoadRefused
    <3>. QED BY <2>6, <3>1 DEF LoadRefused, LoadFails
  <2>7. CASE Ask(c)
    BY <2>7 DEF Ask, Touch
  <2>8. CASE AskDead(c)
    BY <2>8 DEF AskDead
  <2>9. CASE Answered(c)
    <3>1. /\ pc[c] \in {"loading", "reading"}
          /\ asked' = [asked EXCEPT ![cur[c]] = <<>>]
          /\ lock' = [lock EXCEPT ![cur[c]] = None]
          /\ UNCHANGED <<holds, proc, dead, closed, tmp>>
      BY <2>9, ReadClears DEF Answered
    <3>. QED BY <2>9, <3>1 DEF Answered, Return
  <2>10. CASE Refused(c)
    <3>1. /\ pc[c] \in {"loading", "reading"}
          /\ asked' = [asked EXCEPT ![cur[c]] = <<>>]
          /\ lock' = [lock EXCEPT ![cur[c]] = None]
          /\ UNCHANGED <<holds, proc, dead, closed, tmp>>
      BY <2>10, ReadClears DEF Refused
    <3>. QED BY <2>10, <3>1 DEF Refused
  <2>11. CASE AfterRefusal(c)
    <3>1. pc[c] = "refused" /\ UNCHANGED <<poolVars, sessionVars, tmp>>
      BY <2>11 DEF AfterRefusal
    <3>2. CASE dead[cur[c]]
      <4>1. pc' = [pc EXCEPT ![c] = "drop"] /\ UNCHANGED <<want, cur, tries>>
        BY <2>11, <3>2 DEF AfterRefusal
      <4>. QED BY <3>1, <4>1
    <3>3. CASE ~dead[cur[c]]
      <4>1. Return(c)
        BY <2>11, <3>3 DEF AfterRefusal
      <4>. QED BY <3>1, <4>1 DEF Return
    <3>. QED BY <3>2, <3>3
  <2>12. CASE Broken(c)
    <3>1. /\ pc[c] \in {"reading", "loading"}
          /\ UNCHANGED <<poolVars, holds, proc, closed, tmp, want, cur>> /\ MarkDead(cur[c])
      BY <2>12 DEF Broken
    <3>2. CASE pc[c] = "loading"
      <4>1. LoadFails(c)
        BY <2>12, <3>2 DEF Broken
      <4>. QED BY <3>1, <3>2, <4>1 DEF MarkDead, LoadFails
    <3>3. CASE pc[c] # "loading"
      <4>1. pc' = [pc EXCEPT ![c] = "drop"] /\ UNCHANGED tries
        BY <2>12, <3>3 DEF Broken
      <4>. QED BY <3>1, <3>3, <4>1 DEF MarkDead
    <3>. QED BY <3>2, <3>3
  <2>13. CASE Drop(c)
    BY <2>13 DEF Drop
  <2>14. CASE CloseThen(c)
    <3>1. /\ pc[c] = "closing" /\ Close(cur[c])
          /\ UNCHANGED <<poolVars, holds, proc, lock, asked, tmp>>
      BY <2>14 DEF CloseThen
    <3>c. /\ cur[c] \in Session /\ lock[cur[c]] = None
          /\ dead' = [dead EXCEPT ![cur[c]] = TRUE]
          /\ closed' \in [Session -> BOOLEAN]
          /\ closed[cur[c]] => closed'[cur[c]]
          /\ \A t \in Session \ {cur[c]} : closed'[t] = closed[t]
      BY <3>1, CloseEffect DEF ControlInv, Holding, Working
    <3>2. CASE tries[c] > 0
      <4>1. /\ pc' = [pc EXCEPT ![c] = "acquire"]
            /\ cur' = [cur EXCEPT ![c] = None]
            /\ UNCHANGED <<want, tries>>
        BY <2>14, <3>2 DEF CloseThen
      <4>. QED BY <3>1, <3>c, <3>2, <4>1
    <3>3. CASE ~(tries[c] > 0)
      <4>1. Return(c)
        BY <2>14, <3>3 DEF CloseThen
      <4>. QED BY <3>1, <3>c, <4>1 DEF Return
    <3>. QED BY <3>2, <3>3
  <2>. QED
    BY <1>1, <2>1, <2>2, <2>3, <2>4, <2>5, <2>6, <2>7, <2>8, <2>9, <2>10, <2>11, <2>12, <2>13, <2>14 DEF Step
<1>2. ASSUME NEW c \in Caller, NEW r \in Ref, Call(c, r) PROVE ControlInv'
  BY <1>2 DEF Call
<1>3. ASSUME NEW c \in Caller, NEW r \in Ref, CloseFile(c, r) PROVE ControlInv'
  BY <1>3 DEF CloseFile
<1>4. ASSUME NEW s \in Session, CloseRetired(s) PROVE ControlInv'
  BY <1>4, CloseEffect DEF CloseRetired
<1>5. ASSUME NEW s \in Session, Crash(s) PROVE ControlInv'
  BY <1>5 DEF Crash
<1>6. ASSUME NEW s \in Session, End(s) PROVE ControlInv'
  BY <1>6 DEF End
<1>7. ASSUME NEW gone \in SUBSET Open, Reap(gone) PROVE ControlInv'
  BY <1>7 DEF Reap, Retire, Open
<1>8. CASE UNCHANGED vars
  BY <1>8
<1>. QED BY <1>1, <1>2, <1>3, <1>4, <1>5, <1>6, <1>7, <1>8 DEF Next

\* The mutex excludes: it is taken free and given up with the answer read (session.do).
LEMMA LockStep ==
  ASSUME TypeOK, ControlInv, LockInv, UnbornInv, TypeOK', [Next]_vars
  PROVE  LockInv'
<1> USE PoolAssumption DEF TypeOK, ControlInv, LockInv, Holding, Working, poolVars, sessionVars, callerVars, vars, Goto
<1>1. ASSUME NEW c \in Caller, Step(c) PROVE LockInv'
  <2>1. CASE AcquireHit(c)
    BY <2>1 DEF AcquireHit, Touch, Usable
  <2>2. CASE AcquireMiss(c)
    BY <2>2 DEF AcquireMiss, Retire, Usable, Open
  <2>3. CASE SpawnFails(c)
    BY <2>3 DEF SpawnFails, Return
  <2>4. CASE \E s \in Session : Spawn(c, s)
    <3>1. PICK s \in Session : Spawn(c, s)
      BY <2>4
    <3>2. lock[s] = None /\ asked[s] = <<>> /\ Append(<<>>, c) = <<c>>
      BY <3>1 DEF Spawn, UnbornInv
    <3>3. asked' = [asked EXCEPT ![s] = <<c>>]
      BY <3>1, <3>2 DEF Spawn
    <3>. QED BY <3>1, <3>2, <3>3 DEF Spawn, UnbornInv
  <2>5. CASE Loaded(c)
    <3>1. /\ pc[c] = "loading" /\ pc' = [pc EXCEPT ![c] = "do"]
          /\ UNCHANGED <<holds, proc, dead, closed, tmp, newer, want, tries>>
          /\ lock' = [lock EXCEPT ![cur[c]] = None]
          /\ asked' = [asked EXCEPT ![cur[c]] = <<>>]
      BY <2>5, ReadClears DEF Loaded
    <3>2. CASE Usable(want[c])
      <4>1. cur' = [cur EXCEPT ![c] = live[want[c]]] /\ live' = live /\ retiring' = retiring \cup {cur[c]}
        BY <2>5, <3>2 DEF Loaded, Discard
      <4>. QED BY <3>1, <3>2, <4>1 DEF Usable
    <3>3. CASE ~Usable(want[c])
      <4>1. live' = [live EXCEPT ![want[c]] = cur[c]] /\ UNCHANGED <<retiring, cur>>
        BY <2>5, <3>3 DEF Loaded
      <4>. QED BY <3>1, <3>3, <4>1 DEF Usable
    <3>. QED BY <3>2, <3>3
  <2>6. CASE LoadRefused(c)
    <3>1. /\ pc[c] \in {"loading", "reading"}
          /\ asked' = [asked EXCEPT ![cur[c]] = <<>>]
          /\ lock' = [lock EXCEPT ![cur[c]] = None]
          /\ UNCHANGED <<holds, proc, dead, closed, tmp>>
      BY <2>6, ReadClears DEF LoadRefused
    <3>. QED BY <2>6, <3>1 DEF LoadRefused, LoadFails
  <2>7. CASE Ask(c)
    <3>1. asked[cur[c]] = <<>> /\ Append(<<>>, c) = <<c>>
      BY <2>7 DEF Ask
    <3>2. asked' = [asked EXCEPT ![cur[c]] = <<c>>]
      BY <2>7, <3>1 DEF Ask
    <3>3. /\ pc[c] = "do" /\ pc' = [pc EXCEPT ![c] = "reading"]
          /\ lock[cur[c]] = None /\ lock' = [lock EXCEPT ![cur[c]] = c]
          /\ UNCHANGED <<cur, proc>>
      BY <2>7 DEF Ask
    <3>. QED BY <3>1, <3>2, <3>3
  <2>8. CASE AskDead(c)
    BY <2>8 DEF AskDead
  <2>9. CASE Answered(c)
    <3>1. /\ pc[c] \in {"loading", "reading"}
          /\ asked' = [asked EXCEPT ![cur[c]] = <<>>]
          /\ lock' = [lock EXCEPT ![cur[c]] = None]
          /\ UNCHANGED <<holds, proc, dead, closed, tmp>>
      BY <2>9, ReadClears DEF Answered
    <3>. QED BY <2>9, <3>1 DEF Answered, Return
  <2>10. CASE Refused(c)
    <3>1. /\ pc[c] \in {"loading", "reading"}
          /\ asked' = [asked EXCEPT ![cur[c]] = <<>>]
          /\ lock' = [lock EXCEPT ![cur[c]] = None]
          /\ UNCHANGED <<holds, proc, dead, closed, tmp>>
      BY <2>10, ReadClears DEF Refused
    <3>. QED BY <2>10, <3>1 DEF Refused
  <2>11. CASE AfterRefusal(c)
    <3>1. pc[c] = "refused" /\ UNCHANGED <<poolVars, sessionVars, tmp>>
      BY <2>11 DEF AfterRefusal
    <3>2. CASE dead[cur[c]]
      <4>1. pc' = [pc EXCEPT ![c] = "drop"] /\ UNCHANGED <<want, cur, tries>>
        BY <2>11, <3>2 DEF AfterRefusal
      <4>. QED BY <3>1, <4>1
    <3>3. CASE ~dead[cur[c]]
      <4>1. Return(c)
        BY <2>11, <3>3 DEF AfterRefusal
      <4>. QED BY <3>1, <4>1 DEF Return
    <3>. QED BY <3>2, <3>3
  <2>12. CASE Broken(c)
    <3>1. /\ pc[c] \in {"reading", "loading"}
          /\ UNCHANGED <<poolVars, holds, proc, closed, tmp, want, cur>> /\ MarkDead(cur[c])
      BY <2>12 DEF Broken
    <3>2. CASE pc[c] = "loading"
      <4>1. LoadFails(c)
        BY <2>12, <3>2 DEF Broken
      <4>. QED BY <3>1, <3>2, <4>1 DEF MarkDead, LoadFails
    <3>3. CASE pc[c] # "loading"
      <4>1. pc' = [pc EXCEPT ![c] = "drop"] /\ UNCHANGED tries
        BY <2>12, <3>3 DEF Broken
      <4>. QED BY <3>1, <3>3, <4>1 DEF MarkDead
    <3>. QED BY <3>2, <3>3
  <2>13. CASE Drop(c)
    BY <2>13 DEF Drop
  <2>14. CASE CloseThen(c)
    <3>1. /\ pc[c] = "closing" /\ Close(cur[c])
          /\ UNCHANGED <<poolVars, holds, proc, lock, asked, tmp>>
      BY <2>14 DEF CloseThen
    <3>c. /\ cur[c] \in Session /\ lock[cur[c]] = None
          /\ dead' = [dead EXCEPT ![cur[c]] = TRUE]
          /\ closed' \in [Session -> BOOLEAN]
          /\ closed[cur[c]] => closed'[cur[c]]
          /\ \A t \in Session \ {cur[c]} : closed'[t] = closed[t]
      BY <3>1, CloseEffect DEF ControlInv, Holding, Working
    <3>2. CASE tries[c] > 0
      <4>1. /\ pc' = [pc EXCEPT ![c] = "acquire"]
            /\ cur' = [cur EXCEPT ![c] = None]
            /\ UNCHANGED <<want, tries>>
        BY <2>14, <3>2 DEF CloseThen
      <4>. QED BY <3>1, <3>c, <3>2, <4>1
    <3>3. CASE ~(tries[c] > 0)
      <4>1. Return(c)
        BY <2>14, <3>3 DEF CloseThen
      <4>. QED BY <3>1, <3>c, <4>1 DEF Return
    <3>. QED BY <3>2, <3>3
  <2>. QED
    BY <1>1, <2>1, <2>2, <2>3, <2>4, <2>5, <2>6, <2>7, <2>8, <2>9, <2>10, <2>11, <2>12, <2>13, <2>14 DEF Step
<1>2. ASSUME NEW c \in Caller, NEW r \in Ref, Call(c, r) PROVE LockInv'
  BY <1>2 DEF Call
<1>3. ASSUME NEW c \in Caller, NEW r \in Ref, CloseFile(c, r) PROVE LockInv'
  BY <1>3 DEF CloseFile
<1>4. ASSUME NEW s \in Session, CloseRetired(s) PROVE LockInv'
  BY <1>4, CloseEffect DEF CloseRetired
<1>5. ASSUME NEW s \in Session, Crash(s) PROVE LockInv'
  BY <1>5 DEF Crash
<1>6. ASSUME NEW s \in Session, End(s) PROVE LockInv'
  BY <1>6 DEF End
<1>7. ASSUME NEW gone \in SUBSET Open, Reap(gone) PROVE LockInv'
  BY <1>7 DEF Reap, Retire, Open
<1>8. CASE UNCHANGED vars
  BY <1>8
<1>. QED BY <1>1, <1>2, <1>3, <1>4, <1>5, <1>6, <1>7, <1>8 DEF Next

\* A session is let go of in order, and never under a request (session.close).
LEMMA LifeStep ==
  ASSUME TypeOK, ControlInv, LockInv, UnbornInv, LifeInv, TypeOK', [Next]_vars
  PROVE  LifeInv'
<1> USE PoolAssumption DEF TypeOK, ControlInv, LockInv, LifeInv, Holding, Working, poolVars, sessionVars, callerVars, vars, Goto
<1>1. ASSUME NEW c \in Caller, Step(c) PROVE LifeInv'
  <2>1. CASE AcquireHit(c)
    BY <2>1 DEF AcquireHit, Touch, Usable
  <2>2. CASE AcquireMiss(c)
    BY <2>2 DEF AcquireMiss, Retire, Usable, Open
  <2>3. CASE SpawnFails(c)
    BY <2>3 DEF SpawnFails, Return
  <2>4. CASE \E s \in Session : Spawn(c, s)
    BY <2>4 DEF Spawn, Touch, UnbornInv
  <2>5. CASE Loaded(c)
    <3>1. /\ pc[c] = "loading" /\ pc' = [pc EXCEPT ![c] = "do"]
          /\ UNCHANGED <<holds, proc, dead, closed, tmp, newer, want, tries>>
          /\ lock' = [lock EXCEPT ![cur[c]] = None]
          /\ asked' = [asked EXCEPT ![cur[c]] = <<>>]
      BY <2>5, ReadClears DEF Loaded
    <3>2. CASE Usable(want[c])
      <4>1. cur' = [cur EXCEPT ![c] = live[want[c]]] /\ live' = live /\ retiring' = retiring \cup {cur[c]}
        BY <2>5, <3>2 DEF Loaded, Discard
      <4>. QED BY <3>1, <3>2, <4>1 DEF Usable
    <3>3. CASE ~Usable(want[c])
      <4>1. live' = [live EXCEPT ![want[c]] = cur[c]] /\ UNCHANGED <<retiring, cur>>
        BY <2>5, <3>3 DEF Loaded
      <4>. QED BY <3>1, <3>3, <4>1 DEF Usable
    <3>. QED BY <3>2, <3>3
  <2>6. CASE LoadRefused(c)
    <3>1. /\ pc[c] \in {"loading", "reading"}
          /\ asked' = [asked EXCEPT ![cur[c]] = <<>>]
          /\ lock' = [lock EXCEPT ![cur[c]] = None]
          /\ UNCHANGED <<holds, proc, dead, closed, tmp>>
      BY <2>6, ReadClears DEF LoadRefused
    <3>. QED BY <2>6, <3>1 DEF LoadRefused, LoadFails
  <2>7. CASE Ask(c)
    BY <2>7 DEF Ask, Touch
  <2>8. CASE AskDead(c)
    BY <2>8 DEF AskDead
  <2>9. CASE Answered(c)
    <3>1. /\ pc[c] \in {"loading", "reading"}
          /\ asked' = [asked EXCEPT ![cur[c]] = <<>>]
          /\ lock' = [lock EXCEPT ![cur[c]] = None]
          /\ UNCHANGED <<holds, proc, dead, closed, tmp>>
      BY <2>9, ReadClears DEF Answered
    <3>. QED BY <2>9, <3>1 DEF Answered, Return
  <2>10. CASE Refused(c)
    <3>1. /\ pc[c] \in {"loading", "reading"}
          /\ asked' = [asked EXCEPT ![cur[c]] = <<>>]
          /\ lock' = [lock EXCEPT ![cur[c]] = None]
          /\ UNCHANGED <<holds, proc, dead, closed, tmp>>
      BY <2>10, ReadClears DEF Refused
    <3>. QED BY <2>10, <3>1 DEF Refused
  <2>11. CASE AfterRefusal(c)
    <3>1. pc[c] = "refused" /\ UNCHANGED <<poolVars, sessionVars, tmp>>
      BY <2>11 DEF AfterRefusal
    <3>2. CASE dead[cur[c]]
      <4>1. pc' = [pc EXCEPT ![c] = "drop"] /\ UNCHANGED <<want, cur, tries>>
        BY <2>11, <3>2 DEF AfterRefusal
      <4>. QED BY <3>1, <4>1
    <3>3. CASE ~dead[cur[c]]
      <4>1. Return(c)
        BY <2>11, <3>3 DEF AfterRefusal
      <4>. QED BY <3>1, <4>1 DEF Return
    <3>. QED BY <3>2, <3>3
  <2>12. CASE Broken(c)
    <3>1. /\ pc[c] \in {"reading", "loading"}
          /\ UNCHANGED <<poolVars, holds, proc, closed, tmp, want, cur>> /\ MarkDead(cur[c])
      BY <2>12 DEF Broken
    <3>2. CASE pc[c] = "loading"
      <4>1. LoadFails(c)
        BY <2>12, <3>2 DEF Broken
      <4>. QED BY <3>1, <3>2, <4>1 DEF MarkDead, LoadFails
    <3>3. CASE pc[c] # "loading"
      <4>1. pc' = [pc EXCEPT ![c] = "drop"] /\ UNCHANGED tries
        BY <2>12, <3>3 DEF Broken
      <4>. QED BY <3>1, <3>3, <4>1 DEF MarkDead
    <3>. QED BY <3>2, <3>3
  <2>13. CASE Drop(c)
    BY <2>13 DEF Drop
  <2>14. CASE CloseThen(c)
    <3>1. /\ pc[c] = "closing" /\ Close(cur[c])
          /\ UNCHANGED <<poolVars, holds, proc, lock, asked, tmp>>
      BY <2>14 DEF CloseThen
    <3>c. /\ cur[c] \in Session /\ lock[cur[c]] = None
          /\ dead' = [dead EXCEPT ![cur[c]] = TRUE]
          /\ closed' \in [Session -> BOOLEAN]
          /\ closed[cur[c]] => closed'[cur[c]]
          /\ \A t \in Session \ {cur[c]} : closed'[t] = closed[t]
      BY <3>1, CloseEffect DEF ControlInv, Holding, Working
    <3>2. CASE tries[c] > 0
      <4>1. /\ pc' = [pc EXCEPT ![c] = "acquire"]
            /\ cur' = [cur EXCEPT ![c] = None]
            /\ UNCHANGED <<want, tries>>
        BY <2>14, <3>2 DEF CloseThen
      <4>. QED BY <3>1, <3>c, <3>2, <4>1
    <3>3. CASE ~(tries[c] > 0)
      <4>1. Return(c)
        BY <2>14, <3>3 DEF CloseThen
      <4>. QED BY <3>1, <3>c, <4>1 DEF Return
    <3>. QED BY <3>2, <3>3
  <2>. QED
    BY <1>1, <2>1, <2>2, <2>3, <2>4, <2>5, <2>6, <2>7, <2>8, <2>9, <2>10, <2>11, <2>12, <2>13, <2>14 DEF Step
<1>2. ASSUME NEW c \in Caller, NEW r \in Ref, Call(c, r) PROVE LifeInv'
  BY <1>2 DEF Call
<1>3. ASSUME NEW c \in Caller, NEW r \in Ref, CloseFile(c, r) PROVE LifeInv'
  BY <1>3 DEF CloseFile
<1>4. ASSUME NEW s \in Session, CloseRetired(s) PROVE LifeInv'
  BY <1>4, CloseEffect DEF CloseRetired
<1>5. ASSUME NEW s \in Session, Crash(s) PROVE LifeInv'
  BY <1>5 DEF Crash
<1>6. ASSUME NEW s \in Session, End(s) PROVE LifeInv'
  BY <1>6 DEF End
<1>7. ASSUME NEW gone \in SUBSET Open, Reap(gone) PROVE LifeInv'
  BY <1>7 DEF Reap, Retire, Open
<1>8. CASE UNCHANGED vars
  BY <1>8
<1>. QED BY <1>1, <1>2, <1>3, <1>4, <1>5, <1>6, <1>7, <1>8 DEF Next

\* Only what was spawned is published, retired or given a merge (pool.spawn).
LEMMA UnbornStep ==
  ASSUME TypeOK, ControlInv, LockInv, UnbornInv, TypeOK', [Next]_vars
  PROVE  UnbornInv'
<1> USE PoolAssumption DEF TypeOK, ControlInv, UnbornInv, Published, Holding, Working, poolVars, sessionVars, callerVars, vars, Goto
<1>1. ASSUME NEW c \in Caller, Step(c) PROVE UnbornInv'
  <2>1. CASE AcquireHit(c)
    BY <2>1 DEF AcquireHit, Touch, Usable
  <2>2. CASE AcquireMiss(c)
    BY <2>2 DEF AcquireMiss, Retire, Usable, Open
  <2>3. CASE SpawnFails(c)
    BY <2>3 DEF SpawnFails, Return
  <2>4. CASE \E s \in Session : Spawn(c, s)
    BY <2>4 DEF Spawn, Touch
  <2>5. CASE Loaded(c)
    <3>1. /\ pc[c] = "loading" /\ pc' = [pc EXCEPT ![c] = "do"]
          /\ UNCHANGED <<holds, proc, dead, closed, tmp, newer, want, tries>>
          /\ lock' = [lock EXCEPT ![cur[c]] = None]
          /\ asked' = [asked EXCEPT ![cur[c]] = <<>>]
      BY <2>5, ReadClears DEF Loaded
    <3>2. CASE Usable(want[c])
      <4>1. cur' = [cur EXCEPT ![c] = live[want[c]]] /\ live' = live /\ retiring' = retiring \cup {cur[c]}
        BY <2>5, <3>2 DEF Loaded, Discard
      <4>. QED BY <3>1, <3>2, <4>1 DEF Usable
    <3>3. CASE ~Usable(want[c])
      <4>1. live' = [live EXCEPT ![want[c]] = cur[c]] /\ UNCHANGED <<retiring, cur>>
        BY <2>5, <3>3 DEF Loaded
      <4>. QED BY <3>1, <3>3, <4>1 DEF Usable
    <3>. QED BY <3>2, <3>3
  <2>6. CASE LoadRefused(c)
    <3>1. /\ pc[c] \in {"loading", "reading"}
          /\ asked' = [asked EXCEPT ![cur[c]] = <<>>]
          /\ lock' = [lock EXCEPT ![cur[c]] = None]
          /\ UNCHANGED <<holds, proc, dead, closed, tmp>>
      BY <2>6, ReadClears DEF LoadRefused
    <3>. QED BY <2>6, <3>1 DEF LoadRefused, LoadFails
  <2>7. CASE Ask(c)
    BY <2>7 DEF Ask, Touch
  <2>8. CASE AskDead(c)
    BY <2>8 DEF AskDead
  <2>9. CASE Answered(c)
    <3>1. /\ pc[c] \in {"loading", "reading"}
          /\ asked' = [asked EXCEPT ![cur[c]] = <<>>]
          /\ lock' = [lock EXCEPT ![cur[c]] = None]
          /\ UNCHANGED <<holds, proc, dead, closed, tmp>>
      BY <2>9, ReadClears DEF Answered
    <3>. QED BY <2>9, <3>1 DEF Answered, Return
  <2>10. CASE Refused(c)
    <3>1. /\ pc[c] \in {"loading", "reading"}
          /\ asked' = [asked EXCEPT ![cur[c]] = <<>>]
          /\ lock' = [lock EXCEPT ![cur[c]] = None]
          /\ UNCHANGED <<holds, proc, dead, closed, tmp>>
      BY <2>10, ReadClears DEF Refused
    <3>. QED BY <2>10, <3>1 DEF Refused
  <2>11. CASE AfterRefusal(c)
    <3>1. pc[c] = "refused" /\ UNCHANGED <<poolVars, sessionVars, tmp>>
      BY <2>11 DEF AfterRefusal
    <3>2. CASE dead[cur[c]]
      <4>1. pc' = [pc EXCEPT ![c] = "drop"] /\ UNCHANGED <<want, cur, tries>>
        BY <2>11, <3>2 DEF AfterRefusal
      <4>. QED BY <3>1, <4>1
    <3>3. CASE ~dead[cur[c]]
      <4>1. Return(c)
        BY <2>11, <3>3 DEF AfterRefusal
      <4>. QED BY <3>1, <4>1 DEF Return
    <3>. QED BY <3>2, <3>3
  <2>12. CASE Broken(c)
    <3>1. /\ pc[c] \in {"reading", "loading"}
          /\ UNCHANGED <<poolVars, holds, proc, closed, tmp, want, cur>> /\ MarkDead(cur[c])
      BY <2>12 DEF Broken
    <3>2. CASE pc[c] = "loading"
      <4>1. LoadFails(c)
        BY <2>12, <3>2 DEF Broken
      <4>. QED BY <3>1, <3>2, <4>1 DEF MarkDead, LoadFails
    <3>3. CASE pc[c] # "loading"
      <4>1. pc' = [pc EXCEPT ![c] = "drop"] /\ UNCHANGED tries
        BY <2>12, <3>3 DEF Broken
      <4>. QED BY <3>1, <3>3, <4>1 DEF MarkDead
    <3>. QED BY <3>2, <3>3
  <2>13. CASE Drop(c)
    BY <2>13 DEF Drop
  <2>14. CASE CloseThen(c)
    <3>1. /\ pc[c] = "closing" /\ Close(cur[c])
          /\ UNCHANGED <<poolVars, holds, proc, lock, asked, tmp>>
      BY <2>14 DEF CloseThen
    <3>c. /\ cur[c] \in Session /\ lock[cur[c]] = None
          /\ dead' = [dead EXCEPT ![cur[c]] = TRUE]
          /\ closed' \in [Session -> BOOLEAN]
          /\ closed[cur[c]] => closed'[cur[c]]
          /\ \A t \in Session \ {cur[c]} : closed'[t] = closed[t]
      BY <3>1, CloseEffect DEF ControlInv, Holding, Working
    <3>2. CASE tries[c] > 0
      <4>1. /\ pc' = [pc EXCEPT ![c] = "acquire"]
            /\ cur' = [cur EXCEPT ![c] = None]
            /\ UNCHANGED <<want, tries>>
        BY <2>14, <3>2 DEF CloseThen
      <4>. QED BY <3>1, <3>c, <3>2, <4>1
    <3>3. CASE ~(tries[c] > 0)
      <4>1. Return(c)
        BY <2>14, <3>3 DEF CloseThen
      <4>. QED BY <3>1, <3>c, <4>1 DEF Return
    <3>. QED BY <3>2, <3>3
  <2>. QED
    BY <1>1, <2>1, <2>2, <2>3, <2>4, <2>5, <2>6, <2>7, <2>8, <2>9, <2>10, <2>11, <2>12, <2>13, <2>14 DEF Step
<1>2. ASSUME NEW c \in Caller, NEW r \in Ref, Call(c, r) PROVE UnbornInv'
  BY <1>2 DEF Call
<1>3. ASSUME NEW c \in Caller, NEW r \in Ref, CloseFile(c, r) PROVE UnbornInv'
  BY <1>3 DEF CloseFile
<1>4. ASSUME NEW s \in Session, CloseRetired(s) PROVE UnbornInv'
  BY <1>4, CloseEffect DEF CloseRetired
<1>5. ASSUME NEW s \in Session, Crash(s) PROVE UnbornInv'
  BY <1>5 DEF Crash
<1>6. ASSUME NEW s \in Session, End(s) PROVE UnbornInv'
  BY <1>6 DEF End
<1>7. ASSUME NEW gone \in SUBSET Open, Reap(gone) PROVE UnbornInv'
  BY <1>7 DEF Reap, Retire, Open
<1>8. CASE UNCHANGED vars
  BY <1>8
<1>. QED BY <1>1, <1>2, <1>3, <1>4, <1>5, <1>6, <1>7, <1>8 DEF Next

\* A session stays with the reference it was spawned for (pool.acquire).
LEMMA HoldsStep ==
  ASSUME TypeOK, ControlInv, LockInv, UnbornInv, HoldsInv, TypeOK', [Next]_vars
  PROVE  HoldsInv'
<1> USE PoolAssumption DEF TypeOK, ControlInv, UnbornInv, Published, HoldsInv, AnswersOwnCapture, Holding, Working, poolVars, sessionVars, callerVars, vars, Goto
<1>1. ASSUME NEW c \in Caller, Step(c) PROVE HoldsInv'
  <2>1. CASE AcquireHit(c)
    BY <2>1 DEF AcquireHit, Touch, Usable
  <2>2. CASE AcquireMiss(c)
    BY <2>2 DEF AcquireMiss, Retire, Usable, Open
  <2>3. CASE SpawnFails(c)
    BY <2>3 DEF SpawnFails, Return
  <2>4. CASE \E s \in Session : Spawn(c, s)
    BY <2>4 DEF Spawn, Touch
  <2>5. CASE Loaded(c)
    <3>1. /\ pc[c] = "loading" /\ pc' = [pc EXCEPT ![c] = "do"]
          /\ UNCHANGED <<holds, proc, dead, closed, tmp, newer, want, tries>>
          /\ lock' = [lock EXCEPT ![cur[c]] = None]
          /\ asked' = [asked EXCEPT ![cur[c]] = <<>>]
      BY <2>5, ReadClears DEF Loaded
    <3>2. CASE Usable(want[c])
      <4>1. cur' = [cur EXCEPT ![c] = live[want[c]]] /\ live' = live /\ retiring' = retiring \cup {cur[c]}
        BY <2>5, <3>2 DEF Loaded, Discard
      <4>. QED BY <3>1, <3>2, <4>1 DEF Usable
    <3>3. CASE ~Usable(want[c])
      <4>1. live' = [live EXCEPT ![want[c]] = cur[c]] /\ UNCHANGED <<retiring, cur>>
        BY <2>5, <3>3 DEF Loaded
      <4>. QED BY <3>1, <3>3, <4>1 DEF Usable
    <3>. QED BY <3>2, <3>3
  <2>6. CASE LoadRefused(c)
    <3>1. /\ pc[c] \in {"loading", "reading"}
          /\ asked' = [asked EXCEPT ![cur[c]] = <<>>]
          /\ lock' = [lock EXCEPT ![cur[c]] = None]
          /\ UNCHANGED <<holds, proc, dead, closed, tmp>>
      BY <2>6, ReadClears DEF LoadRefused
    <3>. QED BY <2>6, <3>1 DEF LoadRefused, LoadFails
  <2>7. CASE Ask(c)
    BY <2>7 DEF Ask, Touch
  <2>8. CASE AskDead(c)
    BY <2>8 DEF AskDead
  <2>9. CASE Answered(c)
    <3>1. /\ pc[c] \in {"loading", "reading"}
          /\ asked' = [asked EXCEPT ![cur[c]] = <<>>]
          /\ lock' = [lock EXCEPT ![cur[c]] = None]
          /\ UNCHANGED <<holds, proc, dead, closed, tmp>>
      BY <2>9, ReadClears DEF Answered
    <3>. QED BY <2>9, <3>1 DEF Answered, Return
  <2>10. CASE Refused(c)
    <3>1. /\ pc[c] \in {"loading", "reading"}
          /\ asked' = [asked EXCEPT ![cur[c]] = <<>>]
          /\ lock' = [lock EXCEPT ![cur[c]] = None]
          /\ UNCHANGED <<holds, proc, dead, closed, tmp>>
      BY <2>10, ReadClears DEF Refused
    <3>. QED BY <2>10, <3>1 DEF Refused
  <2>11. CASE AfterRefusal(c)
    <3>1. pc[c] = "refused" /\ UNCHANGED <<poolVars, sessionVars, tmp>>
      BY <2>11 DEF AfterRefusal
    <3>2. CASE dead[cur[c]]
      <4>1. pc' = [pc EXCEPT ![c] = "drop"] /\ UNCHANGED <<want, cur, tries>>
        BY <2>11, <3>2 DEF AfterRefusal
      <4>. QED BY <3>1, <4>1
    <3>3. CASE ~dead[cur[c]]
      <4>1. Return(c)
        BY <2>11, <3>3 DEF AfterRefusal
      <4>. QED BY <3>1, <4>1 DEF Return
    <3>. QED BY <3>2, <3>3
  <2>12. CASE Broken(c)
    <3>1. /\ pc[c] \in {"reading", "loading"}
          /\ UNCHANGED <<poolVars, holds, proc, closed, tmp, want, cur>> /\ MarkDead(cur[c])
      BY <2>12 DEF Broken
    <3>2. CASE pc[c] = "loading"
      <4>1. LoadFails(c)
        BY <2>12, <3>2 DEF Broken
      <4>. QED BY <3>1, <3>2, <4>1 DEF MarkDead, LoadFails
    <3>3. CASE pc[c] # "loading"
      <4>1. pc' = [pc EXCEPT ![c] = "drop"] /\ UNCHANGED tries
        BY <2>12, <3>3 DEF Broken
      <4>. QED BY <3>1, <3>3, <4>1 DEF MarkDead
    <3>. QED BY <3>2, <3>3
  <2>13. CASE Drop(c)
    BY <2>13 DEF Drop
  <2>14. CASE CloseThen(c)
    <3>1. /\ pc[c] = "closing" /\ Close(cur[c])
          /\ UNCHANGED <<poolVars, holds, proc, lock, asked, tmp>>
      BY <2>14 DEF CloseThen
    <3>c. /\ cur[c] \in Session /\ lock[cur[c]] = None
          /\ dead' = [dead EXCEPT ![cur[c]] = TRUE]
          /\ closed' \in [Session -> BOOLEAN]
          /\ closed[cur[c]] => closed'[cur[c]]
          /\ \A t \in Session \ {cur[c]} : closed'[t] = closed[t]
      BY <3>1, CloseEffect DEF ControlInv, Holding, Working
    <3>2. CASE tries[c] > 0
      <4>1. /\ pc' = [pc EXCEPT ![c] = "acquire"]
            /\ cur' = [cur EXCEPT ![c] = None]
            /\ UNCHANGED <<want, tries>>
        BY <2>14, <3>2 DEF CloseThen
      <4>. QED BY <3>1, <3>c, <3>2, <4>1
    <3>3. CASE ~(tries[c] > 0)
      <4>1. Return(c)
        BY <2>14, <3>3 DEF CloseThen
      <4>. QED BY <3>1, <3>c, <4>1 DEF Return
    <3>. QED BY <3>2, <3>3
  <2>. QED
    BY <1>1, <2>1, <2>2, <2>3, <2>4, <2>5, <2>6, <2>7, <2>8, <2>9, <2>10, <2>11, <2>12, <2>13, <2>14 DEF Step
<1>2. ASSUME NEW c \in Caller, NEW r \in Ref, Call(c, r) PROVE HoldsInv'
  BY <1>2 DEF Call
<1>3. ASSUME NEW c \in Caller, NEW r \in Ref, CloseFile(c, r) PROVE HoldsInv'
  BY <1>3 DEF CloseFile
<1>4. ASSUME NEW s \in Session, CloseRetired(s) PROVE HoldsInv'
  BY <1>4, CloseEffect DEF CloseRetired
<1>5. ASSUME NEW s \in Session, Crash(s) PROVE HoldsInv'
  BY <1>5 DEF Crash
<1>6. ASSUME NEW s \in Session, End(s) PROVE HoldsInv'
  BY <1>6 DEF End
<1>7. ASSUME NEW gone \in SUBSET Open, Reap(gone) PROVE HoldsInv'
  BY <1>7 DEF Reap, Retire, Open
<1>8. CASE UNCHANGED vars
  BY <1>8
<1>. QED BY <1>1, <1>2, <1>3, <1>4, <1>5, <1>6, <1>7, <1>8 DEF Next

\* Nobody else meets a session while it loads (pool.acquire publishes after spawn).
LEMMA LoadingStep ==
  ASSUME TypeOK, ControlInv, LockInv, UnbornInv, LoadingInv, TypeOK', [Next]_vars
  PROVE  LoadingInv'
<1> USE PoolAssumption DEF TypeOK, ControlInv, LockInv, UnbornInv, LoadingInv, Published, Holding, Working, poolVars, sessionVars, callerVars, vars, Goto
<1>1. ASSUME NEW c \in Caller, Step(c) PROVE LoadingInv'
  <2>1. CASE AcquireHit(c)
    BY <2>1 DEF AcquireHit, Touch, Usable
  <2>2. CASE AcquireMiss(c)
    BY <2>2 DEF AcquireMiss, Retire, Usable, Open
  <2>3. CASE SpawnFails(c)
    BY <2>3 DEF SpawnFails, Return
  <2>4. CASE \E s \in Session : Spawn(c, s)
    BY <2>4 DEF Spawn, Touch
  <2>5. CASE Loaded(c)
    <3>1. /\ pc[c] = "loading" /\ pc' = [pc EXCEPT ![c] = "do"]
          /\ UNCHANGED <<holds, proc, dead, closed, tmp, newer, want, tries>>
          /\ lock' = [lock EXCEPT ![cur[c]] = None]
          /\ asked' = [asked EXCEPT ![cur[c]] = <<>>]
      BY <2>5, ReadClears DEF Loaded
    <3>2. CASE Usable(want[c])
      <4>1. cur' = [cur EXCEPT ![c] = live[want[c]]] /\ live' = live /\ retiring' = retiring \cup {cur[c]}
        BY <2>5, <3>2 DEF Loaded, Discard
      <4>. QED BY <3>1, <3>2, <4>1 DEF Usable
    <3>3. CASE ~Usable(want[c])
      <4>1. live' = [live EXCEPT ![want[c]] = cur[c]] /\ UNCHANGED <<retiring, cur>>
        BY <2>5, <3>3 DEF Loaded
      <4>. QED BY <3>1, <3>3, <4>1 DEF Usable
    <3>. QED BY <3>2, <3>3
  <2>6. CASE LoadRefused(c)
    <3>1. /\ pc[c] \in {"loading", "reading"}
          /\ asked' = [asked EXCEPT ![cur[c]] = <<>>]
          /\ lock' = [lock EXCEPT ![cur[c]] = None]
          /\ UNCHANGED <<holds, proc, dead, closed, tmp>>
      BY <2>6, ReadClears DEF LoadRefused
    <3>. QED BY <2>6, <3>1 DEF LoadRefused, LoadFails
  <2>7. CASE Ask(c)
    BY <2>7 DEF Ask, Touch
  <2>8. CASE AskDead(c)
    BY <2>8 DEF AskDead
  <2>9. CASE Answered(c)
    <3>1. /\ pc[c] \in {"loading", "reading"}
          /\ asked' = [asked EXCEPT ![cur[c]] = <<>>]
          /\ lock' = [lock EXCEPT ![cur[c]] = None]
          /\ UNCHANGED <<holds, proc, dead, closed, tmp>>
      BY <2>9, ReadClears DEF Answered
    <3>. QED BY <2>9, <3>1 DEF Answered, Return
  <2>10. CASE Refused(c)
    <3>1. /\ pc[c] \in {"loading", "reading"}
          /\ asked' = [asked EXCEPT ![cur[c]] = <<>>]
          /\ lock' = [lock EXCEPT ![cur[c]] = None]
          /\ UNCHANGED <<holds, proc, dead, closed, tmp>>
      BY <2>10, ReadClears DEF Refused
    <3>. QED BY <2>10, <3>1 DEF Refused
  <2>11. CASE AfterRefusal(c)
    <3>1. pc[c] = "refused" /\ UNCHANGED <<poolVars, sessionVars, tmp>>
      BY <2>11 DEF AfterRefusal
    <3>2. CASE dead[cur[c]]
      <4>1. pc' = [pc EXCEPT ![c] = "drop"] /\ UNCHANGED <<want, cur, tries>>
        BY <2>11, <3>2 DEF AfterRefusal
      <4>. QED BY <3>1, <4>1
    <3>3. CASE ~dead[cur[c]]
      <4>1. Return(c)
        BY <2>11, <3>3 DEF AfterRefusal
      <4>. QED BY <3>1, <4>1 DEF Return
    <3>. QED BY <3>2, <3>3
  <2>12. CASE Broken(c)
    <3>1. /\ pc[c] \in {"reading", "loading"}
          /\ UNCHANGED <<poolVars, holds, proc, closed, tmp, want, cur>> /\ MarkDead(cur[c])
      BY <2>12 DEF Broken
    <3>2. CASE pc[c] = "loading"
      <4>1. LoadFails(c)
        BY <2>12, <3>2 DEF Broken
      <4>. QED BY <3>1, <3>2, <4>1 DEF MarkDead, LoadFails
    <3>3. CASE pc[c] # "loading"
      <4>1. pc' = [pc EXCEPT ![c] = "drop"] /\ UNCHANGED tries
        BY <2>12, <3>3 DEF Broken
      <4>. QED BY <3>1, <3>3, <4>1 DEF MarkDead
    <3>. QED BY <3>2, <3>3
  <2>13. CASE Drop(c)
    BY <2>13 DEF Drop
  <2>14. CASE CloseThen(c)
    <3>1. /\ pc[c] = "closing" /\ Close(cur[c])
          /\ UNCHANGED <<poolVars, holds, proc, lock, asked, tmp>>
      BY <2>14 DEF CloseThen
    <3>c. /\ cur[c] \in Session /\ lock[cur[c]] = None
          /\ dead' = [dead EXCEPT ![cur[c]] = TRUE]
          /\ closed' \in [Session -> BOOLEAN]
          /\ closed[cur[c]] => closed'[cur[c]]
          /\ \A t \in Session \ {cur[c]} : closed'[t] = closed[t]
      BY <3>1, CloseEffect DEF ControlInv, Holding, Working
    <3>2. CASE tries[c] > 0
      <4>1. /\ pc' = [pc EXCEPT ![c] = "acquire"]
            /\ cur' = [cur EXCEPT ![c] = None]
            /\ UNCHANGED <<want, tries>>
        BY <2>14, <3>2 DEF CloseThen
      <4>. QED BY <3>1, <3>c, <3>2, <4>1
    <3>3. CASE ~(tries[c] > 0)
      <4>1. Return(c)
        BY <2>14, <3>3 DEF CloseThen
      <4>. QED BY <3>1, <3>c, <4>1 DEF Return
    <3>. QED BY <3>2, <3>3
  <2>. QED
    BY <1>1, <2>1, <2>2, <2>3, <2>4, <2>5, <2>6, <2>7, <2>8, <2>9, <2>10, <2>11, <2>12, <2>13, <2>14 DEF Step
<1>2. ASSUME NEW c \in Caller, NEW r \in Ref, Call(c, r) PROVE LoadingInv'
  BY <1>2 DEF Call
<1>3. ASSUME NEW c \in Caller, NEW r \in Ref, CloseFile(c, r) PROVE LoadingInv'
  BY <1>3 DEF CloseFile
<1>4. ASSUME NEW s \in Session, CloseRetired(s) PROVE LoadingInv'
  BY <1>4, CloseEffect DEF CloseRetired
<1>5. ASSUME NEW s \in Session, Crash(s) PROVE LoadingInv'
  BY <1>5 DEF Crash
<1>6. ASSUME NEW s \in Session, End(s) PROVE LoadingInv'
  BY <1>6 DEF End
<1>7. ASSUME NEW gone \in SUBSET Open, Reap(gone) PROVE LoadingInv'
  BY <1>7 DEF Reap, Retire, Open
<1>8. CASE UNCHANGED vars
  BY <1>8
<1>. QED BY <1>1, <1>2, <1>3, <1>4, <1>5, <1>6, <1>7, <1>8 DEF Next

\* A session stays owned where its owner lets go of nothing.
LEMMA OwnedStays ==
  ASSUME NEW s, Owned(s),
         \A r \in Ref : live[r] = s => live'[r] = s \/ s \in retiring',
         retiring \subseteq retiring',
         \A d \in Caller : cur[d] = s /\ pc[d] \in InHand => cur'[d] = s /\ pc'[d] \in InHand
  PROVE  Owned(s)'
BY DEF Owned

\* Whoever lets go of a session passes it on or has it closed (pool.acquire, pool.drop).
LEMMA NoneLostStep ==
  ASSUME TypeOK, ControlInv, LockInv, NoneLost, [Next]_vars
  PROVE  NoneLost'
<1> USE PoolAssumption DEF TypeOK, InHand, poolVars, sessionVars, callerVars, vars, Goto
<1> SUFFICES ASSUME NEW s \in Session, proc'[s] # "unborn", ~dead'[s]
             PROVE  Owned(s)'
  BY DEF NoneLost
<1>1. ASSUME NEW c \in Caller, Step(c) PROVE Owned(s)'
  <2>1. CASE AcquireHit(c)
    BY <2>1, OwnedStays DEF NoneLost, AcquireHit
  <2>2. CASE AcquireMiss(c)
    <3>1. PICK gone \in SUBSET Open : Retire(gone)
      BY <2>2 DEF AcquireMiss
    <3>2. \A r \in Ref : live[r] = s => live'[r] = s \/ s \in retiring'
      BY <3>1 DEF Retire, Open
    <3>. QED BY <2>2, <3>1, <3>2, OwnedStays DEF NoneLost, AcquireMiss, Retire
  <2>3. CASE SpawnFails(c)
    BY <2>3, OwnedStays DEF NoneLost, SpawnFails, Return
  <2>4. CASE \E t \in Session : Spawn(c, t)
    <3>1. PICK t \in Session : Spawn(c, t)
      BY <2>4
    <3>2. CASE s = t
      BY <3>1, <3>2 DEF Spawn, Owned
    <3>3. CASE s # t
      BY <3>1, <3>3, OwnedStays DEF NoneLost, Spawn
    <3>. QED BY <3>2, <3>3
  <2>5. CASE Loaded(c)
    <3>1. CASE s = cur[c]
      BY <2>5, <3>1 DEF Loaded, Discard, ControlInv, Working, Owned
    <3>2. CASE s # cur[c]
      <4>1. Owned(s) /\ ~dead[s]
        BY <2>5 DEF NoneLost, Loaded, ReadAnswer
      <4>2. \A r \in Ref : live[r] = s => live'[r] = s
        BY <2>5, <4>1 DEF Loaded, Usable
      <4>. QED BY <2>5, <3>2, <4>1, <4>2, OwnedStays DEF Loaded, Discard
    <3>. QED BY <3>1, <3>2
  <2>6. CASE LoadRefused(c)
    BY <2>6, OwnedStays DEF NoneLost, LoadRefused, LoadFails, ReadAnswer
  <2>7. CASE Ask(c)
    BY <2>7, OwnedStays DEF NoneLost, Ask
  <2>8. CASE AskDead(c)
    BY <2>8, OwnedStays DEF NoneLost, AskDead
  <2>9. CASE Answered(c)
    BY <2>9, OwnedStays DEF NoneLost, Answered, ReadAnswer, Return
  <2>10. CASE Refused(c)
    BY <2>10, OwnedStays DEF NoneLost, Refused, ReadAnswer
  <2>11. CASE AfterRefusal(c)
    BY <2>11, OwnedStays DEF NoneLost, AfterRefusal, Return
  <2>12. CASE Broken(c)
    <3>1. cur[c] \in Session
      BY <2>12 DEF Broken, ControlInv, Holding, Working
    <3>2. s # cur[c]
      BY <2>12, <3>1 DEF Broken, MarkDead
    <3>. QED BY <2>12, <3>1, <3>2, OwnedStays DEF NoneLost, Broken, MarkDead, LoadFails
  <2>13. CASE Drop(c)
    <3>1. CASE s = cur[c]
      BY <2>13, <3>1 DEF Drop, Owned
    <3>2. CASE s # cur[c]
      BY <2>13, <3>2, OwnedStays DEF NoneLost, Drop
    <3>. QED BY <3>1, <3>2
  <2>14. CASE CloseThen(c)
    <3>1. cur[c] \in Session
      BY <2>14 DEF CloseThen, ControlInv, Holding, Working
    <3>2. s # cur[c] /\ dead'[s] = dead[s]
      BY <2>14, <3>1, CloseEffect DEF CloseThen
    <3>3. Owned(s)
      BY <2>14, <3>2 DEF NoneLost, CloseThen
    <3>. QED BY <2>14, <3>2, <3>3, OwnedStays DEF CloseThen, Return
  <2>. QED
    BY <1>1, <2>1, <2>2, <2>3, <2>4, <2>5, <2>6, <2>7, <2>8, <2>9, <2>10, <2>11, <2>12, <2>13, <2>14 DEF Step
<1>2. ASSUME NEW c \in Caller, NEW r \in Ref, Call(c, r) PROVE Owned(s)'
  BY <1>2, OwnedStays DEF NoneLost, Call
<1>3. ASSUME NEW c \in Caller, NEW r \in Ref, CloseFile(c, r) PROVE Owned(s)'
  <2>1. CASE s = live[r]
    BY <1>3, <2>1 DEF CloseFile, Owned
  <2>2. CASE s # live[r]
    BY <1>3, <2>2, OwnedStays DEF NoneLost, CloseFile
  <2>. QED BY <2>1, <2>2
<1>4. ASSUME NEW t \in Session, CloseRetired(t) PROVE Owned(s)'
  <2>1. s # t /\ dead'[s] = dead[s]
    BY <1>4, CloseEffect DEF CloseRetired
  <2>2. Owned(s)
    BY <1>4, <2>1 DEF NoneLost, CloseRetired
  <2>. QED BY <1>4, <2>1, <2>2 DEF CloseRetired, Owned
<1>5. ASSUME NEW t \in Session, Crash(t) PROVE Owned(s)'
  BY <1>5, OwnedStays DEF NoneLost, Crash
<1>6. ASSUME NEW t \in Session, End(t) PROVE Owned(s)'
  BY <1>6, OwnedStays DEF NoneLost, End
<1>7. ASSUME NEW gone \in SUBSET Open, Reap(gone) PROVE Owned(s)'
  BY <1>7, OwnedStays DEF NoneLost, Reap, Retire
<1>8. CASE UNCHANGED vars
  BY <1>8, OwnedStays DEF NoneLost
<1>. QED BY <1>1, <1>2, <1>3, <1>4, <1>5, <1>6, <1>7, <1>8 DEF Next

\* A merge goes only with a process that has been waited for (session.close).
LEMMA MergeStep ==
  ASSUME TypeOK, ControlInv, LockInv, UnbornInv, MergeOutlivesReader, TypeOK', [Next]_vars
  PROVE  MergeOutlivesReader'
<1> USE PoolAssumption DEF TypeOK, ControlInv, UnbornInv, MergeOutlivesReader, Holding, Working, poolVars, sessionVars, callerVars, vars, Goto
<1>1. ASSUME NEW c \in Caller, Step(c) PROVE MergeOutlivesReader'
  <2>1. CASE AcquireHit(c)
    BY <2>1 DEF AcquireHit, Touch, Usable
  <2>2. CASE AcquireMiss(c)
    BY <2>2 DEF AcquireMiss, Retire, Usable, Open
  <2>3. CASE SpawnFails(c)
    BY <2>3 DEF SpawnFails, Return
  <2>4. CASE \E s \in Session : Spawn(c, s)
    BY <2>4 DEF Spawn, Touch
  <2>5. CASE Loaded(c)
    <3>1. /\ pc[c] = "loading" /\ pc' = [pc EXCEPT ![c] = "do"]
          /\ UNCHANGED <<holds, proc, dead, closed, tmp, newer, want, tries>>
          /\ lock' = [lock EXCEPT ![cur[c]] = None]
          /\ asked' = [asked EXCEPT ![cur[c]] = <<>>]
      BY <2>5, ReadClears DEF Loaded
    <3>2. CASE Usable(want[c])
      <4>1. cur' = [cur EXCEPT ![c] = live[want[c]]] /\ live' = live /\ retiring' = retiring \cup {cur[c]}
        BY <2>5, <3>2 DEF Loaded, Discard
      <4>. QED BY <3>1, <3>2, <4>1 DEF Usable
    <3>3. CASE ~Usable(want[c])
      <4>1. live' = [live EXCEPT ![want[c]] = cur[c]] /\ UNCHANGED <<retiring, cur>>
        BY <2>5, <3>3 DEF Loaded
      <4>. QED BY <3>1, <3>3, <4>1 DEF Usable
    <3>. QED BY <3>2, <3>3
  <2>6. CASE LoadRefused(c)
    <3>1. /\ pc[c] \in {"loading", "reading"}
          /\ asked' = [asked EXCEPT ![cur[c]] = <<>>]
          /\ lock' = [lock EXCEPT ![cur[c]] = None]
          /\ UNCHANGED <<holds, proc, dead, closed, tmp>>
      BY <2>6, ReadClears DEF LoadRefused
    <3>. QED BY <2>6, <3>1 DEF LoadRefused, LoadFails
  <2>7. CASE Ask(c)
    BY <2>7 DEF Ask, Touch
  <2>8. CASE AskDead(c)
    BY <2>8 DEF AskDead
  <2>9. CASE Answered(c)
    <3>1. /\ pc[c] \in {"loading", "reading"}
          /\ asked' = [asked EXCEPT ![cur[c]] = <<>>]
          /\ lock' = [lock EXCEPT ![cur[c]] = None]
          /\ UNCHANGED <<holds, proc, dead, closed, tmp>>
      BY <2>9, ReadClears DEF Answered
    <3>. QED BY <2>9, <3>1 DEF Answered, Return
  <2>10. CASE Refused(c)
    <3>1. /\ pc[c] \in {"loading", "reading"}
          /\ asked' = [asked EXCEPT ![cur[c]] = <<>>]
          /\ lock' = [lock EXCEPT ![cur[c]] = None]
          /\ UNCHANGED <<holds, proc, dead, closed, tmp>>
      BY <2>10, ReadClears DEF Refused
    <3>. QED BY <2>10, <3>1 DEF Refused
  <2>11. CASE AfterRefusal(c)
    <3>1. pc[c] = "refused" /\ UNCHANGED <<poolVars, sessionVars, tmp>>
      BY <2>11 DEF AfterRefusal
    <3>2. CASE dead[cur[c]]
      <4>1. pc' = [pc EXCEPT ![c] = "drop"] /\ UNCHANGED <<want, cur, tries>>
        BY <2>11, <3>2 DEF AfterRefusal
      <4>. QED BY <3>1, <4>1
    <3>3. CASE ~dead[cur[c]]
      <4>1. Return(c)
        BY <2>11, <3>3 DEF AfterRefusal
      <4>. QED BY <3>1, <4>1 DEF Return
    <3>. QED BY <3>2, <3>3
  <2>12. CASE Broken(c)
    <3>1. /\ pc[c] \in {"reading", "loading"}
          /\ UNCHANGED <<poolVars, holds, proc, closed, tmp, want, cur>> /\ MarkDead(cur[c])
      BY <2>12 DEF Broken
    <3>2. CASE pc[c] = "loading"
      <4>1. LoadFails(c)
        BY <2>12, <3>2 DEF Broken
      <4>. QED BY <3>1, <3>2, <4>1 DEF MarkDead, LoadFails
    <3>3. CASE pc[c] # "loading"
      <4>1. pc' = [pc EXCEPT ![c] = "drop"] /\ UNCHANGED tries
        BY <2>12, <3>3 DEF Broken
      <4>. QED BY <3>1, <3>3, <4>1 DEF MarkDead
    <3>. QED BY <3>2, <3>3
  <2>13. CASE Drop(c)
    BY <2>13 DEF Drop
  <2>14. CASE CloseThen(c)
    <3>1. /\ pc[c] = "closing" /\ Close(cur[c])
          /\ UNCHANGED <<poolVars, holds, proc, lock, asked, tmp>>
      BY <2>14 DEF CloseThen
    <3>c. /\ cur[c] \in Session /\ lock[cur[c]] = None
          /\ dead' = [dead EXCEPT ![cur[c]] = TRUE]
          /\ closed' \in [Session -> BOOLEAN]
          /\ closed[cur[c]] => closed'[cur[c]]
          /\ \A t \in Session \ {cur[c]} : closed'[t] = closed[t]
      BY <3>1, CloseEffect DEF ControlInv, Holding, Working
    <3>2. CASE tries[c] > 0
      <4>1. /\ pc' = [pc EXCEPT ![c] = "acquire"]
            /\ cur' = [cur EXCEPT ![c] = None]
            /\ UNCHANGED <<want, tries>>
        BY <2>14, <3>2 DEF CloseThen
      <4>. QED BY <3>1, <3>c, <3>2, <4>1
    <3>3. CASE ~(tries[c] > 0)
      <4>1. Return(c)
        BY <2>14, <3>3 DEF CloseThen
      <4>. QED BY <3>1, <3>c, <4>1 DEF Return
    <3>. QED BY <3>2, <3>3
  <2>. QED
    BY <1>1, <2>1, <2>2, <2>3, <2>4, <2>5, <2>6, <2>7, <2>8, <2>9, <2>10, <2>11, <2>12, <2>13, <2>14 DEF Step
<1>2. ASSUME NEW c \in Caller, NEW r \in Ref, Call(c, r) PROVE MergeOutlivesReader'
  BY <1>2 DEF Call
<1>3. ASSUME NEW c \in Caller, NEW r \in Ref, CloseFile(c, r) PROVE MergeOutlivesReader'
  BY <1>3 DEF CloseFile
<1>4. ASSUME NEW s \in Session, CloseRetired(s) PROVE MergeOutlivesReader'
  BY <1>4, CloseEffect DEF CloseRetired
<1>5. ASSUME NEW s \in Session, Crash(s) PROVE MergeOutlivesReader'
  BY <1>5 DEF Crash
<1>6. ASSUME NEW s \in Session, End(s) PROVE MergeOutlivesReader'
  BY <1>6 DEF End
<1>7. ASSUME NEW gone \in SUBSET Open, Reap(gone) PROVE MergeOutlivesReader'
  BY <1>7 DEF Reap, Retire, Open
<1>8. CASE UNCHANGED vars
  BY <1>8
<1>. QED BY <1>1, <1>2, <1>3, <1>4, <1>5, <1>6, <1>7, <1>8 DEF Next


\* An empty pool satisfies the invariant (newPool).
LEMMA InitInv == Init => IInv
BY PoolAssumption DEF Init, IInv, TypeOK, ControlInv, LockInv, LifeInv, UnbornInv, HoldsInv,
  AnswersOwnCapture, LoadingInv, NoneLost, Owned, InHand, MergeOutlivesReader, Holding, Working, Published

\* The invariant is inductive: its parts, taken together.
LEMMA StepInv == IInv /\ [Next]_vars => IInv'
BY TypeStep, ControlStep, LockStep, LifeStep, UnbornStep, HoldsStep, LoadingStep, NoneLostStep,
  MergeStep DEF IInv

\* Everything below rests on this: IInv is kept by every step of every caller, of the
\* reaper and of the processes.
THEOREM Invariance == Spec => []IInv
BY InitInv, StepInv, PTL DEF Spec

\* The types are kept: no caller counts its attempts below zero, nothing but a started
\* session is ever published.
THEOREM TypeCorrect == Spec => []TypeOK
<1>1. IInv => TypeOK
  BY DEF IInv
<1>. QED BY <1>1, Invariance, PTL

\* A request is answered from the capture it names (pool.acquire, pool.call).
THEOREM AnswersFromOwnCapture == Spec => []AnswersOwnCapture
<1>1. IInv => AnswersOwnCapture
  BY DEF IInv, HoldsInv
<1>. QED BY <1>1, Invariance, PTL

\* The line a caller reads answers the line it wrote (session.do and its mutex).
THEOREM ReadsOnlyOwnAnswer == Spec => []ReadsOwnAnswer
<1>1. IInv => ReadsOwnAnswer
  BY PoolAssumption DEF IInv, TypeOK, ControlInv, LockInv, ReadsOwnAnswer, Holding, Working
<1>. QED BY <1>1, Invariance, PTL

\* Nobody closes a sharkd under a request (session.close).
THEOREM NoCloseInFlight == Spec => []NeverClosedInFlight
<1>1. IInv => NeverClosedInFlight
  BY DEF IInv, LifeInv, NeverClosedInFlight
<1>. QED BY <1>1, Invariance, PTL

\* No working session is forgotten (pool.acquire, pool.drop).
THEOREM NoSessionLost == Spec => []NoneLost
<1>1. IInv => NoneLost
  BY DEF IInv
<1>. QED BY <1>1, Invariance, PTL

\* A merge is not removed before its reader is gone (session.close).
THEOREM MergeKept == Spec => []MergeOutlivesReader
<1>1. IInv => MergeOutlivesReader
  BY DEF IInv
<1>. QED BY <1>1, Invariance, PTL

----------------------------------------------------------------------------
(* Each of the effects a step of the pool can have on a session is a step  *)
(* of its life.                                                            *)

\* What changes neither mutex, nor process, nor merge is no step of a session's life.
LEMMA StaysPut ==
  ASSUME UNCHANGED <<lock, proc, dead, closed, tmp>>
  PROVE  UNCHANGED <<phase, busy, tmp>>
BY DEF phase, busy

\* A session starts with the load in flight (pool.spawn).
LEMMA SpawnBegins ==
  ASSUME TypeOK, LifeInv, UnbornInv, NEW c \in Caller, NEW s \in Session, Spawn(c, s)
  PROVE  Life!Begin(s)
<1>1. phase[s] = "unborn" /\ phase' = [phase EXCEPT ![s] = "open"]
  BY DEF Spawn, phase, TypeOK, UnbornInv, LifeInv
<1>2. busy' = [busy EXCEPT ![s] = TRUE]
  <2>1. lock' = [lock EXCEPT ![s] = c] /\ c # None
    BY PoolAssumption DEF Spawn
  <2>2. \A t \in Session : busy'[t] = [busy EXCEPT ![s] = TRUE][t]
    BY <2>1 DEF busy, TypeOK
  <2>. QED BY <2>2 DEF busy
<1>3. tmp' \in {tmp, tmp \cup {s}}
  BY DEF Spawn
<1>. QED BY <1>1, <1>2, <1>3 DEF Life!Begin

\* Taking the mutex of a live session puts a request in flight (session.do).
LEMMA AskRequests ==
  ASSUME TypeOK, ControlInv, LifeInv, NEW c \in Caller, Ask(c)
  PROVE  Life!Request(cur[c])
<1>0. cur[c] \in Session /\ proc[cur[c]] # "unborn"
  BY DEF Ask, ControlInv, Holding, Working
<1>1. phase[cur[c]] = "open" /\ phase' = phase
  BY <1>0 DEF Ask, phase, TypeOK, LifeInv
<1>2. ~busy[cur[c]] /\ busy' = [busy EXCEPT ![cur[c]] = TRUE]
  <2>1. lock' = [lock EXCEPT ![cur[c]] = c] /\ c # None /\ lock[cur[c]] = None
    BY PoolAssumption DEF Ask
  <2>2. \A t \in Session : busy'[t] = [busy EXCEPT ![cur[c]] = TRUE][t]
    BY <1>0, <2>1 DEF busy, TypeOK
  <2>. QED BY <1>0, <2>1, <2>2 DEF busy
<1>. QED BY <1>1, <1>2 DEF Ask, Life!Request

\* Reading the answer ends the request (session.do).
LEMMA ReadReplies ==
  ASSUME TypeOK, ControlInv, LockInv, LifeInv, NEW c \in Caller, ReadAnswer(c),
         pc[c] \in {"loading", "reading"}
  PROVE  Life!Reply(cur[c])
<1>0. cur[c] \in Session /\ lock[cur[c]] = c /\ c # None /\ proc[cur[c]] = "up"
  BY PoolAssumption DEF LockInv, ControlInv, Holding, Working, ReadAnswer
<1>1. phase[cur[c]] = "open" /\ phase' = phase
  BY <1>0 DEF ReadAnswer, phase, TypeOK, LifeInv
<1>2. busy[cur[c]] /\ busy' = [busy EXCEPT ![cur[c]] = FALSE]
  <2>1. lock' = [lock EXCEPT ![cur[c]] = None]
    BY DEF ReadAnswer
  <2>2. \A t \in Session : busy'[t] = [busy EXCEPT ![cur[c]] = FALSE][t]
    BY <1>0, <2>1 DEF busy, TypeOK
  <2>. QED BY <1>0, <2>2 DEF busy
<1>. QED BY <1>1, <1>2 DEF ReadAnswer, Life!Reply

\* A broken request ends the session's answers and frees its mutex (session.do).
LEMMA BrokenBreaks ==
  ASSUME TypeOK, ControlInv, LockInv, LifeInv, NEW c \in Caller, Broken(c)
  PROVE  Life!Break(cur[c])
<1>0. /\ cur[c] \in Session /\ lock[cur[c]] = c /\ c # None
      /\ proc[cur[c]] # "unborn"
  BY PoolAssumption DEF Broken, LockInv, ControlInv, Holding, Working
<1>1. /\ dead' = [dead EXCEPT ![cur[c]] = TRUE]
      /\ lock' = [lock EXCEPT ![cur[c]] = None]
      /\ UNCHANGED <<proc, closed, tmp>>
  BY DEF Broken, MarkDead
<1>2. phase[cur[c]] = "open" /\ phase' = [phase EXCEPT ![cur[c]] = "broken"]
  BY <1>0, <1>1 DEF phase, TypeOK, LifeInv
<1>3. busy[cur[c]] /\ busy' = [busy EXCEPT ![cur[c]] = FALSE]
  <2>1. \A t \in Session : busy'[t] = [busy EXCEPT ![cur[c]] = FALSE][t]
    BY <1>0, <1>1 DEF busy, TypeOK
  <2>. QED BY <1>0, <2>1 DEF busy
<1>. QED BY <1>1, <1>2, <1>3 DEF Life!Break

\* Closing lets go of a session, the first time (session.close).
LEMMA CloseLetsGo ==
  ASSUME TypeOK, LifeInv, NEW s \in Session, Close(s), proc[s] # "unborn",
         UNCHANGED <<lock, proc, tmp>>
  PROVE  Life!LetGo(s) \/ UNCHANGED <<phase, busy, tmp>>
<1>1. CASE dead[s]
  BY <1>1, StaysPut DEF Close
<1>2. CASE ~dead[s]
  <2>1. /\ lock[s] = None /\ dead' = [dead EXCEPT ![s] = TRUE]
        /\ closed' = [closed EXCEPT ![s] = TRUE]
    BY <1>2 DEF Close
  <2>2. phase[s] = "open" /\ phase' = [phase EXCEPT ![s] = "closed"]
    BY <1>2, <2>1 DEF phase, TypeOK, LifeInv
  <2>3. ~busy[s] /\ busy' = busy
    BY <2>1 DEF busy
  <2>. QED BY <2>2, <2>3 DEF Life!LetGo
<1>. QED BY <1>1, <1>2

\* The process waited for is the end (session.close and its goroutine).
LEMMA EndEnds ==
  ASSUME TypeOK, NEW s \in Session, End(s)
  PROVE  Life!End(s)
<1>1. phase[s] = "closed" /\ phase' = [phase EXCEPT ![s] = "ended"]
  BY DEF End, phase, TypeOK
<1>2. busy' = busy
  BY DEF End, busy, sessionVars
<1>. QED BY <1>1, <1>2 DEF End, Life!End

\* A process that dies is noticed only by the request that finds it gone.
LEMMA CrashUnnoticed ==
  ASSUME TypeOK, NEW s \in Session, Crash(s)
  PROVE  UNCHANGED <<phase, busy, tmp>>
BY DEF Crash, phase, busy, TypeOK

----------------------------------------------------------------------------

\* Every step of the pool is a step of one session's life, or of none.
LEMMA StepLives ==
  ASSUME IInv, [Next]_vars
  PROVE  [Life!Next]_(Life!vars)
<1> USE DEF IInv, poolVars, sessionVars, callerVars, vars, Life!Next, Life!vars
<1>0. Working \subseteq Holding /\ "closing" \in Holding
  BY DEF Holding
<1>1. ASSUME NEW c \in Caller, Step(c) PROVE [Life!Next]_(Life!vars)
  <2>0. pc[c] \in Holding => cur[c] \in Session /\ proc[cur[c]] # "unborn"
    BY DEF ControlInv
  <2>1. CASE AcquireHit(c) \/ AcquireMiss(c) \/ SpawnFails(c) \/ AskDead(c) \/ Drop(c)
    BY <2>1, StaysPut DEF AcquireHit, AcquireMiss, SpawnFails, AskDead, Drop
  <2>2. CASE \E s \in Session : Spawn(c, s)
    BY <2>2, SpawnBegins
  <2>3. CASE Loaded(c) \/ LoadRefused(c) \/ Answered(c) \/ Refused(c)
    <3>1. ReadAnswer(c) /\ pc[c] \in {"loading", "reading"}
      BY <2>3 DEF Loaded, LoadRefused, Answered, Refused
    <3>. QED BY <1>0, <2>0, <3>1, ReadReplies DEF Working
  <2>4. CASE Ask(c)
    <3>1. pc[c] = "do"
      BY <2>4 DEF Ask
    <3>. QED BY <1>0, <2>0, <2>4, <3>1, AskRequests DEF Working
  <2>5. CASE AfterRefusal(c)
    <3>1. UNCHANGED <<lock, proc, dead, closed, tmp>>
      BY <2>5 DEF AfterRefusal
    <3>. QED BY <3>1, StaysPut
  <2>6. CASE Broken(c)
    <3>1. pc[c] \in {"reading", "loading"}
      BY <2>6 DEF Broken
    <3>. QED BY <1>0, <2>0, <2>6, <3>1, BrokenBreaks DEF Working
  <2>7. CASE CloseThen(c)
    <3>1. pc[c] = "closing" /\ Close(cur[c]) /\ UNCHANGED <<lock, proc, tmp>>
      BY <2>7 DEF CloseThen
    <3>. QED BY <1>0, <2>0, <3>1, CloseLetsGo
  <2>. QED
    BY <1>1, <2>1, <2>2, <2>3, <2>4, <2>5, <2>6, <2>7 DEF Step
<1>2. ASSUME NEW c \in Caller, NEW r \in Ref, Call(c, r) \/ CloseFile(c, r)
      PROVE [Life!Next]_(Life!vars)
  BY <1>2, StaysPut DEF Call, CloseFile
<1>3. ASSUME NEW s \in Session, CloseRetired(s) PROVE [Life!Next]_(Life!vars)
  <2>1. Close(s) /\ proc[s] # "unborn" /\ UNCHANGED <<lock, proc, tmp>>
    BY <1>3 DEF CloseRetired, UnbornInv
  <2>. QED BY <2>1, CloseLetsGo
<1>4. ASSUME NEW s \in Session, Crash(s) PROVE [Life!Next]_(Life!vars)
  BY <1>4, CrashUnnoticed
<1>5. ASSUME NEW s \in Session, End(s) PROVE [Life!Next]_(Life!vars)
  BY <1>5, EndEnds
<1>6. ASSUME NEW gone \in SUBSET Open, Reap(gone) PROVE [Life!Next]_(Life!vars)
  BY <1>6, StaysPut DEF Reap
<1>7. CASE UNCHANGED vars
  BY <1>7, StaysPut
<1>. QED BY <1>1, <1>2, <1>3, <1>4, <1>5, <1>6, <1>7 DEF Next

\* Whatever callers, evictions, reaps and crashes do, every session goes through the
\* life SharkdSession promises: one request at a time, closed between two of them,
\* silent once broken, its merge kept until its process is gone.
THEOREM PoolImplementsLife == Spec => ImplementsLife
<1>1. Init => Life!Init
  BY DEF Init, Life!Init, phase, busy
<1>2. IInv /\ [Next]_vars => [Life!Next]_(Life!vars)
  BY StepLives
<1>. QED BY <1>1, <1>2, Invariance, PTL DEF Spec, Life!Spec, ImplementsLife

----------------------------------------------------------------------------

\* Only the end of a load publishes anything (pool.acquire): every other step leaves
\* a reference its session or takes it away.
LEMMA StepPublishes ==
  ASSUME IInv, [Next]_vars, NEW r \in Ref, live'[r] \notin {None, live[r]}
  PROVE  LET s == live'[r] IN
         /\ proc[s] = "up" /\ ~dead[s] /\ lock'[s] = None
         /\ s \notin Published \cup retiring
<1> USE DEF IInv, TypeOK, poolVars, sessionVars, callerVars, vars
<1>1. PICK c \in Caller : Loaded(c)
  <2>1. ASSUME NEW c \in Caller, ~Loaded(c), Step(c) PROVE FALSE
    BY <2>1 DEF Step, AcquireHit, AcquireMiss, Retire, SpawnFails, Spawn, LoadRefused, Ask,
      AskDead, Answered, Refused, AfterRefusal, Broken, Drop, CloseThen
  <2>2. ASSUME NEW c \in Caller, NEW q \in Ref, Call(c, q) \/ CloseFile(c, q) PROVE FALSE
    BY <2>2 DEF Call, CloseFile
  <2>3. ASSUME NEW s \in Session, CloseRetired(s) \/ Crash(s) \/ End(s) PROVE FALSE
    BY <2>3 DEF CloseRetired, Crash, End
  <2>4. ASSUME NEW gone \in SUBSET Open, Reap(gone) PROVE FALSE
    BY <2>4 DEF Reap, Retire
  <2>. QED BY <2>1, <2>2, <2>3, <2>4 DEF Next
<1>2. /\ pc[c] = "loading" /\ ReadAnswer(c)
      /\ live' = [live EXCEPT ![want[c]] = cur[c]]
  <2>1. ~Usable(want[c])
    BY <1>1 DEF Loaded
  <2>. QED BY <1>1, <2>1 DEF Loaded
<1>3. /\ cur[c] \in Session /\ lock[cur[c]] = c /\ c # None
  BY <1>2, PoolAssumption DEF ControlInv, LockInv, Holding, Working
<1>4. live'[r] = cur[c]
  BY <1>2
<1>5. proc[cur[c]] = "up" /\ ~dead[cur[c]] /\ lock'[cur[c]] = None
  BY <1>2, <1>3 DEF ReadAnswer, LifeInv
<1>6. cur[c] \notin Published \cup retiring
  BY <1>2 DEF LoadingInv
<1>. QED BY <1>4, <1>5, <1>6

\* What pool.acquire publishes has loaded, is free, and was never handed out or let
\* go before.
THEOREM PublishesOnlyNew == Spec => PublishesNewOnly
<1>1. IInv /\ [Next]_vars =>
        [\A r \in Ref : live'[r] \notin {None, live[r]} =>
           LET s == live'[r] IN
           /\ proc[s] = "up" /\ ~dead[s] /\ lock'[s] = None
           /\ s \notin Published \cup retiring]_vars
  BY StepPublishes
<1>. QED BY <1>1, Invariance, PTL DEF Spec, PublishesNewOnly

----------------------------------------------------------------------------

\* What the bound on the pool's size needs beside itself: the pool is finite.
BoundInv == IsFiniteSet(Open) /\ OvershootBound

\* A set of callers is finite, and no larger than all of them.
LEMMA FewSpawning ==
  /\ IsFiniteSet(Spawning) /\ Cardinality(Spawning) \in Nat
  /\ Cardinality(Caller) \in Nat
  /\ Cardinality(Spawning) <= Cardinality(Caller)
BY FiniteCallers, FS_Subset, FS_CardinalityType DEF Spawning

\* A pool that does not grow, with no more callers spawning, keeps the bound.
LEMMA NoGrowth ==
  ASSUME BoundInv, Open' \subseteq Open, Spawning' \subseteq Spawning
  PROVE  BoundInv'
<1>1. IsFiniteSet(Open') /\ Cardinality(Open') <= Cardinality(Open)
  BY FS_Subset DEF BoundInv
<1>2. Cardinality(Spawning') <= Cardinality(Spawning)
  BY FewSpawning, FS_Subset
<1>3. /\ Cardinality(Open) \in Nat /\ Cardinality(Open') \in Nat
      /\ Cardinality(Spawning) \in Nat /\ Cardinality(Spawning') \in Nat
  BY <1>1, FewSpawning, FS_Subset, FS_CardinalityType DEF BoundInv
<1>4. Cardinality(Open) + Cardinality(Spawning) < Max + Cardinality(Caller)
  BY DEF BoundInv, OvershootBound
<1>5. Cardinality(Open') + Cardinality(Spawning') < Max + Cardinality(Caller)
  BY <1>1, <1>2, <1>3, <1>4, FewSpawning, PoolAssumption
<1>. QED BY <1>1, <1>5 DEF BoundInv, OvershootBound

\* Room is made before a caller starts spawning, whoever else is spawning already.
LEMMA MissMakesRoom ==
  ASSUME TypeOK, BoundInv, NEW c \in Caller, AcquireMiss(c)
  PROVE  BoundInv'
<1>1. PICK gone \in SUBSET Open : Evicts(gone) /\ Retire(gone)
  BY DEF AcquireMiss
<1>2. Open' = Open \ gone
  BY <1>1 DEF Open, Retire, TypeOK
<1>3. /\ IsFiniteSet(Open \ gone) /\ Cardinality(Open \ gone) \in Nat
      /\ Cardinality(Open) \in Nat
  BY FS_Subset, FS_CardinalityType DEF BoundInv
<1>4. Cardinality(Open \ gone) < Max
  <2>1. CASE Cardinality(Open) < Max
    <3>1. Open \ gone = Open
      BY <1>1, <2>1 DEF Evicts
    <3>. QED BY <2>1, <3>1
  <2>2. CASE ~(Cardinality(Open) < Max)
    BY <1>1, <2>2, PoolAssumption DEF Evicts
  <2>. QED BY <2>1, <2>2
<1>5. IsFiniteSet(Spawning') /\ Cardinality(Spawning') <= Cardinality(Caller)
      /\ Cardinality(Spawning') \in Nat
  BY FiniteCallers, FS_Subset, FS_CardinalityType DEF Spawning
<1>. QED
  BY <1>2, <1>3, <1>4, <1>5, FewSpawning, PoolAssumption DEF BoundInv, OvershootBound

\* A caller publishes one session, and with that has stopped spawning.
LEMMA PublishLeaves ==
  ASSUME TypeOK, BoundInv, NEW c \in Caller, Loaded(c), want[c] \in Ref
  PROVE  BoundInv'
<1>1. c \in Spawning /\ Spawning' = Spawning \ {c}
  BY DEF Loaded, Spawning, Goto, TypeOK
<1>2. Open' \subseteq Open \cup {want[c]}
  <2>1. live' = live \/ live' = [live EXCEPT ![want[c]] = cur[c]]
    BY DEF Loaded
  <2>. QED BY <2>1 DEF Open, TypeOK
<1>3. /\ IsFiniteSet(Open \cup {want[c]}) /\ Cardinality(Open) \in Nat
      /\ Cardinality(Open \cup {want[c]}) <= Cardinality(Open) + 1
  <2>1. IsFiniteSet(Open) /\ Cardinality(Open) \in Nat
    BY FS_CardinalityType DEF BoundInv
  <2>2. /\ IsFiniteSet(Open \cup {want[c]})
        /\ Cardinality(Open \cup {want[c]}) =
             IF want[c] \in Open THEN Cardinality(Open) ELSE Cardinality(Open) + 1
    BY <2>1, FS_AddElement
  <2>. QED BY <2>1, <2>2
<1>4. /\ IsFiniteSet(Open') /\ Cardinality(Open') \in Nat
      /\ Cardinality(Open') <= Cardinality(Open) + 1
  <2>1. IsFiniteSet(Open') /\ Cardinality(Open') <= Cardinality(Open \cup {want[c]})
    BY <1>2, <1>3, FS_Subset
  <2>2. Cardinality(Open') \in Nat /\ Cardinality(Open \cup {want[c]}) \in Nat
    BY <1>3, <2>1, FS_CardinalityType
  <2>. QED BY <1>3, <2>1, <2>2
<1>5. Cardinality(Spawning') = Cardinality(Spawning) - 1
  BY <1>1, FewSpawning, FS_RemoveElement
<1>6. Cardinality(Open) + Cardinality(Spawning) < Max + Cardinality(Caller)
  BY DEF BoundInv, OvershootBound
<1>7. Cardinality(Open') + Cardinality(Spawning') < Max + Cardinality(Caller)
  BY <1>3, <1>4, <1>5, <1>6, FewSpawning, PoolAssumption
<1>. QED BY <1>4, <1>7 DEF BoundInv, OvershootBound

\* Every other step lets go of sessions, or leaves the pool as it is.
LEMMA BoundStep ==
  ASSUME IInv, BoundInv, [Next]_vars
  PROVE  BoundInv'
<1> USE DEF IInv, TypeOK, poolVars, sessionVars, callerVars, vars, Goto, Return, Open, Spawning
<1>1. ASSUME NEW c \in Caller, Step(c) PROVE BoundInv'
  <2>1. CASE AcquireMiss(c)
    BY <2>1, MissMakesRoom
  <2>2. CASE Loaded(c)
    <3>1. want[c] \in Ref
      BY <2>2 DEF Loaded, ControlInv, Working
    <3>. QED BY <2>2, <3>1, PublishLeaves
  <2>3. CASE AcquireHit(c) \/ AskDead(c) \/ Ask(c) \/ SpawnFails(c)
    <3>1. Open' \subseteq Open /\ Spawning' \subseteq Spawning
      BY <2>3 DEF AcquireHit, AskDead, Ask, SpawnFails
    <3>. QED BY <3>1, NoGrowth
  <2>4. CASE \E s \in Session : Spawn(c, s)
    <3>1. Open' \subseteq Open /\ Spawning' \subseteq Spawning
      BY <2>4 DEF Spawn
    <3>. QED BY <3>1, NoGrowth
  <2>5. CASE LoadRefused(c) \/ Answered(c) \/ Refused(c) \/ AfterRefusal(c)
    <3>1. Open' \subseteq Open /\ Spawning' \subseteq Spawning
      BY <2>5 DEF LoadRefused, LoadFails, Answered, Refused, AfterRefusal
    <3>. QED BY <3>1, NoGrowth
  <2>6. CASE Broken(c) \/ Drop(c) \/ CloseThen(c)
    <3>1. Open' \subseteq Open /\ Spawning' \subseteq Spawning
      BY <2>6 DEF Broken, LoadFails, Drop, CloseThen
    <3>. QED BY <3>1, NoGrowth
  <2>. QED BY <1>1, <2>1, <2>2, <2>3, <2>4, <2>5, <2>6 DEF Step
<1>2. ASSUME NEW c \in Caller, NEW r \in Ref, Call(c, r) \/ CloseFile(c, r) PROVE BoundInv'
  <2>1. Open' \subseteq Open /\ Spawning' \subseteq Spawning
    BY <1>2 DEF Call, CloseFile
  <2>. QED BY <2>1, NoGrowth
<1>3. ASSUME NEW s \in Session, CloseRetired(s) \/ Crash(s) \/ End(s) PROVE BoundInv'
  <2>1. Open' \subseteq Open /\ Spawning' \subseteq Spawning
    BY <1>3 DEF CloseRetired, Crash, End
  <2>. QED BY <2>1, NoGrowth
<1>4. ASSUME NEW gone \in SUBSET Open, Reap(gone) PROVE BoundInv'
  <2>1. Open' \subseteq Open /\ Spawning' \subseteq Spawning
    BY <1>4 DEF Reap, Retire
  <2>. QED BY <2>1, NoGrowth
<1>5. CASE UNCHANGED vars
  <2>1. Open' \subseteq Open /\ Spawning' \subseteq Spawning
    BY <1>5
  <2>. QED BY <2>1, NoGrowth
<1>. QED BY <1>1, <1>2, <1>3, <1>4, <1>5 DEF Next

\* The pool may hold more than SHARKD_SESSIONS, but never by more than the callers
\* that were spawning at the same time (pool.acquire).
THEOREM BoundedOvershoot == Spec => []OvershootBound
<1>1. Init => BoundInv
  <2> SUFFICES ASSUME Init PROVE BoundInv
    OBVIOUS
  <2>1. Open = {} /\ Spawning = {}
    BY DEF Init, Open, Spawning
  <2>2. Cardinality({}) = 0 /\ IsFiniteSet({})
    BY FS_EmptySet
  <2>. QED BY <2>1, <2>2, FewSpawning, PoolAssumption DEF BoundInv, OvershootBound
<1>2. IInv /\ BoundInv /\ [Next]_vars => BoundInv'
  BY BoundStep
<1>3. BoundInv => OvershootBound
  BY DEF BoundInv
<1>. QED BY <1>1, <1>2, <1>3, Invariance, PTL DEF Spec
=============================================================================
