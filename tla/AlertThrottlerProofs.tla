------------------------- MODULE AlertThrottlerProofs -------------------------
(***************************************************************************)
(* For any keys, any settings and any number of calls: should_alert        *)
(* answers as the history of the key says.                                 *)
(* The three fields of an entry are a summary of the history: the length   *)
(* of the run of violating calls it ends in, whether there is one, and the *)
(* latest of its first call and its alerts.                                *)
(***************************************************************************)
EXTENDS AlertThrottler, TLAPS

(* The calls from which a cooldown counts.                                 *)
Restarts(h, j) == j = 1 \/ h[j].alert

(* The entry st sums up the history h.                                     *)
SumsUp(h, st) ==
  /\ Len(h) > 0
  /\ st.count \in 0 .. Len(h)
  /\ \A j \in Len(h) - st.count + 1 .. Len(h) : h[j].violating
  /\ st.count < Len(h) => ~h[Len(h) - st.count].violating
  /\ \E j \in 1 .. Len(h) : Restarts(h, j) /\ h[j].time = st.last
  /\ \A j \in 1 .. Len(h) : Restarts(h, j) => h[j].time <= st.last

(* A well-formed entry, at the time t.                                     *)
WellFormed(st, t) ==
  /\ st \in AlertState
  /\ st.violating <=> st.count > 0
  /\ st.last <= t

Answered(h) == \A i \in 1 .. Len(h) : h[i].alert <=> Due(h, i)

KeyInv(h, st, t) ==
  /\ h \in Seq(Call)
  /\ Answered(h)
  /\ \/ st = Unseen /\ h = <<>>
     \/ st # Unseen /\ WellFormed(st, t) /\ SumsUp(h, st)

Settings ==
  /\ now \in 0 .. MaxTime /\ cooldown \in Int /\ min \in Int
  /\ DOMAIN states = Keys /\ DOMAIN log = Keys
  /\ states = [k \in Keys |-> states[k]] /\ log = [k \in Keys |-> log[k]]

IInv == Settings /\ \A k \in Keys : KeyInv(log[k], states[k], now)

-----------------------------------------------------------------------------
(* What one more call does to a history.                                   *)

LEMMA Appended ==
  ASSUME NEW h \in Seq(Call), NEW x \in Call
  PROVE  /\ Append(h, x) \in Seq(Call)
         /\ Len(h) \in Nat /\ Len(Append(h, x)) = Len(h) + 1
         /\ \A i \in 1 .. Len(h) : Append(h, x)[i] = h[i]
         /\ Append(h, x)[Len(h) + 1] = x
OBVIOUS

LEMMA CallsTyped ==
  ASSUME NEW h \in Seq(Call), NEW i \in 1 .. Len(h)
  PROVE  h[i] \in Call /\ h[i].time \in Nat /\ h[i].min \in Int
<1>1. h[i] \in Call
  OBVIOUS
<1> QED
  BY <1>1 DEF Call

(* Whether an earlier call was due does not change.                        *)
LEMMA PastStaysDue ==
  ASSUME NEW h \in Seq(Call), NEW x \in Call, NEW i \in 1 .. Len(h)
  PROVE  Due(Append(h, x), i) <=> Due(h, i)
<1> DEFINE g == Append(h, x)
           need == IF h[i].min < 2 THEN 2 ELSE h[i].min
<1>1. \A j \in 1 .. Len(h) : g[j] = h[j]
  BY Appended
<1>2. Len(h) \in Nat /\ need \in Int /\ need >= 2
  BY CallsTyped
<1>3. ASSUME need <= i
      PROVE  \A j \in i - need + 1 .. i : g[j] = h[j]
  BY <1>1, <1>2, <1>3
<1>4. g[i] = h[i] /\ \A j \in 1 .. i - 1 : g[j] = h[j]
  BY <1>1, <1>2
<1> QED
  BY <1>3, <1>4 DEF Due

LEMMA AnswersGrow ==
  ASSUME NEW h \in Seq(Call), NEW x \in Call, Answered(h),
         x.alert <=> Due(Append(h, x), Len(h) + 1)
  PROVE  Answered(Append(h, x))
<1> DEFINE g == Append(h, x)
<1> SUFFICES ASSUME NEW i \in 1 .. Len(g) PROVE g[i].alert <=> Due(g, i)
  BY DEF Answered
<1>1. CASE i = Len(h) + 1
  BY <1>1, Appended
<1>2. CASE i \in 1 .. Len(h)
  <2>1. g[i] = h[i]
    BY <1>2, Appended
  <2>2. Due(g, i) <=> Due(h, i)
    BY <1>2, PastStaysDue
  <2> QED
    BY <1>2, <2>1, <2>2 DEF Answered
<1> QED
  BY <1>1, <1>2, Appended

(* The first call of a key is never due, nor is one without a violation,   *)
(* nor one that starts a run.                                              *)
LEMMA NotDue ==
  ASSUME NEW h \in Seq(Call), NEW x \in Call,
         \/ h = <<>>
         \/ ~x.violating
         \/ Len(h) > 0 /\ ~h[Len(h)].violating
  PROVE  ~Due(Append(h, x), Len(h) + 1)
<1> DEFINE g == Append(h, x)
           i == Len(h) + 1
           need == IF x.min < 2 THEN 2 ELSE x.min
<1>1. /\ g[i] = x /\ Len(h) \in Nat /\ need \in Int /\ need >= 2
      /\ \A j \in 1 .. Len(h) : g[j] = h[j]
  BY Appended DEF Call
<1> SUFFICES ASSUME need <= i, \A j \in i - need + 1 .. i : g[j].violating
             PROVE  FALSE
  BY <1>1 DEF Due
<1>2. CASE h = <<>>
  BY <1>1, <1>2
<1>3. CASE ~x.violating
  BY <1>1, <1>3
<1>4. CASE Len(h) > 0 /\ ~h[Len(h)].violating
  <2>1. Len(h) \in i - need + 1 .. i /\ Len(h) \in 1 .. Len(h)
    BY <1>1, <1>4
  <2> QED
    BY <1>1, <1>4, <2>1
<1> QED
  BY <1>2, <1>3, <1>4

(* A call that continues a run is due exactly when the counter and the     *)
(* time of the last restart say so.                                        *)
LEMMA DueInRun ==
  ASSUME NEW h \in Seq(Call), NEW x \in Call, NEW st \in AlertState,
         SumsUp(h, st), st.count > 0, x.violating
  PROVE  Due(Append(h, x), Len(h) + 1) <=>
           st.count + 1 >= x.min /\ x.time - st.last > x.cooldown
<1> DEFINE g == Append(h, x)
           n == Len(h)
           need == IF x.min < 2 THEN 2 ELSE x.min
<1>1. /\ g[n + 1] = x /\ n \in Nat /\ need \in Int /\ need >= 2
      /\ \A j \in 1 .. n : g[j] = h[j]
  BY Appended DEF Call
<1>2. st.count \in 1 .. n /\ st.last \in Nat
  BY <1>1 DEF SumsUp, AlertState
<1>3. x.time \in Nat /\ x.cooldown \in Int /\ x.min \in Int
  BY DEF Call
<1>4. \A j \in 1 .. n : h[j].time \in Nat
  BY CallsTyped
<1>5. st.count + 1 >= x.min <=> need <= st.count + 1
  BY <1>2, <1>3
<1>6. (/\ need <= n + 1
       /\ \A j \in n + 1 - need + 1 .. n + 1 : g[j].violating)
        <=> need <= st.count + 1
  <2>1. ASSUME need <= st.count + 1,
               NEW j \in n + 1 - need + 1 .. n + 1
        PROVE  g[j].violating
    <3>1. CASE j = n + 1
      BY <1>1, <3>1
    <3>2. CASE j # n + 1
      <4>1. j \in n - st.count + 1 .. n /\ j \in 1 .. n
        BY <1>1, <1>2, <2>1, <3>2
      <4> QED
        BY <1>1, <4>1 DEF SumsUp
    <3> QED
      BY <3>1, <3>2
  <2>2. ASSUME need <= n + 1, need > st.count + 1
        PROVE  \E j \in n + 1 - need + 1 .. n + 1 : ~g[j].violating
    <3>1. /\ st.count < n
          /\ n - st.count \in 1 .. n
          /\ n - st.count \in n + 1 - need + 1 .. n + 1
      BY <1>1, <1>2, <2>2
    <3>2. ~g[n - st.count].violating
      BY <1>1, <3>1 DEF SumsUp
    <3> QED
      BY <3>1, <3>2
  <2> QED
    BY <1>1, <1>2, <2>1, <2>2
<1>7. (\A j \in 1 .. n : Restarts(h, j) => x.time - h[j].time > x.cooldown)
        <=> x.time - st.last > x.cooldown
  <2>1. ASSUME x.time - st.last > x.cooldown,
               NEW j \in 1 .. n, Restarts(h, j)
        PROVE  x.time - h[j].time > x.cooldown
    <3>1. h[j].time <= st.last
      BY <2>1 DEF SumsUp
    <3> QED
      BY <1>2, <1>3, <1>4, <2>1, <3>1
  <2>2. PICK j \in 1 .. n : Restarts(h, j) /\ h[j].time = st.last
    BY DEF SumsUp
  <2> QED
    BY <2>1, <2>2
<1>8. Due(g, n + 1) <=>
        /\ need <= n + 1
        /\ \A j \in n + 1 - need + 1 .. n + 1 : g[j].violating
        /\ \A j \in 1 .. n : Restarts(h, j) => x.time - h[j].time > x.cooldown
  <2>1. 1 .. (n + 1) - 1 = 1 .. n
    BY <1>1
  <2> QED
    BY <1>1, <2>1 DEF Due, Restarts
<1> QED
  BY <1>5, <1>6, <1>7, <1>8

-----------------------------------------------------------------------------
(* What one more call does to the entry.                                   *)

(* The first call of a key.                                                *)
LEMMA FirstSumsUp ==
  ASSUME NEW x \in Call, NEW st \in AlertState, ~x.alert,
         st.last = x.time, st.count = IF x.violating THEN 1 ELSE 0
  PROVE  SumsUp(Append(<<>>, x), st)
<1> DEFINE g == Append(<<>>, x)
<1>1. Len(g) = 1 /\ g[1] = x
  OBVIOUS
<1>2. Restarts(g, 1) /\ g[1].time = st.last /\ st.last \in Nat
  BY <1>1 DEF Restarts, AlertState
<1> QED
  BY <1>1, <1>2 DEF SumsUp

(* Every later one: the run grows or ends, an alert restarts the cooldown. *)
LEMMA GrowsSumsUp ==
  ASSUME NEW h \in Seq(Call), NEW x \in Call,
         NEW st \in AlertState, NEW new \in AlertState,
         SumsUp(h, st), st.last <= x.time,
         new.count = IF x.violating THEN st.count + 1 ELSE 0,
         new.last = IF x.alert THEN x.time ELSE st.last
  PROVE  SumsUp(Append(h, x), new)
<1> DEFINE g == Append(h, x)
           n == Len(h)
<1>1. /\ g[n + 1] = x /\ n \in Nat /\ Len(g) = n + 1
      /\ \A j \in 1 .. n : g[j] = h[j]
  BY Appended
<1>2. st.count \in 0 .. n /\ n > 0 /\ st.last \in Nat /\ new.last \in Nat
  BY <1>1 DEF SumsUp, AlertState
<1>3. x.time \in Nat /\ new.last <= x.time /\ st.last <= new.last
  BY <1>2 DEF Call
<1>4. \A j \in 1 .. n : Restarts(g, j) <=> Restarts(h, j)
  BY <1>1 DEF Restarts
<1>5. new.count \in 0 .. n + 1
  BY <1>1, <1>2
<1>6. ASSUME NEW j \in n + 1 - new.count + 1 .. n + 1
      PROVE  g[j].violating
  <2>1. x.violating
    BY <1>1, <1>6
  <2>2. CASE j = n + 1
    BY <1>1, <2>1, <2>2
  <2>3. CASE j # n + 1
    <3>1. j \in n - st.count + 1 .. n /\ j \in 1 .. n
      BY <1>1, <1>2, <1>6, <2>1, <2>3
    <3> QED
      BY <1>1, <3>1 DEF SumsUp
  <2> QED
    BY <2>2, <2>3
<1>7. ASSUME new.count < n + 1
      PROVE  ~g[n + 1 - new.count].violating
  <2>1. CASE x.violating
    <3>1. /\ st.count < n /\ n - st.count \in 1 .. n
          /\ n + 1 - new.count = n - st.count
      BY <1>1, <1>2, <1>7, <2>1
    <3> QED
      BY <1>1, <3>1 DEF SumsUp
  <2>2. CASE ~x.violating
    <3>1. n + 1 - new.count = n + 1
      BY <1>1, <2>2
    <3> QED
      BY <1>1, <2>2, <3>1
  <2> QED
    BY <2>1, <2>2
<1>8. \E j \in 1 .. n + 1 : Restarts(g, j) /\ g[j].time = new.last
  <2>1. CASE x.alert
    <3>1. /\ n + 1 \in 1 .. n + 1
          /\ Restarts(g, n + 1) /\ g[n + 1].time = new.last
      BY <1>1, <2>1 DEF Restarts
    <3> QED
      BY <3>1
  <2>2. CASE ~x.alert
    <3>1. PICK j \in 1 .. n : Restarts(h, j) /\ h[j].time = st.last
      BY <1>1 DEF SumsUp
    <3>2. j \in 1 .. n + 1 /\ Restarts(g, j) /\ g[j].time = new.last
      BY <1>1, <1>4, <2>2, <3>1
    <3> QED
      BY <3>2
  <2> QED
    BY <2>1, <2>2
<1>9. ASSUME NEW j \in 1 .. n + 1, Restarts(g, j)
      PROVE  g[j].time <= new.last
  <2>1. CASE j = n + 1
    <3>1. x.alert
      BY <1>1, <1>2, <1>9, <2>1 DEF Restarts
    <3> QED
      BY <1>1, <1>3, <2>1, <3>1
  <2>2. CASE j # n + 1
    <3>1. j \in 1 .. n /\ Restarts(h, j) /\ g[j] = h[j]
      BY <1>1, <1>4, <1>9, <2>2
    <3>2. h[j].time <= st.last /\ h[j].time \in Nat
      BY <3>1, CallsTyped DEF SumsUp
    <3> QED
      BY <1>2, <1>3, <3>1, <3>2
  <2> QED
    BY <2>1, <2>2
<1>10. Len(g) = n + 1 /\ n \in Nat /\ new.count \in Nat
  BY <1>1 DEF AlertState
<1> HIDE DEF g, n
<1>11. SumsUp(g, new)
  <2>1. \A j \in Len(g) - new.count + 1 .. Len(g) : g[j].violating
    BY <1>6, <1>10
  <2>2. new.count < Len(g) => ~g[Len(g) - new.count].violating
    BY <1>7, <1>10
  <2>3. \E j \in 1 .. Len(g) : Restarts(g, j) /\ g[j].time = new.last
    BY <1>8, <1>10
  <2>4. \A j \in 1 .. Len(g) : Restarts(g, j) => g[j].time <= new.last
    BY <1>9, <1>10
  <2>5. Len(g) > 0 /\ new.count \in 0 .. Len(g)
    BY <1>5, <1>10
  <2> QED
    BY <2>1, <2>2, <2>3, <2>4, <2>5 DEF SumsUp
<1> QED
  BY <1>11 DEF g

-----------------------------------------------------------------------------
(* The steps.                                                              *)

LEMMA InitIInv == Init => IInv
<1> SUFFICES ASSUME Init PROVE IInv
  OBVIOUS
<1>1. Settings
  BY ThrottlerAssumption DEF Init, Settings
<1>2. \A k \in Keys : KeyInv(log[k], states[k], now)
  BY DEF Init, KeyInv, Answered
<1> QED
  BY <1>1, <1>2 DEF IInv

(* The call of one stream about one key.                                   *)
TheCall(s, violating, alert) ==
  [stream |-> s, violating |-> violating, time |-> now, alert |-> alert,
   cooldown |-> cooldown, min |-> min]

LEMMA LaterCallKeepsKey ==
  ASSUME NEW t \in Nat, NEW x \in Call, x.time = t,
         NEW h, NEW st \in AlertState, NEW new \in AlertState,
         KeyInv(h, st, t),
         new.violating <=> x.violating,
         new.count = IF x.violating THEN st.count + 1 ELSE 0,
         new.last = IF x.alert THEN t ELSE st.last,
         x.alert <=> Due(Append(h, x), Len(h) + 1)
  PROVE  KeyInv(Append(h, x), new, t)
<1>1. st # Unseen /\ new # Unseen
  BY ThrottlerAssumption
<1>2. /\ h \in Seq(Call) /\ Answered(h) /\ WellFormed(st, t)
      /\ SumsUp(h, st) /\ st.last <= x.time
  BY <1>1 DEF KeyInv, WellFormed
<1>3. Append(h, x) \in Seq(Call) /\ Answered(Append(h, x))
  BY <1>2, Appended, AnswersGrow
<1>4. SumsUp(Append(h, x), new)
  BY <1>2, GrowsSumsUp
<1>5. WellFormed(new, t)
  <2>1. st.count \in Nat /\ st.last <= t
    BY <1>2 DEF WellFormed, AlertState
  <2>2. new.last <= t
    BY <2>1
  <2>3. new.violating <=> new.count > 0
    BY <2>1
  <2> QED
    BY <2>2, <2>3 DEF WellFormed
<1> QED
  BY <1>1, <1>3, <1>4, <1>5 DEF KeyInv

LEMMA CallKeepsKey ==
  ASSUME IInv, NEW s \in Streams, NEW k \in Keys, ShouldAlert(s, k)
  PROVE  KeyInv(log'[k], states'[k], now)
<1> DEFINE h == log[k]
           st == states[k]
           new == states'[k]
<1>1. /\ now \in Nat /\ cooldown \in Int /\ min \in Int
      /\ DOMAIN states = Keys /\ DOMAIN log = Keys
      /\ KeyInv(h, st, now) /\ h \in Seq(Call) /\ Answered(h)
  BY ThrottlerAssumption DEF IInv, Settings, KeyInv
<1>2. ASSUME NEW violating \in BOOLEAN, NEW alert \in BOOLEAN,
             Returns(s, k, violating, alert)
      PROVE  /\ TheCall(s, violating, alert) \in Call
             /\ log'[k] = Append(h, TheCall(s, violating, alert))
  BY <1>1, <1>2 DEF TheCall, Call, Returns
<1>3. st # Unseen => st \in AlertState /\ WellFormed(st, now) /\ SumsUp(h, st)
  BY <1>1 DEF KeyInv, WellFormed
<1>4. ASSUME NEW violating \in BOOLEAN, FirstSight(s, k, violating)
      PROVE  KeyInv(log'[k], new, now)
  <2> DEFINE x == TheCall(s, violating, FALSE)
  <2>1. h = <<>>
    BY <1>1, <1>4, ThrottlerAssumption DEF FirstSight, KeyInv, WellFormed
  <2>2. x \in Call /\ log'[k] = Append(h, x)
    BY <1>2, <1>4 DEF FirstSight
  <2>3. new = [last |-> now, count |-> IF violating THEN 1 ELSE 0,
               violating |-> violating]
    BY <1>1, <1>4 DEF FirstSight
  <2>4. new \in AlertState /\ new # Unseen
    BY <1>1, <2>3, ThrottlerAssumption DEF AlertState
  <2>5. x.time = now /\ ~x.alert /\ x.violating = violating
    BY DEF TheCall
  <2>6. ~Due(Append(h, x), Len(h) + 1)
    BY <1>1, <2>1, <2>2, NotDue
  <2>7. Append(h, x) \in Seq(Call) /\ Answered(Append(h, x))
    BY <1>1, <2>2, <2>5, <2>6, Appended, AnswersGrow
  <2>8. SumsUp(Append(h, x), new)
    <3>1. new.last = x.time
      BY <2>3 DEF TheCall
    <3>2. new.count = IF x.violating THEN 1 ELSE 0
      BY <2>3 DEF TheCall
    <3>3. x \in Call /\ ~x.alert /\ new \in AlertState /\ h = <<>>
      BY <2>1, <2>2, <2>4, <2>5
    <3> HIDE DEF x, new, h
    <3> QED
      BY <3>1, <3>2, <3>3, FirstSumsUp
  <2>9. WellFormed(new, now)
    BY <1>1, <2>3, <2>4 DEF WellFormed
  <2> QED
    BY <2>2, <2>4, <2>7, <2>8, <2>9 DEF KeyInv
<1>5. CASE ViolationContinues(s, k)
  <2> DEFINE run == [st EXCEPT !.count = @ + 1]
             alert == run.count >= min /\ CooldownOver(run)
             x == TheCall(s, TRUE, alert)
  <2>1. /\ st # Unseen /\ st.violating
        /\ new = IF alert THEN RestartCooldown(run) ELSE run
        /\ Returns(s, k, TRUE, alert)
    BY <1>1, <1>5 DEF ViolationContinues
  <2>2. st \in AlertState /\ WellFormed(st, now) /\ SumsUp(h, st)
    BY <1>3, <2>1
  <2>3. x \in Call /\ log'[k] = Append(h, x)
    BY <1>2, <2>1
  <2>4. /\ run.count = st.count + 1 /\ run.last = st.last
        /\ run \in AlertState /\ run.violating = st.violating
    BY <2>2 DEF AlertState
  <2>5. /\ new \in AlertState /\ new.violating = st.violating
        /\ new.count = st.count + 1
        /\ new.last = IF alert THEN now ELSE st.last
    BY <1>1, <2>1, <2>4 DEF RestartCooldown, AlertState
  <2>6. /\ x.time = now /\ x.violating /\ (x.alert <=> alert)
        /\ x.min = min /\ x.cooldown = cooldown
    BY DEF TheCall
  <2>7. st.count > 0
    BY <2>1, <2>2 DEF WellFormed
  <2>8. alert <=> st.count + 1 >= x.min /\ x.time - st.last > x.cooldown
    BY <2>4, <2>6 DEF CooldownOver
  <2>9. alert <=> Due(Append(h, x), Len(h) + 1)
    BY <1>1, <2>2, <2>3, <2>6, <2>7, <2>8, DueInRun
  <2> HIDE DEF x, alert, new, h, st
  <2>10. KeyInv(Append(h, x), new, now)
    BY <1>1, <2>1, <2>2, <2>3, <2>5, <2>6, <2>9, LaterCallKeepsKey
  <2> QED
    BY <2>3, <2>10 DEF new
<1>6. CASE ViolationStarts(s, k)
  <2> DEFINE x == TheCall(s, TRUE, FALSE)
  <2>1. /\ st # Unseen /\ ~st.violating
        /\ new = [st EXCEPT !.violating = TRUE, !.count = 1]
        /\ Returns(s, k, TRUE, FALSE)
    BY <1>1, <1>6 DEF ViolationStarts
  <2>2. st \in AlertState /\ WellFormed(st, now) /\ SumsUp(h, st)
    BY <1>3, <2>1
  <2>3. x \in Call /\ log'[k] = Append(h, x)
    BY <1>2, <2>1
  <2>4. st.count = 0
    BY <2>1, <2>2 DEF WellFormed, AlertState
  <2>5. /\ new \in AlertState /\ new.violating
        /\ new.count = st.count + 1 /\ new.last = st.last
    <3>1. new = [last |-> st.last, count |-> 1, violating |-> TRUE]
      BY <2>1, <2>2 DEF AlertState
    <3> QED
      BY <2>2, <2>4, <3>1 DEF AlertState
  <2>6. x.time = now /\ x.violating /\ ~x.alert
    BY DEF TheCall
  <2>7. Len(h) > 0 /\ ~h[Len(h)].violating
    BY <1>1, <2>2, <2>4 DEF SumsUp
  <2>8. ~Due(Append(h, x), Len(h) + 1)
    BY <1>1, <2>3, <2>7, NotDue
  <2> HIDE DEF x, new, h, st
  <2>9. KeyInv(Append(h, x), new, now)
    BY <1>1, <2>2, <2>3, <2>5, <2>6, <2>8, LaterCallKeepsKey
  <2> QED
    BY <2>3, <2>9 DEF new
<1>7. CASE NotViolating(s, k)
  <2> DEFINE x == TheCall(s, FALSE, FALSE)
  <2>1. /\ st # Unseen /\ Returns(s, k, FALSE, FALSE)
        /\ new = IF st.violating THEN StopCounting(st) ELSE st
    BY <1>1, <1>7 DEF NotViolating
  <2>2. st \in AlertState /\ WellFormed(st, now)
    BY <1>3, <2>1
  <2>3. x \in Call /\ log'[k] = Append(h, x)
    BY <1>2, <2>1
  <2>4. ~st.violating => st.count = 0
    BY <2>2 DEF WellFormed, AlertState
  <2>5. /\ new \in AlertState /\ ~new.violating
        /\ new.count = 0 /\ new.last = st.last
    <3>1. CASE st.violating
      <4>1. new = [last |-> st.last, count |-> 0, violating |-> FALSE]
        BY <2>1, <2>2, <3>1 DEF AlertState, StopCounting
      <4> QED
        BY <2>2, <4>1 DEF AlertState
    <3>2. CASE ~st.violating
      BY <2>1, <2>2, <2>4, <3>2
    <3> QED
      BY <3>1, <3>2
  <2>6. x.time = now /\ ~x.violating /\ ~x.alert
    BY DEF TheCall
  <2>7. ~Due(Append(h, x), Len(h) + 1)
    BY <1>1, <2>3, <2>6, NotDue
  <2> HIDE DEF x, new, h, st
  <2>8. KeyInv(Append(h, x), new, now)
    BY <1>1, <2>2, <2>3, <2>5, <2>6, <2>7, LaterCallKeepsKey
  <2> QED
    BY <2>3, <2>8 DEF new
<1> QED
  BY <1>4, <1>5, <1>6, <1>7 DEF ShouldAlert

(* The other keys are left alone.                                          *)
LEMMA CallLeavesOthers ==
  ASSUME IInv, NEW s \in Streams, NEW k \in Keys, ShouldAlert(s, k)
  PROVE  /\ DOMAIN states' = Keys /\ states' = [l \in Keys |-> states'[l]]
         /\ DOMAIN log' = Keys /\ log' = [l \in Keys |-> log'[l]]
         /\ \A l \in Keys \ {k} :
              states'[l] = states[l] /\ log'[l] = log[l]
         /\ UNCHANGED <<now, cooldown, min>>
BY DEF IInv, Settings, ShouldAlert, FirstSight, ViolationContinues,
       ViolationStarts, NotViolating, Returns

(* Time does not spoil an entry.                                           *)
LEMMA TimeKeepsKey ==
  ASSUME NEW t \in Nat, NEW h, NEW st, KeyInv(h, st, t)
  PROVE  KeyInv(h, st, t + 1)
BY DEF KeyInv, WellFormed, AlertState

LEMMA NextIInv == IInv /\ [Next]_vars => IInv'
<1> SUFFICES ASSUME IInv, [Next]_vars PROVE IInv'
  OBVIOUS
<1>1. CASE Tick
  <2>1. now \in Nat /\ now' = now + 1 /\ now' \in 0 .. MaxTime
    BY <1>1, ThrottlerAssumption DEF IInv, Settings, Tick
  <2>2. UNCHANGED <<cooldown, min, states, log>>
    BY <1>1 DEF Tick
  <2> QED
    BY <2>1, <2>2, TimeKeepsKey DEF IInv, Settings
<1>2. ASSUME NEW c \in Cooldowns, SetCooldown(c)
      PROVE  IInv'
  BY <1>2, ThrottlerAssumption DEF SetCooldown, IInv, Settings
<1>3. ASSUME NEW m \in MinFrames, SetMinConsecutiveFrames(m)
      PROVE  IInv'
  BY <1>3, ThrottlerAssumption DEF SetMinConsecutiveFrames, IInv, Settings
<1>4. ASSUME NEW s \in Streams, NEW k \in Keys, ShouldAlert(s, k)
      PROVE  IInv'
  <2>1. Settings'
    BY <1>4, CallLeavesOthers DEF IInv, Settings
  <2>2. ASSUME NEW l \in Keys PROVE KeyInv(log'[l], states'[l], now)
    BY <1>4, CallKeepsKey, CallLeavesOthers DEF IInv
  <2>3. now' = now
    BY <1>4, CallLeavesOthers
  <2> QED
    BY <2>1, <2>2, <2>3 DEF IInv
<1>5. CASE UNCHANGED vars
  BY <1>5 DEF vars, IInv, Settings
<1> QED
  BY <1>1, <1>2, <1>3, <1>4, <1>5 DEF Next

LEMMA AlwaysIInv == Spec => []IInv
BY InitIInv, NextIInv, PTL DEF Spec

-----------------------------------------------------------------------------
(* An entry is well formed at every time.                                  *)
THEOREM TypeCorrect == Spec => []TypeOK
<1>1. IInv => TypeOK
  <2> SUFFICES ASSUME IInv PROVE TypeOK
    OBVIOUS
  <2>1. /\ DOMAIN states = Keys /\ states = [k \in Keys |-> states[k]]
        /\ DOMAIN log = Keys /\ log = [k \in Keys |-> log[k]]
    BY DEF IInv, Settings
  <2>2. \A k \in Keys :
          /\ states[k] \in AlertState \cup {Unseen}
          /\ states[k] # Unseen => WellFormed(states[k], now)
          /\ log[k] \in Seq(Call)
    BY DEF IInv, KeyInv, WellFormed
  <2>3. /\ states \in [Keys -> AlertState \cup {Unseen}]
        /\ log \in [Keys -> Seq(Call)]
    BY <2>1, <2>2
  <2> QED
    BY <2>2, <2>3 DEF TypeOK, IInv, Settings, WellFormed
<1> QED
  BY <1>1, AlwaysIInv, PTL

(* should_alert answers as the history of its key says, for every sequence *)
(* of calls, gaps and changes of the settings.                             *)
THEOREM AnswersAreDue == Spec => []AlertsWhenDue
<1>1. IInv => AlertsWhenDue
  BY DEF IInv, KeyInv, Answered, AlertsWhenDue
<1> QED
  BY <1>1, AlwaysIInv, PTL
=============================================================================
