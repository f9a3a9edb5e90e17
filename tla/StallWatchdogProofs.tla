-------------------------- MODULE StallWatchdogProofs --------------------------
(***************************************************************************)
(* Theorems about StallWatchdog, for every value of the timeouts, windows  *)
(* and delays: the margins are enough for a healthy worker never to be     *)
(* killed, and a worker that gets nowhere is killed within a bound.        *)
(***************************************************************************)
EXTENDS StallWatchdog, TLAPS

LEMMA Times ==
    /\ Grace \in Nat /\ DefaultTimeout \in Nat /\ MinTimeout \in Nat /\ MaxTimeout \in Nat
    /\ Delay \in Nat /\ PoolMax \in Nat /\ CoverageMax \in Nat /\ Latency \in Nat
    /\ BootMax \in Nat /\ StartMax \in Nat /\ Gap \in Nat /\ CloseMax \in Nat
    /\ Attempts \in Nat \ {0} /\ Interval \in Nat \ {0}
    /\ MinTimeout <= DefaultTimeout /\ DefaultTimeout <= MaxTimeout
    /\ Timeouts \subseteq Nat /\ Unknown \notin Nat /\ PoolMax <= CoverageMax
    /\ Longest \in Nat
BY TimesAssumption DEF Longest

-----------------------------------------------------------------------------
(* Type correctness                                                        *)

LEMMA ClampRange == \A t \in Nat : Clamp(t) \in MinTimeout .. MaxTimeout
BY Times DEF Clamp

LEMMA MessageTypes == \A t \in {"ready", "config", "case", "end"} : Msg(t) \in Message
BY Times DEF Msg, Message

LEMMA Twice ==
    ASSUME NEW S, NEW x \in S
    PROVE  /\ <<x>> \o <<x>> \in Seq(S) /\ Len(<<x>> \o <<x>>) = 2
           /\ (<<x>> \o <<x>>)[1] = x /\ (<<x>> \o <<x>>)[2] = x
<1>1. <<x>> \in Seq(S) /\ Len(<<x>>) = 1 /\ <<x>>[1] = x
  OBVIOUS
<1>2. PICK s \in Seq(S) : s = <<x>>
  BY <1>1
<1>3. s \o s \in Seq(S) /\ Len(s \o s) = 2 /\ (s \o s)[1] = x /\ (s \o s)[2] = x
  BY <1>1, <1>2
<1> QED BY <1>2, <1>3

LEMMA BeatsAreConfigs ==
    ASSUME NEW p \in Nat, NEW c \in Nat
    PROVE  /\ Beats(p, c) \in Seq(Message)
           /\ \A k \in 1 .. Len(Beats(p, c)) : Beats(p, c)[k] = Config
<1>1. Config \in Message
  BY MessageTypes DEF Config
<1>2. ASSUME NEW a \in {<< >>, <<Config>>}, NEW b \in {<< >>, <<Config>>}
      PROVE  a \o b \in Seq(Message) /\ \A k \in 1 .. Len(a \o b) : (a \o b)[k] = Config
  <2>1. CASE a = << >> /\ b = << >>
    BY <2>1
  <2>2. CASE a = << >> /\ b = <<Config>>
    <3>1. a \o b = <<Config>>
      BY <2>2
    <3> QED BY <1>1, <3>1
  <2>3. CASE a = <<Config>> /\ b = << >>
    <3>1. a \o b = <<Config>>
      BY <2>3
    <3> QED BY <1>1, <3>1
  <2>4. CASE a = <<Config>> /\ b = <<Config>>
    <3>1. /\ a \o b \in Seq(Message) /\ Len(a \o b) = 2
          /\ (a \o b)[1] = Config /\ (a \o b)[2] = Config
      BY <1>1, <2>4, Twice
    <3>2. \A k \in 1 .. Len(a \o b) : k = 1 \/ k = 2
      BY <3>1
    <3> QED BY <3>1, <3>2
  <2> QED BY <2>1, <2>2, <2>3, <2>4
<1>3. << >> \in Seq(Message) /\ \A k \in 1 .. Len(<< >>) : << >>[k] = Config
  OBVIOUS
<1> QED BY <1>2, <1>3 DEF Beats

LEMMA OlderRange ==
    ASSUME NEW b \in Nat, NEW n \in 0 .. b PROVE Older(n, b) \in 0 .. b /\ Older(n, b) <= n + 1
BY DEF Older

\* What a Tick does to the channel: every message ages, and heartbeats follow.
Aged(c) == [k \in DOMAIN c |-> [c[k] EXCEPT !.age = @ + 1]]

LEMMA AgedType ==
    ASSUME NEW c \in Seq(Message), \A k \in DOMAIN c : c[k].age < Latency
    PROVE  /\ Aged(c) \in Seq(Message) /\ Len(Aged(c)) = Len(c)
           /\ \A k \in 1 .. Len(c) : /\ Aged(c)[k].type = c[k].type
                                     /\ Aged(c)[k].age = c[k].age + 1
<1>1. DOMAIN c = 1 .. Len(c) /\ Len(c) \in Nat /\ \A k \in 1 .. Len(c) : c[k] \in Message
  OBVIOUS
<1>2. ASSUME NEW m \in Message, m.age < Latency
      PROVE  /\ [m EXCEPT !.age = @ + 1] \in Message
             /\ [m EXCEPT !.age = @ + 1].type = m.type
             /\ [m EXCEPT !.age = @ + 1].age = m.age + 1
  <2>1. m.age \in 0 .. Latency /\ m.age + 1 \in 0 .. Latency
    BY <1>2, Times DEF Message
  <2>2. [m EXCEPT !.age = @ + 1] = [m EXCEPT !.age = m.age + 1]
    OBVIOUS
  <2> QED BY <2>1, <2>2 DEF Message
<1>3. \A k \in 1 .. Len(c) : [c[k] EXCEPT !.age = @ + 1] \in Message
  BY <1>1, <1>2
<1>4. Aged(c) \in [1 .. Len(c) -> Message]
  BY <1>1, <1>3 DEF Aged
<1>5. Aged(c) \in Seq(Message) /\ Len(Aged(c)) = Len(c)
  BY <1>1, <1>4
<1>6. \A k \in 1 .. Len(c) : Aged(c)[k] = [c[k] EXCEPT !.age = @ + 1]
  BY <1>1 DEF Aged
<1> QED BY <1>1, <1>2, <1>5, <1>6

\* TypeOK, with the fact that a backoff is followed by another attempt.
TInv == TypeOK /\ (phase = "backoff" => attempt < Attempts)

LEMMA InitType == Init => TInv
<1> SUFFICES ASSUME Init PROVE TInv
  OBVIOUS
<1>1. left \in 0 .. MaxTimeout + Grace /\ since \in 0 .. Longest /\ attempt \in 1 .. Attempts
  BY Times DEF Init
<1>2. pool \in 0 .. PoolMax + 1 /\ cover \in 0 .. CoverageMax + 1 /\ pass \in 1 .. 2
  BY Times DEF Init
<1>3. effective \in MinTimeout .. MaxTimeout
  BY Times DEF Init
<1>4. chan \in Seq(Message)
  BY DEF Init
<1>5. /\ setting \in Settings /\ phase = "booting" /\ health = "well" /\ reported \in BOOLEAN
      /\ verdict = "watching"
  BY DEF Init
<1> QED BY <1>1, <1>2, <1>3, <1>4, <1>5 DEF TypeOK, TInv

LEMMA BeginType ==
    ASSUME TypeOK, NEW n \in 1 .. Attempts, NEW b \in {<< >>, <<Config>>}, BeginAttempt(n, b)
    PROVE  /\ phase' = "attempting" /\ since' = 0 /\ attempt' = n
           /\ since' \in 0 .. Longest /\ reported' = FALSE
           /\ pool' = 0 /\ pool' \in 0 .. PoolMax + 1 /\ chan' \in Seq(Message)
<1>1. Config \in Message /\ chan \in Seq(Message)
  BY MessageTypes DEF Config, TypeOK
<1>2. << >> \in Seq(Message) /\ <<Config>> \in Seq(Message)
  BY <1>1
<1>3. chan \o << >> \o <<Config>> \in Seq(Message)
  BY <1>1, <1>2
<1>4. chan \o <<Config>> \o <<Config>> \in Seq(Message)
  BY <1>1, <1>2
<1>5. chan' \in Seq(Message)
  BY <1>3, <1>4 DEF BeginAttempt
<1>6. 0 \in 0 .. Longest /\ 0 \in 0 .. PoolMax + 1
  BY Times
<1> QED BY <1>5, <1>6 DEF BeginAttempt, Moves

LEMMA TickType ==
    ASSUME TypeOK, Tick
    PROVE  /\ pool' \in 0 .. PoolMax + 1 /\ cover' \in 0 .. CoverageMax + 1
           /\ chan' = Aged(chan) \o Beats(pool', cover') /\ chan' \in Seq(Message)
           /\ since' \in 0 .. Longest /\ left' \in 0 .. MaxTimeout + Grace
<1>0. PoolMax + 1 \in Nat /\ CoverageMax + 1 \in Nat /\ Longest \in Nat
  BY Times
<1>1. pool' = Older(pool, PoolMax + 1) /\ pool \in 0 .. PoolMax + 1
  BY DEF Tick, TypeOK
<1>2. pool' \in 0 .. PoolMax + 1
  BY <1>0, <1>1, OlderRange
<1>3. cover' \in {cover, Older(cover, CoverageMax + 1)} /\ cover \in 0 .. CoverageMax + 1
  BY DEF Tick, TypeOK
<1>4. cover' \in 0 .. CoverageMax + 1
  BY <1>0, <1>3, OlderRange
<1>5. chan' = Aged(chan) \o Beats(pool', cover') /\ \A k \in DOMAIN chan : chan[k].age < Latency
  BY <1>1 DEF Tick, Aged
<1>6. Aged(chan) \in Seq(Message)
  BY <1>5, AgedType DEF TypeOK
<1>7. Beats(pool', cover') \in Seq(Message)
  <2>1. pool' \in Nat /\ cover' \in Nat
    BY <1>0, <1>2, <1>4
  <2> QED BY <2>1, BeatsAreConfigs
<1>8. since' = Older(since, Longest) /\ since \in 0 .. Longest
  BY DEF Tick, TypeOK
<1>9. since' \in 0 .. Longest
  BY <1>0, <1>8, OlderRange
<1>10. left' \in 0 .. MaxTimeout + Grace
  BY Times DEF Tick, TypeOK
<1> QED BY <1>2, <1>4, <1>5, <1>6, <1>7, <1>9, <1>10

LEMMA RearmType ==
    ASSUME TypeOK, OnConfig \/ OnCase
    PROVE  /\ effective' \in MinTimeout .. MaxTimeout /\ left' = effective' + Grace
           /\ left' \in 0 .. MaxTimeout + Grace
<1>1. setting.timeout # Unknown => setting.timeout \in Nat
  BY Times DEF TypeOK, Settings
<1>2. effective \in MinTimeout .. MaxTimeout
  BY DEF TypeOK
<1>3. effective' \in MinTimeout .. MaxTimeout /\ left' = effective' + Grace
  BY <1>1, <1>2, ClampRange DEF OnConfig, OnCase, Rearm
<1>4. PICK e \in MinTimeout .. MaxTimeout : e = effective'
  BY <1>3
<1>5. e + Grace \in 0 .. MaxTimeout + Grace
  BY Times
<1> QED BY <1>3, <1>4, <1>5

LEMMA NextType == TInv /\ [Next]_vars => TInv'
<1> SUFFICES ASSUME TInv, [Next]_vars PROVE TInv'
  OBVIOUS
<1> USE DEF WorkerFrame, watchVars, workerVars
<1>0. TypeOK /\ (phase = "backoff" => attempt < Attempts) /\ attempt \in 1 .. Attempts
  BY DEF TInv, TypeOK
<1>1. CASE Tick
  BY <1>0, <1>1, TickType DEF Tick, TypeOK, TInv
<1>2. Msg("ready") \in Message /\ Msg("case") \in Message /\ Msg("end") \in Message
  BY MessageTypes
<1>3. CASE Boot
  BY <1>0, <1>2, <1>3 DEF Boot, TypeOK, TInv
<1>4. CASE Discover
  <2>1. BeginAttempt(1, IF setting.timeout = Unknown THEN << >> ELSE <<Config>>)
    BY <1>4 DEF Discover
  <2>2. 1 \in 1 .. Attempts /\ 0 \in 0 .. CoverageMax + 1
    BY Times
  <2>3. PICK b \in {<< >>, <<Config>>} : BeginAttempt(1, b)
    BY <2>1
  <2> QED BY <1>0, <1>4, <2>2, <2>3, BeginType DEF Discover, TypeOK, TInv
<1>5. 0 \in 0 .. Longest
  BY Times
<1>6. CASE Report
  BY <1>0, <1>2, <1>5, <1>6 DEF Report, Moves, TypeOK, TInv
<1>7. CASE Cover \/ Retry \/ Close
  BY <1>0, <1>5, <1>7 DEF Cover, Retry, Close, Moves, TypeOK, TInv
<1>8. CASE EndBackoff
  <2>1. attempt + 1 \in 1 .. Attempts
    BY <1>0, <1>8, Times DEF EndBackoff
  <2> QED BY <1>0, <1>8, <2>1, BeginType DEF EndBackoff, TypeOK, TInv
<1>9. CASE SecondPass
  <2>1. 1 \in 1 .. Attempts /\ BeginAttempt(1, << >>)
    BY <1>9, Times DEF SecondPass
  <2>2. /\ phase' = "attempting" /\ since' = 0 /\ attempt' = 1
        /\ since' \in 0 .. Longest /\ reported' = FALSE
        /\ pool' = 0 /\ pool' \in 0 .. PoolMax + 1 /\ chan' \in Seq(Message)
    BY <1>0, <2>1, BeginType
  <2>3. pass' \in 1 .. 2 /\ cover' = cover /\ UNCHANGED <<setting, health, effective, left, verdict>>
    BY <1>9 DEF SecondPass
  <2> QED BY <1>0, <2>1, <2>2, <2>3 DEF TypeOK, TInv
<1>10. CASE Finish
  BY <1>0, <1>2, <1>5, <1>10 DEF Finish, Moves, TypeOK, TInv
<1>11. CASE Deliver
  <2>1. chan # << >> /\ chan' = Tail(chan) /\ chan' \in Seq(Message) /\ setting' = setting
    BY <1>0, <1>11 DEF Deliver, TypeOK
  <2>2. CASE OnReady
    BY <1>0, <2>1, <2>2 DEF OnReady, TypeOK, TInv
  <2>3. CASE OnConfig \/ OnCase
    BY <1>0, <2>1, <2>3, RearmType DEF OnConfig, OnCase, TypeOK, TInv
  <2>4. CASE OnEnd
    BY <1>0, <2>1, <2>4 DEF OnEnd, TypeOK, TInv
  <2> QED BY <1>11, <2>2, <2>3, <2>4 DEF Deliver
<1>12. CASE Exit \/ Stall
  BY <1>0, <1>12 DEF Exit, Stall, TypeOK, TInv
<1>13. ASSUME NEW how \in {"stuck", "frozen"}, Fall(how) PROVE TInv'
  BY <1>0, <1>13 DEF Fall, TypeOK, TInv
<1>14. CASE UNCHANGED vars
  BY <1>0, <1>14 DEF vars, TypeOK, TInv
<1> QED
  BY <1>1, <1>3, <1>4, <1>6, <1>7, <1>8, <1>9, <1>10, <1>11, <1>12, <1>13, <1>14 DEF Next

LEMMA TypeInvariant == Spec => []TInv
<1> QED BY InitType, NextType, PTL DEF Spec

-----------------------------------------------------------------------------
(* Arithmetic                                                              *)

\* An interval timer fires once in Interval units.
LEMMA BeatEvery ==
    ASSUME NEW p \in Nat
    PROVE  /\ 0 % Interval = 0 /\ p % Interval \in 0 .. Interval - 1
           /\ (p + 1) % Interval # 0 => (p + 1) % Interval = (p % Interval) + 1
<1>0. Interval \in Int /\ Interval > 0 /\ Interval \in Nat \ {0} /\ p \in Int /\ p + 1 \in Int
  BY Times
<1>1. 0 % Interval = 0 /\ p % Interval \in 0 .. Interval - 1
  BY <1>0
<1>2. (p + 1) % Interval \in 0 .. Interval - 1
  BY <1>0
<1>3. \E d \in Int : p = Interval * d + (p % Interval)
  BY <1>0, SMTT(30)
<1>4. \E e \in Int : p + 1 = Interval * e + ((p + 1) % Interval)
  BY <1>0, SMTT(30)
<1>5. PICK d \in Int : p = Interval * d + (p % Interval)
  BY <1>3
<1>6. PICK e \in Int : p + 1 = Interval * e + ((p + 1) % Interval)
  BY <1>4
<1>7. ASSUME NEW i \in Nat \ {0}, NEW x \in Int, NEW y \in Int, NEW m \in 0 .. i - 1,
             NEW n \in 0 .. i - 1, i * x + m + 1 = i * y + n
      PROVE  IF n = 0 THEN m = i - 1 ELSE n = m + 1
  BY <1>7, SMTT(30)
<1>8. PICK m \in 0 .. Interval - 1, n \in 0 .. Interval - 1 :
         m = p % Interval /\ n = (p + 1) % Interval
  BY <1>1, <1>2
<1>9. Interval * d + m + 1 = Interval * e + n
  BY <1>5, <1>6, <1>8
<1>10. IF n = 0 THEN m = Interval - 1 ELSE n = m + 1
  BY <1>0, <1>7, <1>9
<1> QED BY <1>1, <1>8, <1>10

\* The longest silence of a healthy worker between two heartbeats or reports.
Silence == IF Gap > Interval THEN Gap ELSE Interval

Thresholds == {Clamp(u) : u \in Timeouts} \cup {DefaultTimeout}

\* The margins, for one threshold and one attempt.
LEMMA MarginsMean ==
    ASSUME Margins, NEW t \in Thresholds
    PROVE  /\ t \in Nat /\ t <= MaxTimeout /\ Silence \in Nat /\ Gap <= Silence /\ Interval <= Silence
           /\ BootMax + Latency < Grace /\ StartMax <= PoolMax
           /\ Silence + CloseMax + Latency < t + Grace
           /\ Silence + Latency < t + Grace
           /\ \A a \in Nat \ {0} : a < Attempts =>
                 Delay * a \in Nat /\ Silence + Delay * a + Latency < t + Grace
<1>0. Silence \in Nat /\ Gap <= Silence /\ Interval <= Silence
  BY Times DEF Silence
<1>1. t \in Nat /\ t <= MaxTimeout
  <2>1. CASE t = DefaultTimeout
    BY <2>1, Times
  <2>2. CASE t \in {Clamp(u) : u \in Timeouts}
    <3>1. t \in MinTimeout .. MaxTimeout
      BY <2>2, ClampRange, Times
    <3> QED BY <3>1, Times
  <2> QED BY <2>1, <2>2 DEF Thresholds
<1>2. /\ BootMax + Latency < Grace /\ StartMax <= PoolMax
      /\ Silence + (Attempts - 1) * Delay + Latency < t + Grace
      /\ Silence + CloseMax + Latency < t + Grace
  BY DEF Margins, Thresholds, Silence
<1>3. Silence + Latency < t + Grace
  BY <1>0, <1>1, <1>2, Times
<1>4. ASSUME NEW a \in Nat \ {0}, a < Attempts
      PROVE  Delay * a \in Nat /\ Silence + Delay * a + Latency < t + Grace
  <2>1. Delay * a \in Nat /\ (Attempts - 1) * Delay \in Nat
    BY Times
  <2>2. ASSUME NEW d \in Nat, NEW n \in Nat \ {0}, NEW b \in 1 .. n - 1 PROVE d * b <= (n - 1) * d
    OBVIOUS
  <2>3. Delay * a <= (Attempts - 1) * Delay
    BY <1>4, <2>2, Times
  <2> QED BY <1>0, <1>1, <1>2, <2>1, <2>3, Times
<1> QED BY <1>0, <1>1, <1>2, <1>3, <1>4

-----------------------------------------------------------------------------
(* A healthy worker is in time                                             *)

Early == phase \in {"booting", "idle", "discovering"}
Rearming(m) == m.type \in {"config", "case"}
Pending == \E k \in 1 .. Len(chan) : Rearming(chan[k])

\* A message that rearms the timer will be handled before the timer goes off.
Covered == \E k \in 1 .. Len(chan) : Rearming(chan[k]) /\ left + chan[k].age > Latency

\* How far a healthy worker has got in its phase.
Pace ==
    /\ Early => since <= BootMax /\ left = Grace - since /\ ~Pending
    /\ phase = "attempting" /\ ~reported => since = pool /\ pool <= StartMax
    /\ phase = "attempting" /\ reported => since <= Gap
    /\ phase = "covering" => setting.coverage /\ (since <= Gap \/ cover <= CoverageMax)
    /\ Starting /\ setting.coverage => since <= cover \/ cover > CoverageMax
    /\ phase = "backoff" => since <= Delay * attempt
    /\ phase = "closing" => since <= CloseMax
    /\ phase = "done" => since <= Latency

\* While startVitest is pending and its window is open, the coverage heartbeat
\* has given the timer a threshold at the last multiple of Interval.
CoverRoom == Starting /\ setting.coverage /\ cover <= CoverageMax =>
                left + (cover % Interval) >= effective + Grace

\* What the stall timer has left when nothing that would rearm it is under way.
Room ==
    /\ phase = "attempting" /\ ~reported => left + (pool % Interval) >= effective + Grace
    /\ phase = "attempting" /\ reported => left + since >= effective + Grace
    /\ phase = "covering" => left + since >= effective + Grace
    /\ CoverRoom
    /\ phase \in {"backoff", "closing"} => left + Silence + since >= effective + Grace
    /\ phase = "done" => left + since > Latency

InTime == Pace /\ (~Early => Covered \/ (~Pending /\ Room))

HInv == /\ TInv /\ effective \in Thresholds
        /\ Watching /\ health = "well" => InTime
        /\ HealthyNeverStalled

LEMMA InitHealthy == Init => HInv
<1> SUFFICES ASSUME Init PROVE HInv
  OBVIOUS
<1>1. since = 0 /\ left = Grace /\ chan = << >> /\ phase = "booting" /\ effective = DefaultTimeout
  BY DEF Init
<1>2. ~Pending
  BY <1>1 DEF Pending
<1>3. InTime
  BY <1>1, <1>2, Times DEF InTime, Pace, Early, Starting
<1> QED BY <1>1, <1>3, InitType DEF Init, HInv, HealthyNeverStalled, Thresholds

\* While it is at work, the timer outlasts the latency of a message.
LEMMA RoomIsEnough ==
    ASSUME Margins, HInv, Pace, ~Pending, Room, phase # "done", ~Early
    PROVE  left > Latency
<1>0. TypeOK /\ effective \in Thresholds /\ (phase = "backoff" => attempt < Attempts)
  BY DEF HInv, TInv
<1>1. /\ effective \in Nat /\ Silence \in Nat /\ Gap <= Silence /\ Interval <= Silence
      /\ Silence + CloseMax + Latency < effective + Grace
      /\ Silence + Latency < effective + Grace
      /\ \A a \in Nat \ {0} : a < Attempts =>
            Delay * a \in Nat /\ Silence + Delay * a + Latency < effective + Grace
  BY <1>0, MarginsMean
<1>2. /\ left \in Nat /\ since \in Nat /\ pool \in Nat /\ cover \in Nat
      /\ attempt \in Nat \ {0} /\ reported \in BOOLEAN
  BY <1>0, Times DEF TypeOK
<1>3. phase \in {"attempting", "covering", "backoff", "closing"}
  BY <1>0 DEF Early, TypeOK
<1>4. CASE phase = "attempting" /\ ~reported
  <2>1. pool % Interval \in 0 .. Interval - 1
    BY <1>2, BeatEvery
  <2>2. left + (pool % Interval) >= effective + Grace
    BY <1>4 DEF Room
  <2> QED BY <1>1, <1>2, <2>1, <2>2, Times
<1>5. CASE phase = "attempting" /\ reported
  BY <1>1, <1>2, <1>5, Times DEF Room, Pace
<1>6. CASE phase = "backoff"
  BY <1>0, <1>1, <1>2, <1>6, Times DEF Room, Pace
<1>7. CASE phase = "closing"
  BY <1>1, <1>2, <1>7, Times DEF Room, Pace
<1>8. CASE phase = "covering"
  <2>1. PICK r \in 0 .. Interval - 1 : r = cover % Interval
    BY <1>2, BeatEvery
  <2>2. CASE since <= Gap
    BY <1>1, <1>2, <1>8, <2>2, Times DEF Room
  <2>3. CASE cover <= CoverageMax
    <3>1. left + r >= effective + Grace
      BY <1>8, <2>1, <2>3 DEF Room, CoverRoom, Pace, Starting
    <3> QED BY <1>1, <1>2, <2>1, <3>1, Times
  <2> QED BY <1>8, <2>2, <2>3 DEF Pace
<1> QED BY <1>2, <1>3, <1>4, <1>5, <1>6, <1>7, <1>8

\* The timer does not go off while the worker is well.
LEMMA TimeLeft ==
    ASSUME Margins, HInv, Watching, health = "well"
    PROVE  left > 0
<1>0. TypeOK /\ InTime /\ left \in Nat /\ since \in Nat /\ chan \in Seq(Message)
  BY Times DEF HInv, TInv, TypeOK
<1>1. CASE Early
  <2>1. since <= BootMax /\ left = Grace - since /\ BootMax + Latency < Grace
    BY <1>0, <1>1 DEF InTime, Pace, Margins
  <2> QED BY <1>0, <2>1, Times
<1>2. CASE Covered
  <2>1. PICK k \in 1 .. Len(chan) : left + chan[k].age > Latency
    BY <1>2 DEF Covered
  <2>2. chan[k] \in Message
    BY <1>0
  <2>3. chan[k].age \in 0 .. Latency
    BY <2>2 DEF Message
  <2> QED BY <1>0, <2>1, <2>3, Times
<1>3. CASE ~Early /\ ~Pending /\ Room
  <2>1. CASE phase = "done"
    <3>1. since <= Latency
      BY <1>0, <2>1 DEF InTime, Pace
    <3> QED BY <1>0, <1>3, <2>1, <3>1, Times DEF Room
  <2>2. CASE phase # "done"
    BY <1>0, <1>3, <2>2, RoomIsEnough, Times DEF InTime
  <2> QED BY <2>1, <2>2
<1> QED BY <1>0, <1>1, <1>2, <1>3 DEF InTime

-----------------------------------------------------------------------------
(* Sending and handling messages                                           *)

\* A heartbeat or a report sent in time covers what follows.
LEMMA SendCovers ==
    ASSUME TypeOK, NEW b \in Seq(Message), NEW k \in 1 .. Len(b), Rearming(b[k]), b[k].age = 0,
           chan' = chan \o b, left' = left, Covered \/ left > Latency
    PROVE  Covered'
<1>0. chan \in Seq(Message) /\ left \in Int /\ Latency \in Int
  BY Times DEF TypeOK
<1>1. CASE Covered
  <2>1. PICK j \in 1 .. Len(chan) : Rearming(chan[j]) /\ left + chan[j].age > Latency
    BY <1>1 DEF Covered
  <2>2. j \in 1 .. Len(chan') /\ chan'[j] = chan[j]
    BY <1>0, <2>1
  <2> QED BY <2>1, <2>2 DEF Covered, Rearming
<1>2. CASE left > Latency
  <2>1. Len(chan) + k \in 1 .. Len(chan') /\ chan'[Len(chan) + k] = b[k]
    BY <1>0
  <2>2. left' + b[k].age > Latency
    BY <1>0, <1>2
  <2> QED BY <2>1, <2>2 DEF Covered, Rearming
<1> QED BY <1>1, <1>2

LEMMA ConfigIs == /\ Config \in Message /\ Rearming(Config) /\ Config.age = 0
                  /\ Msg("case") \in Message /\ Rearming(Msg("case")) /\ Msg("case").age = 0
                  /\ ~Rearming(Msg("ready")) /\ ~Rearming(Msg("end"))
                  /\ Msg("ready") \in Message /\ Msg("end") \in Message
BY MessageTypes DEF Config, Msg, Rearming

\* A start of Vitest sends its first heartbeat before anything else happens.
LEMMA BeginCovers ==
    ASSUME Margins, TypeOK, NEW n \in 1 .. Attempts, NEW b \in {<< >>, <<Config>>},
           BeginAttempt(n, b), left' = left, effective' = effective, cover' \in Nat,
           Covered \/ left > Latency
    PROVE  InTime'
<1>1. PICK c \in Seq(Message) : /\ chan' = chan \o c
                                /\ \E k \in 1 .. Len(c) : c[k] = Config
  <2>1. chan \in Seq(Message) /\ Config \in Message
    BY ConfigIs DEF TypeOK
  <2>2. CASE b = << >>
    <3>1. <<Config>> \in Seq(Message) /\ 1 \in 1 .. Len(<<Config>>) /\ <<Config>>[1] = Config
      BY <2>1
    <3>2. chan' = chan \o <<Config>>
      BY <2>1, <2>2 DEF BeginAttempt
    <3> QED BY <3>1, <3>2
  <2>3. CASE b = <<Config>>
    <3>1. <<Config>> \o <<Config>> \in Seq(Message) /\ 1 \in 1 .. Len(<<Config>> \o <<Config>>)
          /\ (<<Config>> \o <<Config>>)[1] = Config
      BY <2>1, Twice
    <3>2. chan' = chan \o (<<Config>> \o <<Config>>)
      BY <2>1, <2>3 DEF BeginAttempt
    <3> QED BY <3>1, <3>2
  <2> QED BY <2>2, <2>3
<1>2. Covered'
  BY <1>1, ConfigIs, SendCovers
<1>3. phase' = "attempting" /\ since' = 0 /\ pool' = 0 /\ reported' = FALSE /\ 0 <= StartMax
  BY Times DEF BeginAttempt, Moves
<1>4. Pace' /\ ~Early'
  BY <1>3 DEF Pace, Early, Starting
<1> QED BY <1>2, <1>4 DEF InTime

\* A message that does not rearm the timer changes neither side.
LEMMA AppendKeeps ==
    ASSUME TypeOK, NEW m \in Message, ~Rearming(m), chan' = Append(chan, m), left' = left
    PROVE  (Covered => Covered') /\ (~Pending => ~Pending')
<1>0. chan \in Seq(Message)
  BY DEF TypeOK
<1>1. \A k \in 1 .. Len(chan') : chan'[k] = m \/ (k \in 1 .. Len(chan) /\ chan'[k] = chan[k])
  BY <1>0
<1>2. \A k \in 1 .. Len(chan) : k \in 1 .. Len(chan') /\ chan'[k] = chan[k]
  BY <1>0
<1>3. ASSUME Covered PROVE Covered'
  BY <1>2, <1>3 DEF Covered
<1>4. ASSUME ~Pending PROVE ~Pending'
  BY <1>1, <1>4 DEF Pending
<1> QED BY <1>3, <1>4

LEMMA TailKeeps ==
    ASSUME TypeOK, chan # << >>, chan' = Tail(chan), left' = left, ~Rearming(Head(chan))
    PROVE  (Covered => Covered') /\ (~Pending => ~Pending')
<1>0. chan \in Seq(Message) /\ Head(chan) = chan[1] /\ Len(chan) \in Nat
  BY DEF TypeOK
<1>1. \A k \in 1 .. Len(chan') : k + 1 \in 1 .. Len(chan) /\ chan'[k] = chan[k + 1]
  BY <1>0
<1>2. \A k \in 1 .. Len(chan) : k # 1 => k - 1 \in 1 .. Len(chan') /\ chan'[k - 1] = chan[k]
  BY <1>0
<1>3. ASSUME Covered PROVE Covered'
  <2>1. PICK k \in 1 .. Len(chan) : Rearming(chan[k]) /\ left + chan[k].age > Latency
    BY <1>3 DEF Covered
  <2>2. k # 1
    BY <1>0, <2>1
  <2> QED BY <1>2, <2>1, <2>2 DEF Covered
<1>4. ASSUME ~Pending PROVE ~Pending'
  BY <1>1, <1>4 DEF Pending
<1> QED BY <1>3, <1>4

\* Handling such a message gives the timer a whole threshold.
LEMMA RearmCovers ==
    ASSUME Margins, TypeOK', effective' \in Thresholds, left' = effective' + Grace,
           Pace, ~Early, UNCHANGED <<setting, workerVars>>
    PROVE  InTime'
<1>0. Grace \in Nat /\ Latency \in Nat
  BY Times
<1>2. PICK q \in Nat : q = Silence
  BY Times DEF Silence
<1>1. PICK e \in Nat : e = effective' /\ q + Latency < e + Grace
  <2>1. effective' \in Nat /\ Silence + Latency < effective' + Grace
    BY MarginsMean
  <2> QED BY <1>2, <2>1
<1>3. PICK l \in Nat : l = left' /\ l = e + Grace
  <2>1. left' = e + Grace
    BY <1>1
  <2>2. e + Grace \in Nat
    BY <1>0
  <2> QED BY <2>1, <2>2
<1>4. l > Latency
  <2>1. ASSUME NEW g \in Nat, NEW x \in Nat, q + x < e + g, l = e + g PROVE l > x
    BY <2>1
  <2> QED BY <1>0, <1>1, <1>3, <2>1
<1>5. Pace' /\ ~Early'
  BY DEF Pace, Early, Starting, workerVars
<1>6. since' \in Nat /\ pool' \in Nat /\ cover' \in Nat /\ chan' \in Seq(Message)
  BY Times DEF TypeOK
<1>7. CASE Pending'
  <2>1. PICK k \in 1 .. Len(chan') : Rearming(chan'[k])
    BY <1>7 DEF Pending, Rearming
  <2>2. chan'[k] \in Message
    BY <1>6
  <2>3. PICK a \in 0 .. Latency : a = chan'[k].age
    BY <2>2 DEF Message
  <2>4. l + a > Latency
    BY <1>0, <1>4, <2>3
  <2>5. left' + chan'[k].age > Latency
    BY <1>3, <2>3, <2>4
  <2> QED BY <1>5, <2>1, <2>5 DEF InTime, Covered, Rearming
<1>8. CASE ~Pending'
  <2>1. /\ pool' % Interval \in 0 .. Interval - 1 /\ Interval \in Nat
        /\ cover' % Interval \in 0 .. Interval - 1
    BY <1>6, BeatEvery, Times
  <2>2. PICK s \in Nat : s = since'
    BY <1>6
  <2>3. PICK p \in Nat, c \in Nat : p = pool' % Interval /\ c = cover' % Interval
    BY <2>1
  <2>4. /\ l + s >= e + Grace /\ l + q + s >= e + Grace /\ l + p >= e + Grace /\ l + c >= e + Grace
        /\ l + s > Latency
    BY <1>0, <1>2, <1>3, <1>4
  <2>5. Room'
    BY <1>1, <1>2, <1>3, <2>2, <2>3, <2>4 DEF Room, CoverRoom
  <2> QED BY <1>5, <1>8, <2>5 DEF InTime
<1> QED BY <1>7, <1>8

-----------------------------------------------------------------------------
(* Time passes                                                             *)

\* The phases of a healthy worker are shorter than the count of since.
LEMMA PhaseEnds ==
    ASSUME Margins, HInv
    PROVE  PhaseMax \in Nat /\ PhaseMax <= Longest
<1>0. TypeOK /\ effective \in Thresholds /\ (phase = "backoff" => attempt < Attempts)
  BY DEF HInv, TInv
<1>1. /\ effective \in Nat /\ effective <= MaxTimeout /\ Silence \in Nat /\ Gap <= Silence
      /\ BootMax + Latency < Grace /\ StartMax <= PoolMax
      /\ Silence + CloseMax + Latency < effective + Grace
      /\ Silence + Latency < effective + Grace
      /\ \A a \in Nat \ {0} : a < Attempts =>
            Delay * a \in Nat /\ Silence + Delay * a + Latency < effective + Grace
  BY <1>0, MarginsMean
<1>2. attempt \in Nat \ {0} /\ Longest = PoolMax + CoverageMax + MaxTimeout + Grace + Latency + 1
  BY <1>0, Times DEF TypeOK, Longest
<1>3. phase = "backoff" => Delay * attempt \in Nat /\ Delay * attempt < effective + Grace
  BY <1>0, <1>1, <1>2, Times
<1> QED BY <1>1, <1>2, <1>3, Times DEF PhaseMax

LEMMA TickPace ==
    ASSUME Margins, HInv, Watching, health = "well", Tick
    PROVE  /\ since' = since + 1 /\ left' = left - 1 /\ left' \in Nat /\ since' \in Nat
           /\ phase # "covering" => since < PhaseMax
           /\ phase = "covering" => since < Gap \/ cover < CoverageMax
           /\ Starting /\ setting.coverage => cover' = Older(cover, CoverageMax + 1)
           /\ phase = "attempting" /\ ~reported => pool' = pool + 1 /\ pool' <= StartMax
           /\ ~Early => Pace'
<1>0. TypeOK /\ Pace
  BY DEF HInv, TInv, InTime
<1>1. PhaseMax \in Nat /\ PhaseMax <= Longest /\ since \in Nat /\ left \in Nat
      /\ left > 0 /\ Longest \in Nat /\ cover \in Nat
  BY <1>0, PhaseEnds, Times DEF Tick, TypeOK
<1>6. /\ phase # "covering" => since < PhaseMax
      /\ phase = "covering" => since < Gap \/ cover < CoverageMax
  BY DEF Tick, OnTime
<1>7. Starting /\ setting.coverage => cover' = Older(cover, CoverageMax + 1)
  BY DEF Tick, Measuring, Starting
<1>8. ASSUME phase = "covering" PROVE since < Longest
  <2>1. /\ since <= cover \/ cover > CoverageMax
        /\ since < Gap \/ cover < CoverageMax
    BY <1>0, <1>6, <1>8 DEF Pace, Starting
  <2>2. /\ effective \in Nat /\ effective <= MaxTimeout /\ Silence \in Nat /\ Gap <= Silence
        /\ Silence + Latency < effective + Grace
    BY MarginsMean DEF HInv
  <2> QED BY <1>1, <2>1, <2>2, Times DEF Longest
<1>2. since' = since + 1 /\ left' = left - 1 /\ left' \in Nat /\ since' \in Nat
  <2>1. since' = IF since < Longest THEN since + 1 ELSE since
    BY DEF Tick, Older
  <2>2. since < Longest
    BY <1>1, <1>6, <1>8
  <2>3. left' = left - 1 /\ left - 1 \in Nat /\ since + 1 \in Nat
    BY <1>1 DEF Tick
  <2> QED BY <2>1, <2>2, <2>3
<1>3. ASSUME phase = "attempting", ~reported PROVE pool' = pool + 1 /\ pool' <= StartMax
  <2>1. since = pool /\ PhaseMax = StartMax /\ StartMax <= PoolMax /\ since < PhaseMax
    BY <1>0, <1>3, <1>6 DEF Pace, PhaseMax, Margins
  <2>2. pool' = IF pool < PoolMax + 1 THEN pool + 1 ELSE pool
    BY DEF Tick, Older
  <2> QED BY <1>1, <2>1, <2>2, Times
<1>4. UNCHANGED <<setting, phase, attempt, reported>>
  BY DEF Tick
<1>5. ASSUME ~Early PROVE Pace'
  <2>1. ~Early'
    BY <1>4, <1>5 DEF Early
  <2>2. phase = "attempting" /\ ~reported => since' = pool' /\ pool' <= StartMax
    BY <1>0, <1>2, <1>3 DEF Pace
  <2>3. phase # "covering" => since' <= PhaseMax
    BY <1>1, <1>2, <1>6
  <2>8. phase = "covering" => setting.coverage /\ (since' <= Gap \/ cover' <= CoverageMax)
    <3> SUFFICES ASSUME phase = "covering" PROVE setting.coverage /\ (since' <= Gap \/ cover' <= CoverageMax)
      OBVIOUS
    <3>1. setting.coverage /\ Starting
      BY <1>0 DEF Pace, Starting
    <3>2. cover' = IF cover < CoverageMax + 1 THEN cover + 1 ELSE cover
      BY <1>7, <3>1 DEF Older
    <3> QED BY <1>1, <1>2, <1>6, <3>1, <3>2, Times
  <2>9. Starting /\ setting.coverage => since' <= cover' \/ cover' > CoverageMax
    <3> SUFFICES ASSUME Starting, setting.coverage PROVE since' <= cover' \/ cover' > CoverageMax
      OBVIOUS
    <3>1. since <= cover \/ cover > CoverageMax
      BY <1>0 DEF Pace
    <3>2. cover' = IF cover < CoverageMax + 1 THEN cover + 1 ELSE cover
      BY <1>7 DEF Older
    <3> QED BY <1>1, <1>2, <3>1, <3>2, Times
  <2>4. phase = "attempting" /\ reported => since' <= Gap
    BY <2>3 DEF PhaseMax
  <2>5. phase = "backoff" => since' <= Delay * attempt
    BY <2>3 DEF PhaseMax
  <2>6. phase = "closing" => since' <= CloseMax
    BY <2>3 DEF PhaseMax
  <2>7. phase = "done" => since' <= Latency
    BY <2>3 DEF PhaseMax
  <2> QED BY <1>4, <2>1, <2>2, <2>4, <2>5, <2>6, <2>7, <2>8, <2>9 DEF Pace, Starting
<1> QED BY <1>2, <1>3, <1>5, <1>6, <1>7

\* Unless a heartbeat is due, the timer has what it had, less the time passed.
LEMMA TickRoom ==
    ASSUME Margins, HInv, Watching, health = "well", Tick, ~Early, Pace, Room
    PROVE  /\ phase # "done" => left' > Latency
           /\ Beats(pool', cover') = << >> => Room'
<1>0. TypeOK /\ effective \in Thresholds /\ (phase = "backoff" => attempt < Attempts)
  BY DEF HInv, TInv
<1>1. /\ since' = since + 1 /\ left' = left - 1 /\ left' \in Nat /\ since' \in Nat
      /\ phase # "covering" => since < PhaseMax
      /\ phase = "covering" => since < Gap \/ cover < CoverageMax
      /\ phase = "attempting" /\ ~reported => pool' = pool + 1 /\ pool' <= StartMax
      /\ Starting /\ setting.coverage => cover' = Older(cover, CoverageMax + 1)
  BY TickPace
<1>2. /\ effective \in Nat /\ Silence \in Nat /\ Gap <= Silence /\ Interval <= Silence
      /\ StartMax <= PoolMax
      /\ Silence + CloseMax + Latency < effective + Grace
      /\ Silence + Latency < effective + Grace
      /\ \A a \in Nat \ {0} : a < Attempts =>
            Delay * a \in Nat /\ Silence + Delay * a + Latency < effective + Grace
  BY <1>0, MarginsMean
<1>3. /\ left \in Nat /\ since \in Nat /\ pool \in Nat /\ cover \in Nat /\ attempt \in Nat \ {0} /\ reported \in BOOLEAN
  BY <1>0, Times DEF TypeOK
<1>4. phase \in {"attempting", "covering", "backoff", "closing", "done"}
  BY <1>0 DEF Early, TypeOK
<1>5. PICK l \in Nat, s \in Nat : l = left - 1 /\ s = since + 1 /\ l = left' /\ s = since'
  BY <1>1
<1>6. UNCHANGED <<setting, phase, reported, effective>>
  BY DEF Tick
<1>11. ASSUME Starting, setting.coverage, cover < CoverageMax
       PROVE  /\ cover' = cover + 1 /\ left' > Latency
              /\ Beats(pool', cover') = << >> => left' + (cover' % Interval) >= effective + Grace
  <2>1. PICK r \in 0 .. Interval - 1 : r = cover % Interval
    BY <1>3, BeatEvery
  <2>2. left + r >= effective + Grace
    BY <1>3, <1>11, <2>1, Times DEF Room, CoverRoom
  <2>3. cover' = cover + 1
    BY <1>1, <1>3, <1>11, Times DEF Older
  <2>4. left' > Latency
    <3>1. l > Latency
      BY <1>2, <1>3, <1>5, <2>1, <2>2, Times
    <3> QED BY <1>5, <3>1
  <2>5. ASSUME Beats(pool', cover') = << >> PROVE left' + (cover' % Interval) >= effective + Grace
    <3>1. ~CoverBeats(cover')
      <4>1. ASSUME CoverBeats(cover') PROVE FALSE
        <5>1. \A b \in {<< >>, <<Config>>} : b \o <<Config>> # << >>
          BY ConfigIs, Twice
        <5>2. PoolBeats(pool') \in BOOLEAN
          BY DEF PoolBeats, Starting
        <5> QED BY <2>5, <4>1, <5>1, <5>2 DEF Beats
      <4> QED BY <4>1
    <3>2. Measuring /\ cover + 1 <= CoverageMax
      BY <1>3, <1>11, Times DEF Measuring, Starting
    <3>3. (cover + 1) % Interval # 0
      BY <2>3, <3>1, <3>2 DEF CoverBeats
    <3>4. (cover + 1) % Interval = r + 1
      BY <1>3, <2>1, <3>3, BeatEvery
    <3>5. l + (r + 1) >= effective + Grace
      BY <1>2, <1>3, <1>5, <2>1, <2>2, Times
    <3> QED BY <1>5, <2>3, <3>4, <3>5
  <2> QED BY <2>3, <2>4, <2>5
<1>12. ASSUME Beats(pool', cover') = << >> PROVE CoverRoom'
  <2> SUFFICES ASSUME Starting', setting'.coverage, cover' <= CoverageMax
               PROVE  left' + (cover' % Interval) >= effective' + Grace
    BY DEF CoverRoom
  <2>1. Starting /\ setting.coverage
    BY <1>6 DEF Starting
  <2>2. cover' = IF cover < CoverageMax + 1 THEN cover + 1 ELSE cover
    BY <1>1, <2>1 DEF Older
  <2>3. cover < CoverageMax
    BY <1>3, <2>2, Times
  <2> QED BY <1>6, <1>11, <1>12, <2>1, <2>3
<1>7. CASE phase = "attempting" /\ ~reported
  <2>1. PICK r \in 0 .. Interval - 1 : r = pool % Interval
    BY <1>3, BeatEvery
  <2>2. left + r >= effective + Grace
    BY <1>7, <2>1 DEF Room
  <2>3. l > Latency
    BY <1>2, <1>3, <1>5, <2>1, <2>2, Times
  <2>4. ASSUME Beats(pool', cover') = << >> PROVE Room'
    <3>1. pool' = pool + 1 /\ pool' <= PoolMax
      BY <1>1, <1>2, <1>3, <1>7, Times
    <3>2. ~PoolBeats(pool')
      <4>1. ASSUME PoolBeats(pool') PROVE FALSE
        <5>1. \A b \in {<< >>, <<Config>>} : <<Config>> \o b # << >>
          BY ConfigIs, Twice
        <5>2. CoverBeats(cover') \in BOOLEAN
          BY DEF CoverBeats, Measuring
        <5> QED BY <2>4, <4>1, <5>1, <5>2 DEF Beats
      <4> QED BY <4>1
    <3>3. (pool + 1) % Interval # 0
      BY <1>7, <3>1, <3>2 DEF PoolBeats, Starting
    <3>4. (pool + 1) % Interval = r + 1
      BY <1>3, <2>1, <3>3, BeatEvery
    <3>5. pool' % Interval = r + 1
      BY <3>1, <3>4
    <3>6. l + (r + 1) >= effective + Grace
      BY <1>2, <1>3, <1>5, <2>1, <2>2, Times
    <3>7. left' + (pool' % Interval) >= effective' + Grace
      BY <1>5, <1>6, <3>5, <3>6
    <3> QED BY <1>6, <1>7, <1>12, <2>4, <3>7 DEF Room
  <2> QED BY <1>5, <2>3, <2>4
<1>8. CASE phase = "attempting" /\ reported
  <2>1. left + since >= effective + Grace /\ since < Gap
    BY <1>1, <1>8 DEF Room, PhaseMax
  <2>2. l + s >= effective + Grace /\ l > Latency
    BY <1>2, <1>3, <1>5, <2>1, Times
  <2>3. CoverRoom' => Room'
    BY <1>5, <1>6, <1>8, <2>2 DEF Room
  <2> QED BY <1>5, <1>12, <2>2, <2>3
<1>9. CASE phase \in {"backoff", "closing"}
  <2>1. left + Silence + since >= effective + Grace
    BY <1>9 DEF Room
  <2>2. PICK m \in Nat : since < m /\ Silence + m + Latency < effective + Grace
    BY <1>0, <1>1, <1>2, <1>3, <1>9, Times DEF PhaseMax
  <2>3. l + Silence + s >= effective + Grace /\ l > Latency
    BY <1>2, <1>3, <1>5, <2>1, <2>2, Times
  <2>4. CoverRoom' => Room'
    BY <1>5, <1>6, <1>9, <2>3 DEF Room
  <2> QED BY <1>5, <1>12, <2>3, <2>4
<1>10. CASE phase = "done"
  <2>1. l + s > Latency
    BY <1>3, <1>5, <1>10, Times DEF Room
  <2> QED BY <1>5, <1>6, <1>10, <1>12, <2>1 DEF Room
<1>13. CASE phase = "covering"
  <2>0. left + since >= effective + Grace /\ setting.coverage /\ Starting
    BY <1>13 DEF Room, Pace, Starting
  <2>1. l + s >= effective + Grace
    BY <1>2, <1>3, <1>5, <2>0, Times
  <2>2. since < Gap => l > Latency
    BY <1>2, <1>3, <1>5, <2>1, Times
  <2>3. left' > Latency
    BY <1>1, <1>5, <1>11, <1>13, <2>0, <2>2
  <2>4. CoverRoom' => Room'
    BY <1>5, <1>6, <1>13, <2>1 DEF Room
  <2> QED BY <1>12, <2>3, <2>4
<1> QED BY <1>4, <1>7, <1>8, <1>9, <1>10, <1>13

LEMMA TickCovers ==
    ASSUME TypeOK, Tick, Watching
    PROVE  /\ Covered => Covered'
           /\ left' > Latency /\ Beats(pool', cover') # << >> => Covered'
           /\ ~Pending /\ Beats(pool', cover') = << >> => ~Pending'
<1>0. chan \in Seq(Message) /\ left \in Nat /\ Latency \in Nat /\ left' = left - 1 /\ left > 0
  BY Times DEF TypeOK, Tick
<1>1. PICK b \in Seq(Message) : /\ b = Beats(pool', cover')
                                /\ \A k \in 1 .. Len(b) : b[k] = Config
  <2>1. pool' \in Nat /\ cover' \in Nat
    BY TickType, Times
  <2> QED BY <2>1, BeatsAreConfigs
<1>2. PICK a \in Seq(Message) : /\ a = Aged(chan) /\ Len(a) = Len(chan)
                                /\ \A k \in 1 .. Len(chan) : /\ a[k].type = chan[k].type
                                                             /\ a[k].age = chan[k].age + 1
  <2>1. \A k \in DOMAIN chan : chan[k].age < Latency
    BY DEF Tick
  <2> QED BY <1>0, <2>1, AgedType
<1>3. chan' = a \o b
  BY <1>1, <1>2, TickType
<1>4. ASSUME Covered PROVE Covered'
  <2>1. PICK k \in 1 .. Len(chan) : Rearming(chan[k]) /\ left + chan[k].age > Latency
    BY <1>4 DEF Covered
  <2>2. k \in 1 .. Len(chan') /\ chan'[k] = a[k]
    BY <1>0, <1>2, <1>3
  <2>3. Rearming(a[k])
    BY <1>2, <2>1 DEF Rearming
  <2>4. left' + a[k].age > Latency
    <3>0. chan[k] \in Message
      BY <1>0
    <3>1. chan[k].age \in 0 .. Latency
      BY <3>0 DEF Message
    <3>2. PICK g \in 0 .. Latency : g = chan[k].age
      BY <3>1
    <3>3. left + g > Latency /\ a[k].age = g + 1
      BY <1>2, <2>1, <3>2
    <3>4. (left - 1) + (g + 1) > Latency
      BY <1>0, <3>3
    <3> QED BY <1>0, <3>3, <3>4
  <2> QED BY <2>2, <2>3, <2>4 DEF Covered, Rearming
<1>5. ASSUME left' > Latency, b # << >> PROVE Covered'
  <2>1. 1 \in 1 .. Len(b) /\ b[1] = Config
    BY <1>1, <1>5
  <2>2. Len(a) + 1 \in 1 .. Len(chan') /\ chan'[Len(a) + 1] = Config
    BY <1>3, <2>1
  <2>3. PICK l \in Nat : l = left'
    BY <1>0
  <2>4. left' + 0 > Latency
    BY <1>0, <1>5, <2>3
  <2>5. Config.age = 0 /\ Rearming(Config)
    BY ConfigIs
  <2> QED BY <2>2, <2>4, <2>5 DEF Covered, Rearming
<1>6. ASSUME ~Pending, b = << >> PROVE ~Pending'
  <2>1. \A k \in 1 .. Len(chan') : k \in 1 .. Len(chan) /\ chan'[k] = a[k]
    BY <1>2, <1>3, <1>6
  <2> QED BY <1>2, <1>6, <2>1 DEF Pending, Rearming
<1> QED BY <1>1, <1>4, <1>5, <1>6

LEMMA TickInTime ==
    ASSUME Margins, HInv, Watching, health = "well", Tick
    PROVE  InTime'
<1>0. TypeOK /\ InTime
  BY DEF HInv, TInv
<1>1. UNCHANGED phase
  BY DEF Tick
<1>2. CASE Early
  <2>1. Beats(pool', cover') = << >>
    BY <1>2, ConfigIs DEF Beats, PoolBeats, CoverBeats, Starting, Measuring, Early
  <2>2. ~Pending'
    BY <1>0, <1>2, <2>1, TickCovers DEF InTime, Pace
  <2>3. since' = since + 1 /\ left' = left - 1 /\ since < PhaseMax /\ PhaseMax = BootMax
    BY <1>2, TickPace DEF PhaseMax, Early
  <2>4. since \in Nat /\ since < BootMax /\ left = Grace - since
    BY <1>0, <1>2, <2>3, Times DEF InTime, Pace, TypeOK
  <2>5. PICK s \in Nat : s = since + 1 /\ s = since'
    BY <2>3, <2>4
  <2>6. s <= BootMax /\ left' = Grace - s
    BY <2>3, <2>4, <2>5, Times
  <2> QED BY <1>1, <1>2, <2>2, <2>5, <2>6 DEF InTime, Pace, Early, Starting
<1>3. CASE ~Early
  <2>1. Pace' /\ ~Early'
    BY <1>1, <1>3, TickPace DEF Early
  <2>2. CASE Covered
    BY <1>0, <2>1, <2>2, TickCovers DEF InTime
  <2>3. CASE ~Pending /\ Room
    <3>1. /\ phase # "done" => left' > Latency
          /\ Beats(pool', cover') = << >> => Room'
      BY <1>0, <1>3, <2>3, TickRoom DEF InTime
    <3>2. phase = "done" => Beats(pool', cover') = << >>
      BY ConfigIs DEF Beats, PoolBeats, CoverBeats, Starting, Measuring
    <3>3. CASE Beats(pool', cover') = << >>
      BY <1>0, <2>1, <2>3, <3>1, <3>3, TickCovers DEF InTime
    <3>4. CASE Beats(pool', cover') # << >>
      BY <1>0, <2>1, <3>1, <3>2, <3>4, TickCovers DEF InTime
    <3> QED BY <3>3, <3>4
  <2> QED BY <1>0, <1>3, <2>2, <2>3 DEF InTime
<1> QED BY <1>2, <1>3

-----------------------------------------------------------------------------
(* The worker gets somewhere, and its messages are handled                 *)

\* The setting of a run is one that the margins consider.
LEMMA NextThreshold ==
    ASSUME TInv, effective \in Thresholds, [Next]_vars
    PROVE  effective' \in Thresholds
<1> USE DEF WorkerFrame, watchVars, workerVars
<1>1. ASSUME OnConfig PROVE effective' \in Thresholds
  <2>1. setting.timeout # Unknown => setting.timeout \in Timeouts
    BY DEF TInv, TypeOK, Settings
  <2>2. CASE setting.timeout = Unknown
    BY <1>1, <2>2 DEF OnConfig, Rearm
  <2>3. CASE setting.timeout # Unknown
    BY <1>1, <2>1, <2>3 DEF OnConfig, Rearm, Thresholds
  <2> QED BY <2>2, <2>3
<1>2. ASSUME OnCase PROVE effective' \in Thresholds
  BY <1>2 DEF OnCase, Rearm
<1>3. ASSUME Deliver PROVE effective' \in Thresholds
  BY <1>1, <1>2, <1>3 DEF Deliver, OnReady, OnEnd
<1>4. ASSUME Tick PROVE effective' = effective
  BY <1>4 DEF Tick
<1>5. ASSUME Boot \/ Discover \/ Report \/ Cover \/ Retry \/ EndBackoff \/ Close \/ SecondPass
             \/ Finish
      PROVE  effective' = effective
  BY <1>5 DEF Boot, Discover, Report, Cover, Retry, EndBackoff, Close, SecondPass, Finish
<1>6. ASSUME Exit \/ Stall \/ \E how \in {"stuck", "frozen"} : Fall(how) PROVE effective' = effective
  BY <1>6 DEF Exit, Stall, Fall
<1>7. ASSUME UNCHANGED vars PROVE effective' = effective
  BY <1>7 DEF vars
<1> QED BY <1>3, <1>4, <1>5, <1>6, <1>7 DEF Next

LEMMA Enough ==
    ASSUME Margins, HInv, InTime,
           phase \in {"discovering", "attempting", "covering", "backoff", "closing"}
    PROVE  Covered \/ left > Latency
<1>1. CASE phase = "discovering"
  <2>1. left = Grace - since /\ since <= BootMax /\ BootMax + Latency < Grace
    BY <1>1 DEF InTime, Pace, Early, Margins
  <2>2. since \in Nat
    BY Times DEF HInv, TInv, TypeOK
  <2> QED BY <2>1, <2>2, Times
<1>2. CASE phase # "discovering"
  <2>1. ~Early /\ phase # "done"
    BY <1>2 DEF Early
  <2> QED BY <2>1, RoomIsEnough DEF InTime
<1> QED BY <1>1, <1>2

LEMMA BootInTime == ASSUME Margins, HInv, InTime, Boot PROVE InTime'
<1>1. /\ TypeOK /\ phase = "booting" /\ phase' = "idle" /\ chan' = Append(chan, Msg("ready"))
      /\ since' = since /\ left' = left
  BY DEF Boot, WorkerFrame, watchVars, HInv, TInv
<1>2. ~Pending'
  BY <1>1, ConfigIs, AppendKeeps DEF InTime, Pace, Early
<1> QED BY <1>1, <1>2 DEF InTime, Pace, Early, Starting

LEMMA BeginInTime ==
    ASSUME Margins, HInv, InTime, Discover \/ EndBackoff \/ SecondPass
    PROVE  InTime'
<1>0. TInv
  BY DEF HInv
<1>1. effective' = effective /\ left' = left
  BY DEF Discover, EndBackoff, SecondPass, WorkerFrame, watchVars
<1>2. PICK n \in 1 .. Attempts, b \in {<< >>, <<Config>>} : BeginAttempt(n, b)
  <2>1. CASE Discover \/ SecondPass
    BY <2>1, Times DEF Discover, SecondPass
  <2>2. CASE EndBackoff
    <3>1. attempt + 1 \in 1 .. Attempts
      BY <1>0, <2>2, Times DEF EndBackoff, TInv, TypeOK
    <3> QED BY <2>2, <3>1 DEF EndBackoff
  <2> QED BY <2>1, <2>2
<1>3. phase \in {"discovering", "attempting", "backoff", "closing"}
  BY DEF Discover, EndBackoff, SecondPass
<1>4. Covered \/ left > Latency
  BY <1>3, Enough
<1>5. cover' \in Nat
  BY <1>0, Times DEF Discover, EndBackoff, SecondPass, TInv, TypeOK
<1> QED BY <1>0, <1>1, <1>2, <1>4, <1>5, BeginCovers DEF TInv

LEMMA ReportInTime == ASSUME Margins, HInv, InTime, Report PROVE InTime'
<1>1. /\ TypeOK /\ phase = "attempting" /\ phase' = "attempting" /\ since' = 0 /\ reported' = TRUE
      /\ chan' = Append(chan, Msg("case")) /\ left' = left /\ cover' = cover /\ cover \in Nat
  BY Times DEF TypeOK, Report, Moves, WorkerFrame, watchVars, HInv, TInv
<1>2. Covered \/ left > Latency
  BY <1>1, Enough
<1>3. PICK b \in Seq(Message) : b = <<Msg("case")>> /\ Len(b) = 1 /\ b[1] = Msg("case")
  <2>1. PICK m \in Message : m = Msg("case")
    BY ConfigIs
  <2>2. <<m>> \in Seq(Message) /\ Len(<<m>>) = 1 /\ <<m>>[1] = m
    OBVIOUS
  <2> QED BY <2>1, <2>2
<1>4. chan' = chan \o b
  BY <1>1, <1>3 DEF TypeOK
<1>5. 1 \in 1 .. Len(b) /\ Rearming(b[1]) /\ b[1].age = 0
  BY <1>3, ConfigIs
<1>6. Covered'
  BY <1>1, <1>2, <1>4, <1>5, SendCovers
<1>7. Pace' /\ ~Early'
  BY <1>1, Times DEF Pace, Early, Starting
<1> QED BY <1>6, <1>7 DEF InTime

LEMMA CoverInTime == ASSUME Margins, HInv, InTime, Cover PROVE InTime'
<1>1. /\ phase = "attempting" /\ phase' = "covering" /\ reported /\ setting.coverage
      /\ UNCHANGED <<setting, since, cover, chan, effective, left>>
  BY DEF Cover, WorkerFrame, watchVars
<1>2. Pace' /\ ~Early'
  BY <1>1 DEF InTime, Pace, Early, Starting
<1>3. Room => Room'
  BY <1>1 DEF Room, CoverRoom, Starting
<1>4. (Covered => Covered') /\ (~Pending => ~Pending')
  BY <1>1 DEF Covered, Pending, Rearming
<1> QED BY <1>1, <1>2, <1>3, <1>4 DEF InTime, Early

LEMMA QuietInTime == ASSUME Margins, HInv, InTime, Retry \/ Close PROVE InTime'
<1>0. TypeOK /\ effective \in Thresholds
  BY DEF HInv, TInv
<1>1. /\ phase \in {"attempting", "covering"} /\ phase' \in {"backoff", "closing"} /\ since' = 0
      /\ UNCHANGED <<chan, attempt, effective, left>>
  BY DEF Retry, Close, Starting, Moves, WorkerFrame, watchVars
<1>2. /\ Silence \in Nat /\ Gap <= Silence /\ Interval <= Silence /\ effective \in Nat
  BY <1>0, MarginsMean
<1>3. left \in Nat /\ pool \in Nat /\ cover \in Nat /\ since \in Nat /\ attempt \in Nat /\ reported \in BOOLEAN
  BY <1>0, Times DEF TypeOK
<1>4. Pace' /\ ~Early'
  <2>1. 0 <= Delay * attempt /\ 0 <= CloseMax
    BY <1>3, Times
  <2> QED BY <1>1, <2>1 DEF Pace, Early, Starting
<1>5. CASE Covered
  BY <1>1, <1>4, <1>5 DEF InTime, Covered
<1>6. CASE ~Pending /\ Room
  <2>1. left + Silence + 0 >= effective + Grace
    <3>0. CASE phase = "covering"
      <4>1. left + since >= effective + Grace
        BY <1>6, <3>0 DEF Room
      <4>2. PICK r \in 0 .. Interval - 1 : r = cover % Interval
        BY <1>3, BeatEvery
      <4>3. since <= Gap \/ left + r >= effective + Grace
        BY <1>6, <3>0, <4>2 DEF Room, CoverRoom, InTime, Pace, Starting
      <4> QED BY <1>2, <1>3, <4>1, <4>2, <4>3, Times
    <3>1. CASE phase = "attempting" /\ reported
      <4>1. left + since >= effective + Grace /\ since <= Gap
        BY <1>1, <1>6, <3>1 DEF Room, InTime, Pace
      <4> QED BY <1>2, <1>3, <4>1, Times
    <3>2. CASE phase = "attempting" /\ ~reported
      <4>1. PICK r \in 0 .. Interval - 1 : r = pool % Interval
        BY <1>3, BeatEvery
      <4>2. left + r >= effective + Grace
        BY <1>1, <1>6, <3>2, <4>1 DEF Room
      <4> QED BY <1>2, <1>3, <4>1, <4>2, Times
    <3> QED BY <1>1, <1>3, <3>0, <3>1, <3>2
  <2>2. Room'
    BY <1>1, <2>1 DEF Room, CoverRoom, Starting
  <2>3. ~Pending'
    BY <1>1, <1>6 DEF Pending
  <2> QED BY <1>4, <2>2, <2>3 DEF InTime
<1> QED BY <1>1, <1>5, <1>6 DEF InTime, Early

LEMMA FinishInTime == ASSUME Margins, HInv, InTime, Finish PROVE InTime'
<1>1. /\ TypeOK /\ phase \in {"discovering", "attempting", "covering", "closing"} /\ phase' = "done" /\ since' = 0
      /\ chan' = Append(chan, Msg("end")) /\ left' = left
  BY DEF Finish, Moves, WorkerFrame, watchVars, HInv, TInv
<1>2. (Covered => Covered') /\ (~Pending => ~Pending')
  BY <1>1, ConfigIs, AppendKeeps
<1>3. Pace' /\ ~Early'
  BY <1>1, Times DEF Pace, Early, Starting
<1>4. CASE ~Covered
  <2>1. ~Pending
    BY <1>4 DEF InTime, Pace
  <2>2. PICK l \in Nat : l = left
    BY <1>1, Times DEF TypeOK
  <2>3. l > Latency
    BY <1>1, <1>4, <2>2, Enough
  <2>4. l + 0 > Latency
    BY <2>3, Times
  <2>5. Room'
    BY <1>1, <2>2, <2>4 DEF Room, CoverRoom, Starting
  <2> QED BY <1>2, <1>3, <2>1, <2>5 DEF InTime
<1> QED BY <1>2, <1>3, <1>4 DEF InTime

LEMMA DeliverInTime ==
    ASSUME Margins, HInv, InTime, TypeOK', effective' \in Thresholds, Deliver, ~OnEnd
    PROVE  InTime'
<1>0. TypeOK /\ chan # << >> /\ chan' = Tail(chan)
  BY DEF HInv, TInv, Deliver
<1>1. CASE OnReady
  <2>1. /\ UNCHANGED <<setting, attempt, reported, since, pool, cover, effective, left>>
        /\ phase' = IF phase = "idle" THEN "discovering" ELSE phase
    BY <1>1 DEF Deliver, OnReady, watchVars
  <2>2. ~Rearming(Head(chan))
    BY <1>1 DEF OnReady, Rearming
  <2>3. (Covered => Covered') /\ (~Pending => ~Pending')
    BY <1>0, <2>1, <2>2, TailKeeps
  <2>4. CASE Early
    BY <2>1, <2>3, <2>4 DEF InTime, Pace, Early, Starting
  <2>5. CASE ~Early
    <3>1. phase' = phase
      BY <2>1, <2>5 DEF Early
    <3>2. Pace' /\ ~Early'
      BY <2>1, <2>5, <3>1 DEF InTime, Pace, Early, Starting
    <3>3. Room => Room'
      BY <2>1, <3>1 DEF Room, CoverRoom, Starting
    <3> QED BY <2>3, <2>5, <3>2, <3>3 DEF InTime
  <2> QED BY <2>4, <2>5
<1>2. CASE OnConfig \/ OnCase
  <2>1. Rearming(chan[1]) /\ 1 \in 1 .. Len(chan)
    <3>1. chan \in Seq(Message)
      BY <1>0 DEF TypeOK
    <3>2. Head(chan) = chan[1] /\ 1 \in 1 .. Len(chan)
      BY <1>0, <3>1
    <3>3. Rearming(Head(chan))
      BY <1>2 DEF OnConfig, OnCase, Rearming
    <3> QED BY <3>2, <3>3
  <2>2. ~Early
    BY <2>1 DEF InTime, Pace, Pending
  <2>3. left' = effective' + Grace /\ UNCHANGED <<setting, workerVars>>
    BY <1>2 DEF Deliver, OnConfig, OnCase, Rearm
  <2> QED BY <2>2, <2>3, RearmCovers DEF InTime
<1> QED BY <1>1, <1>2 DEF Deliver

LEMMA NextHealthy == Margins /\ HInv /\ [Next]_vars => HInv'
<1> SUFFICES ASSUME Margins, HInv, [Next]_vars PROVE HInv'
  OBVIOUS
<1> USE DEF WorkerFrame, watchVars, workerVars
<1>1. TInv /\ TInv' /\ effective' \in Thresholds
  BY NextType, NextThreshold DEF HInv
<1>2. HealthyNeverStalled'
  <2>1. CASE Stall
    <3>1. health # "well"
      BY <2>1, TimeLeft DEF Stall
    <3> QED BY <2>1, <3>1 DEF Stall, HealthyNeverStalled
  <2>2. CASE ~Stall
    <3>1. verdict' = "stalled" => verdict = "stalled"
      BY <2>2 DEF Next, vars, Tick, Boot, Discover, Report, Cover, Retry, EndBackoff, Close, SecondPass, Finish,
                  Fall, Deliver, OnReady, OnConfig, OnCase, OnEnd, Exit
    <3>2. health' = "well" => health = "well"
      BY DEF Next, vars, Tick, Boot, Discover, Report, Cover, Retry, EndBackoff, Close, SecondPass, Finish,
             Fall, Deliver, OnReady, OnConfig, OnCase, OnEnd, Exit, Stall
    <3> QED BY <3>1, <3>2 DEF HInv, HealthyNeverStalled
  <2> QED BY <2>1, <2>2
<1>3. ASSUME verdict' = "watching", health' = "well" PROVE InTime'
  <2>1. CASE Tick
    <3>1. Watching /\ health = "well"
      BY <1>3, <2>1 DEF Tick
    <3> QED BY <2>1, <3>1, TickInTime
  <2>2. CASE Boot \/ Discover \/ Report \/ Cover \/ Retry \/ EndBackoff \/ Close \/ SecondPass \/ Finish
    <3>1. InTime
      BY <2>2 DEF HInv, Works, Boot, Discover, Report, Cover, Retry, EndBackoff, Close, SecondPass, Finish
    <3> QED BY <2>2, <3>1, BootInTime, BeginInTime, ReportInTime, CoverInTime, QuietInTime, FinishInTime
  <2>3. CASE Deliver
    <3>1. Watching /\ health = "well"
      BY <1>3, <2>3 DEF Deliver, OnReady, OnConfig, OnCase, OnEnd
    <3>2. ~OnEnd
      BY <1>3 DEF OnEnd
    <3> QED BY <1>1, <2>3, <3>1, <3>2, DeliverInTime DEF HInv, TInv
  <2>4. CASE Exit \/ Stall \/ \E how \in {"stuck", "frozen"} : Fall(how)
    BY <1>3, <2>4 DEF Exit, Stall, Fall
  <2>5. CASE UNCHANGED vars
    <3>1. InTime
      BY <1>3, <2>5 DEF HInv, Watching, vars
    <3> QED BY <2>5, <3>1 DEF vars, InTime, Pace, Early, Starting, Pending, Covered, Room, CoverRoom
  <2> QED BY <2>1, <2>2, <2>3, <2>4, <2>5 DEF Next
<1> QED BY <1>1, <1>2, <1>3 DEF HInv, Watching

\* For every value of the times that leaves the margins: a worker that is well
\* is never killed by the stall timer (HealthyNeverStalled), however long its
\* pool starts, its backoffs and the silent tails of its coverage take within
\* what the heartbeats cover.
THEOREM HealthyWorkersLive == Margins => (Spec => []HealthyNeverStalled)
<1>1. Margins /\ HInv /\ [Next]_vars => HInv'
  BY NextHealthy
<1>2. Margins => []Margins
  <2> SUFFICES ASSUME Margins PROVE []Margins
    OBVIOUS
  <2> QED BY PTL
<1>3. HInv => HealthyNeverStalled
  BY DEF HInv
<1> QED BY <1>1, <1>2, <1>3, InitHealthy, PTL DEF Spec

-----------------------------------------------------------------------------
(* A worker that gets nowhere is not waited for                            *)

Window == IF setting.coverage THEN CoverageMax ELSE PoolMax

\* A heartbeat in the channel was sent within the window, those to come fall
\* silent after it, and the timer cannot have been given more than a threshold
\* since the last was handled.
Bounds ==
    /\ left + since <= Window + MaxTimeout + Grace + Latency
    /\ \A k \in 1 .. Len(chan) : Rearming(chan[k]) => since <= Window + chan[k].age
    /\ Starting => since <= pool \/ pool = PoolMax + 1
    /\ Measuring => since <= cover \/ cover = CoverageMax + 1

BInv == TInv /\ (Watching => Bounds)

LEMMA WindowType == TypeOK => Window \in Nat /\ PoolMax <= Window
BY Times DEF Window

LEMMA RestartBounds ==
    ASSUME TypeOK, since = 0
    PROVE  Bounds
<1>1. PICK w \in Nat : w = Window
  BY WindowType
<1>2. left \in Nat /\ left <= MaxTimeout + Grace /\ pool \in Nat /\ cover \in Nat
  BY Times DEF TypeOK
<1>3. \A k \in 1 .. Len(chan) : chan[k].age \in Nat
  <2>1. ASSUME NEW k \in 1 .. Len(chan) PROVE chan[k].age \in Nat
    <3>1. chan[k] \in Message
      BY DEF TypeOK
    <3>2. chan[k].age \in 0 .. Latency
      BY <3>1 DEF Message
    <3> QED BY <3>2, Times
  <2> QED BY <2>1
<1>4. left + since <= Window + MaxTimeout + Grace + Latency
  BY <1>1, <1>2, Times
<1>5. \A k \in 1 .. Len(chan) : since <= Window + chan[k].age
  <2>1. ASSUME NEW a \in Nat PROVE 0 <= w + a
    OBVIOUS
  <2> QED BY <1>1, <1>3, <2>1
<1> QED BY <1>2, <1>4, <1>5 DEF Bounds

LEMMA InitBounds == Init => BInv
<1> SUFFICES ASSUME Init PROVE BInv
  OBVIOUS
<1>1. TInv
  BY InitType
<1> QED BY <1>1, RestartBounds DEF BInv, TInv, Init

LEMMA TickBounds ==
    ASSUME TypeOK, Bounds, Tick, Watching
    PROVE  Bounds'
<1>1. PICK w \in Nat : w = Window /\ w = Window' /\ PoolMax <= w
  <2>1. Window' = Window
    BY DEF Tick, Window
  <2> QED BY <2>1, WindowType
<1>2. PICK l \in Nat : l + 1 = left /\ l = left'
  <2>1. left \in Nat /\ left > 0 /\ left' = left - 1
    BY Times DEF TypeOK, Tick
  <2>2. left - 1 \in Nat /\ (left - 1) + 1 = left
    BY <2>1
  <2> QED BY <2>1, <2>2
<1>3. PICK s \in Nat, t \in Nat : s = since /\ t = since' /\ t <= s + 1
  <2>1. since \in 0 .. Longest /\ since' = Older(since, Longest) /\ Longest \in Nat
    BY Times DEF TypeOK, Tick
  <2>2. Older(since, Longest) \in 0 .. Longest /\ Older(since, Longest) <= since + 1
    BY <2>1, OlderRange
  <2>3. since \in Nat /\ since' \in Nat /\ since' <= since + 1
    BY <2>1, <2>2
  <2> QED BY <2>3
<1>4. UNCHANGED <<setting, phase, health>>
  BY DEF Tick
<1>5. left' + since' <= Window' + MaxTimeout + Grace + Latency
  <2>1. (l + 1) + s <= w + MaxTimeout + Grace + Latency
    BY <1>1, <1>2, <1>3 DEF Bounds
  <2>2. ASSUME NEW m \in Nat, NEW g \in Nat, NEW y \in Nat, t <= s + 1, (l + 1) + s <= w + m + g + y
        PROVE  l + t <= w + m + g + y
    BY <2>2
  <2>3. l + t <= w + MaxTimeout + Grace + Latency
    BY <1>3, <2>1, <2>2, Times
  <2> QED BY <1>1, <1>2, <1>3, <2>3
<1>6. PICK p \in Nat : p = pool' /\ (Starting => t <= p \/ p = PoolMax + 1)
  <2>1. pool \in 0 .. PoolMax + 1 /\ pool' = IF pool < PoolMax + 1 THEN pool + 1 ELSE pool
    BY DEF TypeOK, Tick, Older
  <2>2. pool' \in Nat
    BY <2>1, Times
  <2>3. ASSUME Starting PROVE t <= pool' \/ pool' = PoolMax + 1
    <3>1. s <= pool \/ pool = PoolMax + 1
      BY <1>3, <2>3 DEF Bounds
    <3> QED BY <1>3, <2>1, <3>1, Times
  <2> QED BY <2>2, <2>3
<1>7. PICK c \in Nat : c = cover' /\ (Measuring => t <= c \/ c = CoverageMax + 1)
  <2>1. cover \in 0 .. CoverageMax + 1 /\ cover' \in Nat
    BY TickType, Times DEF TypeOK
  <2>2. ASSUME Measuring PROVE t <= cover' \/ cover' = CoverageMax + 1
    <3>1. s <= cover \/ cover = CoverageMax + 1
      BY <1>3, <2>2 DEF Bounds
    <3>2. cover' = IF cover < CoverageMax + 1 THEN cover + 1 ELSE cover
      BY <2>2 DEF Tick, Older
    <3> QED BY <1>3, <2>1, <3>1, <3>2, Times
  <2> QED BY <2>1, <2>2
<1>8. PICK b \in Seq(Message) : b = Beats(pool', cover') /\ \A k \in 1 .. Len(b) : b[k] = Config
  <2>1. pool' \in Nat /\ cover' \in Nat
    BY <1>6, <1>7
  <2> QED BY <2>1, BeatsAreConfigs
<1>9. PICK a \in Seq(Message) : /\ a = Aged(chan) /\ Len(a) = Len(chan)
                                /\ \A k \in 1 .. Len(chan) : /\ a[k].type = chan[k].type
                                                             /\ a[k].age = chan[k].age + 1
  <2>1. chan \in Seq(Message) /\ \A k \in DOMAIN chan : chan[k].age < Latency
    BY DEF Tick, TypeOK
  <2> QED BY <2>1, AgedType
<1>10. chan' = a \o b
  BY <1>8, <1>9, TickType
<1>11. ASSUME b # << >> PROVE t <= w
  <2>1. PoolBeats(p) \/ CoverBeats(c)
    BY <1>6, <1>7, <1>8, <1>11, ConfigIs DEF Beats
  <2>2. CASE PoolBeats(p)
    BY <1>1, <1>3, <1>6, <2>2, Times DEF PoolBeats
  <2>3. CASE CoverBeats(c)
    <3>1. w = CoverageMax /\ c <= CoverageMax /\ Measuring
      BY <1>1, <2>3 DEF CoverBeats, Measuring, Window
    <3> QED BY <1>3, <1>7, <3>1, Times
  <2> QED BY <2>1, <2>2, <2>3
<1>12. ASSUME NEW k \in 1 .. Len(chan'), Rearming(chan'[k]) PROVE since' <= Window' + chan'[k].age
  <2>1. CASE k \in 1 .. Len(a)
    <3>1. chan'[k] = a[k] /\ Rearming(chan[k])
      BY <1>9, <1>10, <1>12, <2>1 DEF Rearming
    <3>2. chan[k] \in Message
      BY <1>9, <2>1 DEF TypeOK
    <3>3. PICK g \in Nat : g = chan[k].age
      <4>1. chan[k].age \in 0 .. Latency
        BY <3>2 DEF Message
      <4> QED BY <4>1, Times
    <3>4. s <= w + g
      BY <1>1, <1>3, <1>9, <2>1, <3>1, <3>3 DEF Bounds
    <3>5. a[k].age = g + 1 /\ t <= w + (g + 1)
      BY <1>3, <1>9, <2>1, <3>3, <3>4
    <3> QED BY <1>1, <1>3, <3>1, <3>5
  <2>2. CASE k \notin 1 .. Len(a)
    <3>1. k - Len(a) \in 1 .. Len(b) /\ chan'[k] = b[k - Len(a)]
      BY <1>10, <2>2
    <3>2. b # << >> /\ chan'[k].age = 0
      BY <1>8, <3>1, ConfigIs
    <3>3. t <= w + 0
      BY <1>11, <3>2
    <3> QED BY <1>1, <1>3, <3>2, <3>3
  <2> QED BY <2>1, <2>2
<1>13. Starting' => since' <= pool' \/ pool' = PoolMax + 1
  BY <1>3, <1>4, <1>6 DEF Starting
<1>14. Measuring' => since' <= cover' \/ cover' = CoverageMax + 1
  BY <1>3, <1>4, <1>7 DEF Measuring
<1> QED BY <1>5, <1>12, <1>13, <1>14 DEF Bounds

LEMMA NextBounds == BInv /\ [Next]_vars => BInv'
<1> SUFFICES ASSUME BInv, [Next]_vars PROVE BInv'
  OBVIOUS
<1> USE DEF WorkerFrame, watchVars, workerVars
<1>1. TInv /\ TInv' /\ TypeOK /\ TypeOK'
  BY NextType DEF BInv, TInv
<1>2. ASSUME verdict' = "watching" PROVE Bounds'
  <2>1. CASE Tick
    <3>1. Watching
      BY <2>1 DEF Tick
    <3> QED BY <1>1, <2>1, <3>1, TickBounds DEF BInv
  <2>2. CASE Discover \/ Report \/ Retry \/ EndBackoff \/ Close \/ SecondPass \/ Finish
    <3>1. since' = 0
      BY <2>2 DEF Discover, Report, Cover, Retry, EndBackoff, Close, SecondPass, Finish, BeginAttempt, Moves
    <3>2. (TypeOK /\ since = 0 => Bounds)'
      BY RestartBounds, PTL
    <3> QED BY <1>1, <3>1, <3>2
  <2>3. CASE Boot
    <3>1. Bounds /\ UNCHANGED <<setting, since, left>> /\ phase' = "idle"
          /\ chan' = Append(chan, Msg("ready"))
      BY <2>3 DEF BInv, Boot, Works
    <3>2. ASSUME NEW k \in 1 .. Len(chan'), Rearming(chan'[k])
          PROVE  since' <= Window' + chan'[k].age
      <4>1. chan'[k] = Msg("ready") \/ (k \in 1 .. Len(chan) /\ chan'[k] = chan[k])
        BY <1>1, <3>1 DEF TypeOK
      <4>2. k \in 1 .. Len(chan) /\ chan'[k] = chan[k]
        BY <3>2, <4>1, ConfigIs DEF Rearming
      <4>3. since <= Window + chan[k].age
        BY <3>1, <3>2, <4>2 DEF Bounds, Rearming
      <4> QED BY <3>1, <4>2, <4>3 DEF Window
    <3>3. left' + since' <= Window' + MaxTimeout + Grace + Latency
      BY <3>1 DEF Bounds, Window
    <3> QED BY <3>1, <3>2, <3>3 DEF Bounds, Starting, Measuring
  <2>8. CASE Cover
    <3>1. /\ Bounds /\ UNCHANGED <<setting, since, pool, cover, chan, left>>
          /\ phase = "attempting" /\ phase' = "covering"
      BY <2>8 DEF BInv, Cover, Works
    <3> QED BY <3>1 DEF Bounds, Window, Starting, Measuring, Rearming
  <2>4. CASE \E how \in {"stuck", "frozen"} : Fall(how)
    <3>1. Bounds /\ UNCHANGED <<setting, phase, since, pool, cover, chan, left>>
      BY <2>4 DEF BInv, Fall, Works
    <3> QED BY <3>1 DEF Bounds, Window, Starting, Measuring, Rearming
  <2>5. CASE Deliver
    <3>1. /\ Bounds /\ UNCHANGED <<setting, since, pool, cover>> /\ chan # << >> /\ chan' = Tail(chan)
          /\ ~OnEnd
      BY <1>2, <2>5 DEF BInv, Deliver, OnReady, OnConfig, OnCase, OnEnd
    <3>2. ASSUME NEW k \in 1 .. Len(chan'), Rearming(chan'[k])
          PROVE  since' <= Window' + chan'[k].age
      <4>1. k + 1 \in 1 .. Len(chan) /\ chan'[k] = chan[k + 1]
        BY <1>1, <3>1 DEF TypeOK
      <4>2. since <= Window + chan[k + 1].age
        BY <3>1, <3>2, <4>1 DEF Bounds, Rearming
      <4> QED BY <3>1, <4>1, <4>2 DEF Window
    <3>3. /\ phase' = phase \/ phase' = "discovering"
          /\ Starting' => since' <= pool' \/ pool' = PoolMax + 1
          /\ Measuring' => since' <= cover' \/ cover' = CoverageMax + 1
      <4>1. phase' = phase \/ phase' = "discovering"
        BY <2>5, <3>1 DEF Deliver, OnReady, OnConfig, OnCase
      <4> QED BY <3>1, <4>1 DEF Bounds, Starting, Measuring
    <3>4. left' + since' <= Window' + MaxTimeout + Grace + Latency
      <4>1. CASE OnReady
        BY <3>1, <4>1 DEF OnReady, Bounds, Window
      <4>2. CASE OnConfig \/ OnCase
        <5>1. 1 \in 1 .. Len(chan) /\ Rearming(chan[1]) /\ chan[1] \in Message
          BY <1>1, <3>1, <4>2 DEF OnConfig, OnCase, Rearming, TypeOK
        <5>2. PICK g \in 0 .. Latency : g = chan[1].age
          BY <5>1 DEF Message
        <5>3. PICK w \in Nat, s \in Nat : w = Window /\ s = since /\ s <= w + g
          <6>1. since <= Window + g /\ since \in Nat
            BY <1>1, <3>1, <5>1, <5>2, Times DEF Bounds, TypeOK
          <6> QED BY <1>1, <6>1, WindowType
        <5>4. PICK l \in 0 .. MaxTimeout + Grace : l = left'
          BY <1>1, <4>2, RearmType
        <5>5. ASSUME NEW m \in Nat, NEW r \in Nat, NEW y \in Nat, g <= y, l <= m + r, s <= w + g
              PROVE  l + s <= w + m + r + y
          BY <5>5, Times
        <5>6. l + s <= w + MaxTimeout + Grace + Latency
          <6>1. g <= Latency /\ l <= MaxTimeout + Grace /\ s <= w + g
            BY <5>2, <5>3, <5>4, Times
          <6>2. MaxTimeout \in Nat /\ Grace \in Nat /\ Latency \in Nat
            BY Times
          <6> QED BY <5>5, <6>1, <6>2
        <5> QED BY <3>1, <5>3, <5>4, <5>6 DEF Window
      <4> QED BY <2>5, <3>1, <4>1, <4>2 DEF Deliver
    <3> QED BY <3>2, <3>3, <3>4 DEF Bounds
  <2>6. CASE Exit \/ Stall
    BY <1>2, <2>6 DEF Exit, Stall
  <2>7. CASE UNCHANGED vars
    <3>1. Bounds
      BY <1>2, <2>7 DEF BInv, Watching, vars
    <3> QED BY <2>7, <3>1 DEF vars, Bounds, Window, Starting, Measuring, Rearming
  <2> QED BY <2>1, <2>2, <2>3, <2>4, <2>5, <2>6, <2>7, <2>8 DEF Next
<1> QED BY <1>1, <1>2 DEF BInv, Watching

\* For every value of the times: a worker that gets nowhere, hung with its
\* event loop alive and still sending heartbeats included, is waited for no
\* longer than its heartbeat window, one threshold and the latency of a message
\* (StallBounded).
THEOREM HungWorkersAreKilled == Spec => []StallBounded
<1>1. BInv => StallBounded
  <2> SUFFICES ASSUME BInv, Watching PROVE since <= Window + MaxTimeout + Grace + Latency
    BY DEF StallBounded, Window
  <2>1. PICK w \in Nat : w = Window
    BY WindowType DEF BInv, TInv
  <2>2. left \in Nat /\ since \in Nat /\ left + since <= w + MaxTimeout + Grace + Latency
    BY <2>1, Times DEF BInv, TInv, TypeOK, Bounds
  <2> QED BY <2>1, <2>2, Times
<1> QED BY <1>1, InitBounds, NextBounds, PTL DEF Spec

\* Every variable has its type, and the timeout in effect stays within the sane
\* range (TypeOK), whatever testTimeout a project configures.
THEOREM TimeoutsAreSane == Spec => []TypeOK
<1>1. TInv => TypeOK
  BY DEF TInv
<1> QED BY <1>1, TypeInvariant, PTL

===============================================================================
