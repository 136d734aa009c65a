------------------------------- MODULE CexFeeds -------------------------------
(***************************************************************************)
(* The exchange feeds of src/src/priceSignal/cexAggregator.ts and the      *)
(* signal src/src/priceSignal/cexSource.ts makes of them: sockets that     *)
(* open, fall silent and close, quotes that age, the sampler that drops    *)
(* stale quotes, recycles silent sockets and rejects outliers, and the age *)
(* check of a cycle that reads the last sample.                            *)
(*                                                                         *)
(* Time is counted in units of the staleness limit divided by Stale; the   *)
(* sampler runs any number of times in a unit, and a stalled process may   *)
(* miss whole units.  The reconnect delay is any positive time, so the     *)
(* backoff counter is left out; stop() ends the process.                   *)
(***************************************************************************)
EXTENDS Integers, FiniteSets, FiniteSetsExt, Functions

CONSTANTS
  Feeds,          \* the exchanges
  Liars,          \* exchanges whose quotes may be anything
  Mids,           \* mid prices of the honest exchanges
  LiarMids,       \* mid prices of the others
  MinFeeds,       \* CEX_MIN_FEEDS
  Stale,          \* CEX_STALE_MS, in units
  MaxDispersion,  \* CEX_MAX_DISPERSION_BPS
  Flaky,          \* exchanges whose connections may fail or fall silent
  MaxFaults       \* bound on the times they do

ASSUME FeedsAssumption ==
  /\ IsFiniteSet(Feeds) /\ Liars \subseteq Feeds /\ Flaky \subseteq Feeds
  /\ Mids \subseteq Nat \ {0} /\ LiarMids \subseteq Nat \ {0}
  /\ Mids # {} /\ IsFiniteSet(Mids) /\ LiarMids # {}
  /\ MinFeeds \in Nat \ {0} /\ Stale \in Nat \ {0}
  /\ MaxDispersion \in Nat /\ MaxFaults \in Nat

VARIABLES
  sock,    \* the current socket of each feed
  latest,  \* its latest quote: the mid, or NoQuote
  age,     \* units since that quote; with no quote, since the socket opened
  agg,     \* the aggregator's last sample with the age of its oldest quote, or NoSample
  faults   \* connections that failed or fell silent so far

vars == <<sock, latest, age, agg, faults>>

NoQuote == 0
NoSample == [readings |-> <<>>, age |-> 0, oldest |-> 0]
NoPrice == -1

\* "down" is a closed socket whose reconnect timer runs, "mute" an open socket
\* on which no quote arrives.
Socks == {"down", "connecting", "open", "mute"}

Old == 2 * Stale + 1

Older(a) == IF a < Old THEN a + 1 ELSE Old

-----------------------------------------------------------------------------
(* The aggregate.  Prices are doubled so that a median of two is exact.    *)

Least(s) == CHOOSE x \in s : \A y \in s : x <= y

\* The i-th of the readings in the order by price.
Nth(q, i) ==
  CHOOSE v \in Range(q) :
    /\ Cardinality({f \in DOMAIN q : q[f] < v}) < i
    /\ i <= Cardinality({f \in DOMAIN q : q[f] <= v})

\* Twice the median of the readings, a function from feeds to mids: the two
\* feeds (or the one) in the middle of the order by price.
TwiceMedian(q) ==
  LET n == Cardinality(DOMAIN q)
  IN  IF n % 2 = 1 THEN 2 * Nth(q, (n + 1) \div 2)
      ELSE Nth(q, n \div 2) + Nth(q, n \div 2 + 1)

RejectOutliers(q) ==
  LET center == TwiceMedian(q)
      distance(f) == IF 2 * q[f] > center THEN 2 * q[f] - center ELSE center - 2 * q[f]
  IN  Restrict(q, {f \in DOMAIN q : distance(f) * 10000 <= center * MaxDispersion})

\* Mutant: the quotes that disagree are kept.
BuildAggregateKeepingAll(q) ==
  IF Cardinality(DOMAIN q) < MinFeeds THEN <<>> ELSE q

\* The quotes a sample rests on, none when too few are live or agree.
BuildAggregate(q) ==
  IF Cardinality(DOMAIN q) < MinFeeds THEN <<>>
  ELSE LET filtered == RejectOutliers(q)
       IN  IF Cardinality(DOMAIN filtered) < MinFeeds THEN <<>> ELSE filtered

-----------------------------------------------------------------------------
(* Sockets.                                                                *)

Fresh(f) == latest[f] # NoQuote /\ age[f] <= Stale

Fault(f) == f \in Flaky /\ faults < MaxFaults /\ faults' = faults + 1

\* The handshake completes.  connectedAt matters only while no quote was ever
\* received.
Opened(f, s) ==
  /\ sock[f] = "connecting"
  /\ sock' = [sock EXCEPT ![f] = s]
  /\ age' = [age EXCEPT ![f] = IF latest[f] = NoQuote THEN 0 ELSE @]
  /\ UNCHANGED <<latest, agg>>

Opens(f) == Opened(f, "open") /\ UNCHANGED faults

OpensMute(f) == Opened(f, "mute") /\ Fault(f)

\* The exchange stops publishing on a socket that stays open.
FallsSilent(f) ==
  /\ Fault(f) /\ sock[f] = "open"
  /\ sock' = [sock EXCEPT ![f] = "mute"]
  /\ UNCHANGED <<latest, age, agg>>

\* A rejected handshake, an error or a close: the socket is destroyed and the
\* reconnect timer set, once.
Fails(f) ==
  /\ Fault(f) /\ sock[f] \in {"connecting", "open", "mute"}
  /\ sock' = [sock EXCEPT ![f] = "down"]
  /\ UNCHANGED <<latest, age, agg>>

\* The reconnect timer fires.
Connect(f) ==
  /\ sock[f] = "down"
  /\ sock' = [sock EXCEPT ![f] = "connecting"]
  /\ UNCHANGED <<latest, age, agg, faults>>

\* setQuote; a malformed message or an invalid quote changes nothing.
SetQuote(f) ==
  /\ sock[f] = "open"
  /\ \E mid \in IF f \in Liars THEN LiarMids ELSE Mids :
       latest' = [latest EXCEPT ![f] = mid]
  /\ age' = [age EXCEPT ![f] = 0]
  /\ UNCHANGED <<sock, agg, faults>>

-----------------------------------------------------------------------------
(* The sampler and the clock.                                              *)

\* Mutant: only a socket that never had a quote is recycled.
RecycleIfSilentNew(f) == latest[f] = NoQuote /\ age[f] > 2 * Stale /\ sock[f] \in {"open", "mute"}

\* recycleIfSilent: terminate() closes the socket, whose close event sets the
\* reconnect timer.
RecycleIfSilent(f) == age[f] > 2 * Stale /\ sock[f] \in {"open", "mute"}

\* Mutant: a sample without enough feeds keeps the one before it.
SampleKeeping ==
  LET live == {f \in Feeds : Fresh(f)}
      q == BuildAggregate(Restrict(latest, live))
  IN  /\ sock' = [f \in Feeds |->
                    IF f \notin live /\ RecycleIfSilent(f) THEN "down" ELSE sock[f]]
      /\ agg' = IF DOMAIN q = {} THEN [agg EXCEPT !.age = 0]
                ELSE [readings |-> q, age |-> 0, oldest |-> Max({age[f] : f \in DOMAIN q})]
      /\ UNCHANGED <<latest, age, faults>>

\* sample(): what is stale is dropped, what is silent recycled, and the rest
\* aggregated or, when it is too little, withdrawn.
Sample ==
  LET live == {f \in Feeds : Fresh(f)}
      q == BuildAggregate(Restrict(latest, live))
  IN  /\ sock' = [f \in Feeds |->
                    IF f \notin live /\ RecycleIfSilent(f) THEN "down" ELSE sock[f]]
      /\ agg' = IF DOMAIN q = {} THEN NoSample
                ELSE [readings |-> q, age |-> 0, oldest |-> Max({age[f] : f \in DOMAIN q})]
      /\ UNCHANGED <<latest, age, faults>>

\* An exchange that publishes does so in every unit.
Tick ==
  /\ \A f \in Feeds : sock[f] = "open" => latest[f] # NoQuote /\ age[f] = 0
  /\ age' = [f \in Feeds |-> Older(age[f])]
  /\ agg' = IF agg = NoSample THEN agg ELSE [agg EXCEPT !.age = IF @ > Stale THEN @ ELSE @ + 1, !.oldest = Older(@)]
  /\ UNCHANGED <<sock, latest, faults>>

\* Mutant: a cycle trusts the last sample whatever its age.
SignalUnchecked == IF agg = NoSample THEN NoPrice ELSE TwiceMedian(agg.readings)

\* getSignal: twice the price, or NoPrice for a cycle that is skipped.
Signal ==
  IF agg = NoSample \/ agg.age > Stale THEN NoPrice ELSE TwiceMedian(agg.readings)

\* start() has connected every feed.
Init ==
  /\ sock = [f \in Feeds |-> "connecting"]
  /\ latest = [f \in Feeds |-> NoQuote]
  /\ age = [f \in Feeds |-> Old]
  /\ agg = NoSample
  /\ faults = 0

Exchange(f) == Opens(f) \/ OpensMute(f) \/ FallsSilent(f) \/ Fails(f) \/ SetQuote(f)

Next == (\E f \in Feeds : Exchange(f) \/ Connect(f)) \/ Sample \/ Tick

Spec == Init /\ [][Next]_vars

\* The timers run, and the exchanges answer but for MaxFaults times.  A socket
\* that reopens with an old quote is recycled by the first sample after it
\* opened, so its first quote must at some reconnection come before that: SF.
Fairness ==
  /\ \A f \in Feeds : WF_vars(Connect(f) \/ Opens(f)) /\ SF_vars(SetQuote(f))
  /\ WF_vars(Sample) /\ WF_vars(Tick)

FairSpec == Spec /\ Fairness

-----------------------------------------------------------------------------
(* Properties.                                                             *)

TypeOK ==
  /\ sock \in [Feeds -> Socks]
  /\ latest \in [Feeds -> {NoQuote} \union Mids \union LiarMids]
  /\ age \in [Feeds -> 0..Old]
  /\ DOMAIN agg.readings \subseteq Feeds
  /\ agg.age \in 0..(Stale + 1) /\ agg.oldest \in 0..Old
  /\ faults \in 0..MaxFaults

\* A cycle never trades on a quote older than twice the limit, however late the
\* sampler runs and whatever the sockets do: one limit at the sample, one at
\* the read.
SignalIsFresh ==
  Signal # NoPrice =>
    /\ agg.oldest <= 2 * Stale
    /\ Cardinality(DOMAIN agg.readings) >= MinFeeds

\* Exchanges that agree with one another are not moved off their market by ones
\* that lie, at most half of MinFeeds, even when stale feeds leave it with as few
\* honest ones: the price is within the dispersion limit of an honest quote (the
\* limit is a share of the price below it, of the quote above).
LiarIsOutvoted ==
  Signal # NoPrice =>
    /\ Signal * 10000 >= 2 * Least(Mids) * (10000 - MaxDispersion)
    /\ Signal * (10000 - MaxDispersion) <= 2 * Max(Mids) * 10000

\* Sockets that fail, close or stay open in silence come back: once the
\* exchanges answer, every quote is fresh for good and the signal returns.
FeedsRecover ==
  /\ <>[](\A f \in Feeds : Fresh(f))
  /\ []<>(Signal # NoPrice)

=============================================================================
