----------------------------- MODULE VastWindow -----------------------------
(***************************************************************************)
(* One GPU window on vast.ai, the fallback runtime: VastClient.run rents   *)
(* the cheapest machine that will start, sends it the mix for Demucs and   *)
(* the vocals for Whisper, and gives the machine back.  vast.ai bills a    *)
(* machine from its creation until it is destroyed; the client sees a      *)
(* machine only through calls that may fail or lose their reply.           *)
(*                                                                         *)
(* Time is counted from the client's first offer, in units of about two    *)
(* minutes.  Money is price times time.                                    *)
(***************************************************************************)
EXTENDS Integers, Sequences, FiniteSets, FiniteSetsExt

CONSTANTS
  Market,       \* the machines vast.ai may list: [host, price, rank, fits]
  Nobody,       \* no machine
  UnknownHost,  \* the host of an offer without a readable host_id
  MaxPrice,     \* settings.vast_max_price_per_hour
  MaxJobCost,   \* settings.vast_max_job_cost
  DayCap,       \* settings.vast_daily_cost_cap, 0 when disabled
  Priors,       \* what the last 24 hours may have cost already
  ReadyTimeout, \* settings.vast_instance_ready_timeout
  Attempts,     \* max(1, settings.vast_offer_attempts)
  MaxSeconds,   \* MAX_INSTANCE_SECONDS
  Grace,        \* the 120 seconds each GPU call is given at least
  TransferTime, \* bound: what sending the audio and fetching the results may add
                \* to a GPU call, whose timeout is one of each read and write
  CallTime,     \* bound: how long one call to vast.ai, or the tunnel, takes
  PollTime,     \* bound: how long one turn of a startup poll takes
  MaxFaults     \* bound: calls that get lost, and kills of the process

ASSUME MarketAssumption ==
  /\ \A o \in Market : o.price \in Nat \ {0} /\ o.rank \in Nat
  /\ IsFiniteSet(Market)
ASSUME LimitsAssumption ==
  /\ MaxPrice \in Nat /\ MaxJobCost \in Nat /\ DayCap \in Nat
  /\ Priors \subseteq Nat
  /\ ReadyTimeout \in Nat /\ Attempts \in Nat \ {0} /\ MaxSeconds \in Nat
  /\ Grace \in Nat /\ TransferTime \in Nat /\ CallTime \in Nat /\ PollTime \in Nat \ {0}
  /\ MaxFaults \in Nat

ASSUME NobodyAssumption == Nobody \notin Market

VARIABLES
  pc,       \* where run is
  prior,    \* prior_24h_cost_micros
  offers,   \* the offers its loop has not looked at yet
  mine,     \* instance_id, as the machine it stands for
  price,    \* of the offer the loop tried last
  excluded, \* excluded_hosts
  attempts,
  startBy,  \* startup_deadline
  remote,   \* remote_timeout of the next GPU call
  now,      \* since started
  result,   \* "none", "ok" (a GpuJobResult), "refused" or "error"
  charged,  \* its vast_cost
  live,     \* vast.ai: the machines being billed
  spent,    \* vast.ai: what they have cost
  faults    \* ghost: calls lost and kills so far

client == <<prior, excluded, attempts>>
vars   == <<pc, prior, offers, mine, price, excluded, attempts, startBy, remote,
            now, result, charged, live, spent, faults>>

Starting == {"ssh", "ready"}
Working  == {"begin", "demucs", "whisper"}

TypeOK ==
  /\ pc \in {"idle", "offers", "release", "finally", "done"} \cup Starting \cup Working
  /\ prior \in Priors
  /\ offers \in Seq(Market)
  /\ mine \in Market \cup {Nobody}
  /\ price \in Nat
  /\ excluded \subseteq {o.host : o \in Market} \ {UnknownHost}
  /\ attempts \in 0..Attempts
  /\ startBy \in Nat /\ remote \in Nat /\ now \in Nat
  /\ result \in {"none", "ok", "refused", "error"}
  /\ charged \in Nat
  /\ live \subseteq Market
  /\ spent \in Nat
  /\ faults \in 0..MaxFaults

-----------------------------------------------------------------------------
(* What things cost *)

Least(a, b) == IF a < b THEN a ELSE b
Most(a, b)  == IF a > b THEN a ELSE b

Deadline(p) == Least(MaxSeconds, MaxJobCost \div p)

Rate(machines) == MapThenSumSet(LAMBDA o : o.price, machines)

\* A step of the client that takes d; vast.ai bills what was live during it.
Elapse(d) ==
  /\ now' = now + d
  /\ spent' = spent + d * Rate(live)

Fault ==
  /\ faults < MaxFaults
  /\ faults' = faults + 1

-----------------------------------------------------------------------------
(* Choosing and renting *)

\* Seeded fault: offers are tried in the order vast.ai likes them.
ByRank(a, b) == a.rank < b.rank

Cheaper(a, b) == a.price < b.price \/ (a.price = b.price /\ a.rank < b.rank)

\* The listed offers that fit, cheapest first.
SelectOffers(listed) ==
  LET fit == {o \in listed : o.price <= MaxPrice /\ o.fits}
  IN  {s \in [1 .. Cardinality(fit) -> fit] :
         \A i, j \in DOMAIN s : i < j => s[i] # s[j] /\ ~Cheaper(s[j], s[i])}

DayCapReached == DayCap > 0 /\ (prior >= DayCap \/ prior + MaxJobCost > DayCap)

\* run as far as its loop: the daily cap, the ssh key, and the offers; a call
\* to vast.ai that fails here leaves nothing behind.
Start ==
  /\ pc = "idle"
  /\ \/ /\ DayCapReached
        /\ pc' = "done" /\ result' = "refused"
        /\ UNCHANGED offers
     \/ /\ ~DayCapReached
        /\ \E listed \in SUBSET Market :
             /\ offers' \in SelectOffers(listed)
             /\ IF offers' = <<>>
                THEN pc' = "done" /\ result' = "error"
                ELSE pc' = "offers" /\ UNCHANGED result
  /\ UNCHANGED <<client, mine, price, startBy, remote, now, charged, live, spent, faults>>

\* No offer is left, or as many were tried as one window may try.
Exhausted == offers = <<>> \/ attempts = Attempts

GiveUp ==
  /\ pc = "offers"
  /\ Exhausted
  /\ pc' = "finally" /\ result' = "error"
  /\ UNCHANGED <<client, offers, mine, price, startBy, remote, now, charged, live, spent,
                 faults>>

SkipOffer ==
  /\ pc = "offers"
  /\ ~Exhausted
  /\ Head(offers).host \in excluded
  /\ offers' = Tail(offers)
  /\ UNCHANGED <<pc, client, mine, price, startBy, remote, now, result, charged, live,
                 spent, faults>>

\* _create_instance for the next offer, up to vast.ai's answer; its deadline is
\* reckoned from the start of the window.
TryOffer(d) ==
  /\ pc = "offers"
  /\ ~Exhausted
  /\ Head(offers).host \notin excluded
  /\ offers' = Tail(offers)
  /\ price' = Head(offers).price
  /\ Elapse(d)
  /\ UNCHANGED <<prior, excluded, remote, charged>>

\* vast.ai answers with an instance id.
Rent(d) ==
  /\ TryOffer(d)
  /\ live' = live \cup {Head(offers)}
  /\ mine' = Head(offers)
  /\ attempts' = attempts + 1
  /\ startBy' = Least(Deadline(price'), now' + ReadyTimeout)
  /\ pc' = "ssh"
  /\ UNCHANGED <<result, faults>>

\* It refuses: another tenant was faster, which is not held against the
\* attempts, or any other HTTP error.
RentRefused(d) ==
  /\ TryOffer(d)
  /\ attempts' \in {attempts, attempts + 1}
  /\ UNCHANGED <<pc, mine, startBy, result, live, faults>>

\* The reply does not come in time, or names no instance: the client takes the
\* next offer while the machine it does not know of may be live.
RentUnanswered(d) ==
  /\ TryOffer(d)
  /\ Fault
  /\ attempts' = attempts + 1
  /\ live' \in {live, live \cup {Head(offers)}}
  /\ UNCHANGED <<pc, mine, startBy, result>>

\* The connection breaks: a URLError is neither a VastError nor a TimeoutError.
RentBroken(d) ==
  /\ TryOffer(d)
  /\ Fault
  /\ live' \in {live, live \cup {Head(offers)}}
  /\ pc' = "finally" /\ result' = "error"
  /\ UNCHANGED <<mine, attempts, startBy>>

-----------------------------------------------------------------------------
(* Starting the machine *)

Polls(from, to) ==
  /\ pc = from /\ pc' = to
  /\ UNCHANGED <<client, offers, mine, price, startBy, remote, charged, live>>

InTime == now <= startBy

\* _wait_for_ssh, then _wait_remote_ready: budget first, then the machine.
StartupTurn(from, to) ==
  /\ InTime
  /\ \E d \in 1..PollTime :
       /\ Elapse(d)
       /\ \/ Polls(from, from) /\ UNCHANGED <<result, faults>>
          \/ Polls(from, to) /\ UNCHANGED <<result, faults>>
          \/ Polls(from, "release") /\ UNCHANGED <<result, faults>>
          \/ Polls(from, "finally") /\ Fault /\ result' = "error"

\* _ensure_budget raises; VastReadyTimeoutError and VastBudgetError are both
\* VastErrors here, and the loop goes on to the next offer.
StartupOver(from) ==
  /\ ~InTime
  /\ Polls(from, "release")
  /\ UNCHANGED <<now, result, spent, faults>>

WaitForSsh      == pc = "ssh" /\ (StartupTurn("ssh", "ready") \/ StartupOver("ssh"))
WaitRemoteReady == pc = "ready" /\ (StartupTurn("ready", "begin") \/ StartupOver("ready"))

\* _destroy_instance, tried once, its errors suppressed.
Destroy ==
  \/ live' = live \ {mine} /\ UNCHANGED faults
  \/ Fault /\ UNCHANGED live

\* Seeded fault: the machine that did not start is left to the finally clause.
ReleaseNothing == UNCHANGED <<live, faults>>

ReleaseIt == Destroy

\* The machine that did not start is given back and its host avoided.
Release ==
  /\ pc = "release" /\ pc' = "offers"
  /\ excluded' = excluded \cup ({mine.host} \ {UnknownHost})
  /\ ReleaseIt
  /\ mine' = Nobody
  /\ \E d \in 0..CallTime : Elapse(d)
  /\ UNCHANGED <<prior, offers, price, attempts, startBy, remote, result,
                 charged>>

-----------------------------------------------------------------------------
(* The work *)

Fails == pc' = "finally" /\ result' = "error"

OverBudget(t) == t > Deadline(price)

Works == UNCHANGED <<client, offers, mine, price, startBy, live, faults>>

\* The remote_timeout reckoned at t: what the deadline leaves, and no less than
\* the grace.
Allowed(t) == Most(Grace, Deadline(price) - t)

\* The budget is looked at once more and the first call's timeout reckoned, then
\* the tunnel comes up or does not.
Begin ==
  /\ pc = "begin"
  /\ \/ OverBudget(now) /\ Fails /\ UNCHANGED <<now, spent, remote>>
     \/ /\ ~OverBudget(now)
        /\ remote' = Allowed(now)
        /\ \E d \in 0..CallTime : Elapse(d)
        /\ (pc' = "demucs" /\ UNCHANGED result) \/ Fails
  /\ UNCHANGED charged
  /\ Works

\* _post_zip: the answer is waited for as long as the timeout allows, and the
\* transfers come on top; it may be an error, or not come.
Post(next) ==
  \E d \in 0..(remote + TransferTime) :
    /\ Elapse(d)
    /\ next \/ (Fails /\ UNCHANGED <<charged, remote>>)

\* Seeded fault: the second call is made however long the first one took.
DemucsUnchecked ==
  /\ pc = "demucs"
  /\ Post(/\ remote' = Allowed(now')
          /\ pc' = "whisper"
          /\ UNCHANGED <<result, charged>>)
  /\ Works

\* The call for the stems; the budget is looked at again before the second call,
\* and its timeout reckoned.
Demucs ==
  /\ pc = "demucs"
  /\ Post(/\ ~OverBudget(now')
          /\ remote' = Allowed(now')
          /\ pc' = "whisper"
          /\ UNCHANGED <<result, charged>>)
  /\ Works

\* The call for the transcript; the result is reckoned when it is there.
Whisper ==
  /\ pc = "whisper"
  /\ Post(/\ pc' = "finally" /\ result' = "ok"
          /\ charged' = price * now'
          /\ UNCHANGED remote)
  /\ Works

-----------------------------------------------------------------------------
(* The end *)

Finally ==
  /\ pc = "finally" /\ pc' = "done"
  /\ IF mine = Nobody THEN UNCHANGED <<live, faults>> ELSE Destroy
  /\ \E d \in 0..CallTime : Elapse(d)
  /\ UNCHANGED <<client, offers, mine, price, startBy, remote, result, charged>>

\* The coordinator is killed: no finally clause runs.
Kill ==
  /\ pc \notin {"idle", "done"}
  /\ Fault
  /\ pc' = "done" /\ result' = "error"
  /\ UNCHANGED <<client, offers, mine, price, startBy, remote, now, charged, live, spent>>

Init ==
  /\ pc = "idle"
  /\ prior \in Priors
  /\ offers = <<>>
  /\ mine = Nobody
  /\ price = 0
  /\ excluded = {}
  /\ attempts = 0
  /\ startBy = 0 /\ remote = 0 /\ now = 0
  /\ result = "none"
  /\ charged = 0
  /\ live = {} /\ spent = 0
  /\ faults = 0

Renting ==
  \E d \in 0..CallTime : Rent(d) \/ RentRefused(d) \/ RentUnanswered(d) \/ RentBroken(d)

Next ==
  \/ Start \/ GiveUp \/ SkipOffer \/ Renting
  \/ WaitForSsh \/ WaitRemoteReady \/ Release
  \/ Begin \/ Demucs \/ Whisper
  \/ Finally \/ Kill

Spec == Init /\ [][Next]_vars
-----------------------------------------------------------------------------
(* Properties *)

\* As long as no call gets lost, every machine that is billed is the one the
\* client knows of, and when run is through none is: "the vast instance is
\* ALWAYS destroyed in a finally clause", across all the machines it tried.
InstanceOwned ==
  faults = 0 =>
    /\ live \subseteq {mine}
    /\ pc = "done" => live = {}

\* The result's vast_cost charges the whole window at the price of its last
\* machine.  That covers what all machines of the window cost, those that did
\* not start included, because offers are tried cheapest first; the final
\* destroy call alone comes after the reckoning.
CostCovers ==
  (faults = 0 /\ result = "ok") => spent <= charged + price * CallTime

\* How far past its deadline a machine may be kept: the tunnel, the call in
\* flight with its grace and its transfers, or the poll in flight, and the call
\* that destroys it.
Late    == Grace + TransferTime
Overrun == CallTime + Most(Late, PollTime) + CallTime

\* What a window costs exceeds vast_max_job_cost by no more than the overrun of
\* the last machine and, for each machine rented after the budget was gone, the
\* time it takes to destroy it: though two GPU calls are made, and nothing in the
\* code limits their transfers, those of one alone count.
SpendBounded ==
  faults = 0 => spent <= MaxJobCost + MaxPrice * (Overrun + (attempts - 1) * CallTime)
=============================================================================
