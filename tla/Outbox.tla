------------------------------- MODULE Outbox -------------------------------
(***************************************************************************)
(* The outbox worker: processes that poll outbox_events, post every        *)
(* pending event to n8n and commit what happened to the whole batch at     *)
(* once.  A worker may die at any point; the container restarts it.        *)
(***************************************************************************)
EXTENDS Naturals

CONSTANTS
  Events,       \* the rows that will ever be inserted
  Workers,      \* processes running outbox_worker.main
  CreatedAt,    \* created_at: when the transaction that inserts the event began
  Configured,   \* settings.n8n_webhook_url and n8n_webhook_secret are both set
  MaxAttempts,  \* settings.outbox_max_attempts
  MaxCount      \* bound of the counters: posts and deaths beyond it are not told apart

ASSUME EventsAssumption == CreatedAt \in [Events -> Nat]
ASSUME SettingsAssumption == Configured \in BOOLEAN
ASSUME LimitsAssumption == MaxAttempts \in Nat \ {0} /\ MaxCount \in Nat /\ MaxCount >= MaxAttempts

VARIABLES
  (* Committed rows. *)
  status,    \* "absent" until the domain transaction commits
  attempts,
  (* Private state of the workers. *)
  wpc,       \* "down", "idle" or "deliver"
  batch,     \* the rows locked by SELECT ... FOR UPDATE SKIP LOCKED
  tried,     \* those the loop has posted
  accepted,  \* those n8n answered with 2xx
  (* The outside world. *)
  sent,      \* how many posts of each event a worker made
  received,  \* the events that reached n8n
  crashes    \* how often a worker died

rows       == <<status, attempts>>
worker     == <<wpc, batch, tried, accepted>>
world      == <<sent, received>>
outboxVars == <<rows, worker, world, crashes>>

(* A worker holds rows only while it delivers, posts only rows it holds, and *)
(* counts at most MaxAttempts attempts.                                      *)
OutboxTypeOK ==
  /\ status \in [Events -> {"absent", "pending", "delivered"}]
  /\ attempts \in [Events -> 0 .. MaxAttempts]
  /\ wpc \in [Workers -> {"down", "idle", "deliver"}]
  /\ batch \in [Workers -> SUBSET Events]
  /\ tried \in [Workers -> SUBSET Events]
  /\ accepted \in [Workers -> SUBSET Events]
  /\ sent \in [Events -> 0 .. MaxCount]
  /\ received \in SUBSET Events
  /\ crashes \in 0 .. MaxCount
  /\ \A w \in Workers : /\ accepted[w] \subseteq tried[w] /\ tried[w] \subseteq batch[w]
                        /\ wpc[w] # "deliver" => batch[w] = {}

OutboxInit ==
  /\ status = [e \in Events |-> "absent"]
  /\ attempts = [e \in Events |-> 0]
  /\ wpc = [w \in Workers |-> "idle"]
  /\ batch = [w \in Workers |-> {}]
  /\ tried = [w \in Workers |-> {}]
  /\ accepted = [w \in Workers |-> {}]
  /\ sent = [e \in Events |-> 0]
  /\ received = {}
  /\ crashes = 0

-----------------------------------------------------------------------------
(* The transaction that evaluated maintenance commits: its events appear in   *)
(* commit order, which need not be the order of created_at.                   *)
Emit(e) ==
  /\ status[e] = "absent"
  /\ status' = [status EXCEPT ![e] = "pending"]
  /\ UNCHANGED <<attempts, worker, world, crashes>>

(* Operators whose comment begins with "Mutant" are wrong on purpose: putting *)
(* one in the place of the definition that follows it must break a property.  *)

(* Mutant: the select does not lock the rows. *)
ClaimableUnlocked(e) == status[e] = "pending" /\ attempts[e] < MaxAttempts

(* Mutant: an attempt fewer than configured. *)
ClaimableEarlyStop(e) ==
  /\ status[e] = "pending" /\ attempts[e] + 1 < MaxAttempts
  /\ \A w \in Workers : e \notin batch[w]

(* What the select returns: pending rows with attempts left that no other *)
(* worker has locked.                                                     *)
Claimable(e) ==
  /\ status[e] = "pending" /\ attempts[e] < MaxAttempts
  /\ \A w \in Workers : e \notin batch[w]

(* outbox.deliver_pending_events, up to the loop.  A poll that finds nothing, *)
(* or no webhook in the settings, changes nothing.                            *)
Poll(w) ==
  /\ wpc[w] = "idle" /\ Configured
  /\ \E e \in Events : Claimable(e)
  /\ batch' = [batch EXCEPT ![w] = {e \in Events : Claimable(e)}]
  /\ wpc' = [wpc EXCEPT ![w] = "deliver"]
  /\ UNCHANGED <<rows, tried, accepted, world, crashes>>

(* The loop follows created_at. *)
IsNext(w, e) ==
  /\ wpc[w] = "deliver" /\ e \in batch[w] \ tried[w]
  /\ \A f \in batch[w] \ tried[w] : CreatedAt[e] <= CreatedAt[f]

(* n8n gets the event and answers 2xx, gets it without its answer being seen  *)
(* (a timeout, an error status), or does not get it.                          *)
Outcomes == {"accepted", "unanswered", "unreachable"}

Reached(e, outcome) == IF outcome = "unreachable" THEN received ELSE received \cup {e}

Succeeds(outcome) == outcome = "accepted"

(* Nothing limits how often events are posted and workers die; the counters do *)
(* not go on counting beyond MaxCount.                                         *)
CountUp(n) == IF n < MaxCount THEN n + 1 ELSE n

(* One turn of the loop: HTTPError, URLError, OSError and RuntimeError are     *)
(* caught, so the loop goes on whatever the outcome.                           *)
Send(w, e, outcome) ==
  /\ IsNext(w, e)
  /\ sent' = [sent EXCEPT ![e] = CountUp(@)]
  /\ received' = Reached(e, outcome)
  /\ tried' = [tried EXCEPT ![w] = @ \cup {e}]
  /\ accepted' = IF Succeeds(outcome) THEN [accepted EXCEPT ![w] = @ \cup {e}] ELSE accepted
  /\ UNCHANGED <<rows, wpc, batch, crashes>>

(* The transaction ends: locks are released and the private state is gone. *)
EndTransaction(w) ==
  /\ batch' = [batch EXCEPT ![w] = {}]
  /\ tried' = [tried EXCEPT ![w] = {}]
  /\ accepted' = [accepted EXCEPT ![w] = {}]

(* Mutant: an attempt is only counted when it succeeds. *)
AttemptsOfSuccesses(w, e) == IF e \in accepted[w] THEN attempts[e] + 1 ELSE attempts[e]

AttemptsAfter(w, e) == IF e \in tried[w] THEN attempts[e] + 1 ELSE attempts[e]

(* The single commit after the loop. *)
CommitBatch(w) ==
  /\ wpc[w] = "deliver" /\ batch[w] = tried[w]
  /\ attempts' = [e \in Events |-> AttemptsAfter(w, e)]
  /\ status' = [e \in Events |-> IF e \in accepted[w] THEN "delivered" ELSE status[e]]
  /\ wpc' = [wpc EXCEPT ![w] = "idle"]
  /\ EndTransaction(w)
  /\ UNCHANGED <<world, crashes>>

Die(w) ==
  /\ crashes' = CountUp(crashes)
  /\ wpc' = [wpc EXCEPT ![w] = "down"]
  /\ EndTransaction(w)
  /\ UNCHANGED rows

(* The process is killed or loses its database connection: the attempts and *)
(* the deliveries of the batch are rolled back.                             *)
CrashWorker(w) ==
  /\ wpc[w] # "down"
  /\ Die(w)
  /\ UNCHANGED world

(* The post raises something the loop does not catch, such as a malformed      *)
(* HTTP answer: nothing above catches it either and the process ends.  The row *)
(* keeps its attempts, so that the same may happen in every batch, for ever.   *)
SendRaises(w, e, outcome) ==
  /\ IsNext(w, e)
  /\ sent' = [sent EXCEPT ![e] = CountUp(@)]
  /\ received' = Reached(e, outcome)
  /\ Die(w)

(* restart: unless-stopped *)
Restart(w) ==
  /\ wpc[w] = "down"
  /\ wpc' = [wpc EXCEPT ![w] = "idle"]
  /\ UNCHANGED <<rows, batch, tried, accepted, world, crashes>>

Work(w) ==
  \/ Poll(w)
  \/ \E e \in Events, outcome \in Outcomes : Send(w, e, outcome)
  \/ CommitBatch(w)
  \/ Restart(w)

OutboxNext ==
  \/ \E e \in Events : Emit(e)
  \/ \E w \in Workers :
       \/ Work(w)
       \/ CrashWorker(w)
       \/ \E e \in Events : SendRaises(w, e, "unanswered") \/ SendRaises(w, e, "unreachable")

OutboxSpec == OutboxInit /\ [][OutboxNext]_outboxVars

(* main polls for ever and the container is restarted; urlopen has a timeout, *)
(* so every post ends.  Nothing makes n8n answer, or answer in a way that     *)
(* the loop survives.                                                         *)
FairSpec == OutboxSpec /\ \A w \in Workers : WF_outboxVars(Work(w))

-----------------------------------------------------------------------------
(* Two workers never hold the same event, so they never post it at the same   *)
(* time: SKIP LOCKED hands every row to one of them.                          *)
NoConcurrentSends ==
  \A w, x \in Workers : w # x => batch[w] \cap batch[x] = {}

(* An event marked as delivered has reached n8n. *)
DeliveredWasReceived == \A e \in Events : status[e] = "delivered" => e \in received

(* Once the delivery is committed no worker posts the event again. *)
NoSendAfterDelivery ==
  [][\A e \in Events : status[e] = "delivered" => sent'[e] = sent[e] /\ status'[e] = status[e]]_outboxVars

InFlight(e) == IF \E w \in Workers : e \in tried[w] THEN 1 ELSE 0

(* The attempts of the row tell how often the event was posted, except for one *)
(* post of each death: a death forgets the attempts of its batch, never more.  *)
SendsAreCounted ==
  \A e \in Events : /\ attempts[e] + InFlight(e) <= sent[e]
                    /\ sent[e] <= attempts[e] + InFlight(e) + crashes

(* What makes those true: nobody else changes a row while a worker holds it, *)
(* and what a worker believes n8n accepted did reach it.                     *)
LockedRowsAreOpen ==
  \A w \in Workers : \A e \in batch[w] : status[e] = "pending" /\ attempts[e] < MaxAttempts

AcceptedWasReceived == \A w \in Workers : accepted[w] \subseteq received

(* From some moment on no worker dies, be it killed or by an exception that the *)
(* loop does not catch.                                                         *)
WorkersSurvive == <>[][\A w \in Workers : wpc'[w] = "down" => wpc[w] = "down"]_outboxVars

(* Where a webhook is configured and workers do not die for ever, every event  *)
(* that was emitted is in the end delivered or has used up its attempts,       *)
(* however often workers died before and although n8n may fail for ever.       *)
EveryEventSettles ==
  Configured /\ WorkersSurvive =>
    \A e \in Events :
      status[e] = "pending" ~> status[e] = "delivered" \/ attempts[e] = MaxAttempts

(* What workers may do to the rows, without batches, locks and crashes. *)
Abstract ==
  INSTANCE Delivery WITH Events <- Events, MaxAttempts <- MaxAttempts, MaxCount <- MaxCount,
                         status <- status, attempts <- attempts, sent <- sent, received <- received
ImplementsDelivery == Abstract!Spec
=============================================================================
