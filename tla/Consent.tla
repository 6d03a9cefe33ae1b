------------------------------ MODULE Consent ------------------------------
(***************************************************************************)
(* The KVKK consent of a file's customer and the forms sent to their phone *)
(* through Dijizin, an outside provider reached over HTTP (DijizinService  *)
(* and the Dijizin operations of VisaApplicationsService).                 *)
(*                                                                         *)
(* An operation loads the phone and the verified flag once, makes its      *)
(* calls one after the other, and writes to the database at the end.  A    *)
(* call takes the cached access token or logs in, is tried a second time   *)
(* with a fresh token when the provider refuses the first one (401, 403),  *)
(* and on any other failure ends the operation, whatever the provider had  *)
(* done by then.  Tokens are the number of the provider's epoch in which   *)
(* they were issued; the provider honours those of its current epoch.      *)
(* The provider is external: it is modelled from how the code uses it.     *)
(***************************************************************************)
EXTENDS Integers, FiniteSets

CONSTANTS
  Phones,       \* numbers the file's customer may have
  Requests,     \* concurrent requests of the sales team
  NoToken,      \* no token
  MaxOps,       \* bound: operations begun
  MaxEpoch,     \* bound: times the provider turns its tokens
  MaxFaults     \* bound: timeouts, provider errors, crashes, failed writes

ASSUME ConsentAssumption ==
  /\ MaxOps \in Nat /\ MaxEpoch \in Nat /\ MaxFaults \in Nat
  /\ NoToken \notin Nat /\ IsFiniteSet(Requests)

VARIABLES
  phone,        \* the number the file gives
  verified,     \* dijizinKvkkVerified of the application
  verifiedFor,  \* the numbers whose consent set the flag
  audited,      \* DIJIZIN_FORM_SENT audit rows per number
  customer,     \* what the provider knows of a number
  delivered,    \* forms the provider sent to a number
  epoch,        \* the provider's current token epoch
  tokenCache,   \* tokenCache of the service
  call,         \* per request: the operation and the call it is at
  moved,        \* the number changed after a consent was under way or given
  ops,          \* operations begun
  faults        \* failures so far

fileVars == <<phone, moved>>
dbVars == <<verified, verifiedFor, audited>>
providerVars == <<customer, delivered>>
vars == <<fileVars, dbVars, providerVars, epoch, tokenCache, call, ops, faults>>

Token == 0 .. MaxEpoch
Op == {"kvkk", "form", "look"}

(* The calls of an operation in order, its write to the database last.     *)
First == [kvkk |-> "texts", form |-> "find", look |-> "forms"]
After == [texts |-> "create", create |-> "confirm", confirm |-> "persist",
          find |-> "send", send |-> "audit", forms |-> "lookup", lookup |-> "history"]
Remote == {"texts", "create", "confirm", "find", "send", "forms", "lookup", "history"}
Step == Remote \union {"persist", "audit", "done"}

Call == [op : Op, step : Step, phone : Phones, tries : 0 .. 1, grant : Token \union {NoToken},
         token : Token \union {NoToken}, began : Token, refused : BOOLEAN, sends : Nat]

ConsentTypeOK ==
  /\ phone \in Phones /\ moved \in BOOLEAN
  /\ verified \in BOOLEAN /\ verifiedFor \in SUBSET Phones
  /\ audited \in [Phones -> Nat]
  /\ customer \in [Phones -> {"none", "created", "confirmed"}]
  /\ delivered \in [Phones -> Nat]
  /\ epoch \in Token /\ tokenCache \in Token \union {NoToken}
  /\ call \in [Requests -> Call]
  /\ ops \in 0 .. MaxOps /\ faults \in 0 .. MaxFaults

(* A number may be known to the provider from another application. *)
Init ==
  /\ phone \in Phones /\ moved = FALSE
  /\ verified = FALSE /\ verifiedFor = {}
  /\ audited = [p \in Phones |-> 0]
  /\ customer \in [Phones -> {"none", "created"}]
  /\ delivered = [p \in Phones |-> 0]
  /\ epoch = 0 /\ tokenCache = NoToken
  /\ call = [r \in Requests |->
       [op |-> "look", step |-> "done", phone |-> phone, tries |-> 0, grant |-> NoToken,
        token |-> NoToken, began |-> 0, refused |-> FALSE, sends |-> 0]]
  /\ ops = 0 /\ faults = 0

Busy(r) == call[r].step # "done"
Calling(r) == call[r].step \in Remote
Asking(r) == UNCHANGED <<fileVars, dbVars, providerVars, epoch, ops>>

----------------------------------------------------------------------------
(* Operations begin.                                                       *)

(* A slip: the gate of sendDijizinForm is left to the screen. *)
AnyoneMaySend(op) == TRUE
(* Forms wait for the consent; the other operations do not. *)
MayBegin(op) == op = "form" => verified

Begin(r, op) ==
  /\ ~Busy(r) /\ MayBegin(op)
  /\ ops < MaxOps /\ ops' = ops + 1
  /\ call' = [call EXCEPT ![r] =
       [op |-> op, step |-> First[op], phone |-> phone, tries |-> 0, grant |-> NoToken,
        token |-> NoToken, began |-> epoch, refused |-> FALSE, sends |-> 0]]
  /\ UNCHANGED <<fileVars, dbVars, providerVars, epoch, tokenCache, faults>>

(* updateDetails or a profile change gives the file another number. *)
ChangePhone(p) ==
  /\ p # phone /\ phone' = p
  /\ moved' = (moved \/ verified \/ \E r \in Requests : Busy(r) /\ call[r].op = "kvkk")
  /\ UNCHANGED <<dbVars, providerVars, epoch, tokenCache, call, ops, faults>>

----------------------------------------------------------------------------
(* getAccessToken.                                                         *)

NeedsToken(r) == Calling(r) /\ call[r].token = NoToken /\ call[r].grant = NoToken

(* A slip: the second attempt takes the cached token again. *)
CacheAlways(r) == tokenCache # NoToken
(* forceRefresh: only a first attempt may take the cached token. *)
CacheServes(r) == call[r].tries = 0 /\ tokenCache # NoToken

TakeCachedToken(r) ==
  /\ NeedsToken(r) /\ CacheServes(r)
  /\ call' = [call EXCEPT ![r].token = tokenCache]
  /\ Asking(r) /\ UNCHANGED <<tokenCache, faults>>

(* The provider issues a token; the answer is still on its way. *)
Login(r) ==
  /\ NeedsToken(r) /\ ~CacheServes(r)
  /\ call' = [call EXCEPT ![r].grant = epoch]
  /\ Asking(r) /\ UNCHANGED <<tokenCache, faults>>

(* The answer is cached, and returned to the caller that waited for it. *)
CacheToken(r) ==
  /\ call[r].grant # NoToken
  /\ tokenCache' = call[r].grant
  /\ call' = [call EXCEPT ![r] = [@ EXCEPT !.token = call[r].grant, !.grant = NoToken]]
  /\ Asking(r) /\ UNCHANGED faults

----------------------------------------------------------------------------
(* request, requestWithAuthResult and what the provider does with a call.  *)

(* What the provider does when it accepts the call. *)
Provide(r) ==
  LET p == call[r].phone
  IN  /\ customer' = [customer EXCEPT ![p] =
           IF call[r].step = "create" /\ @ = "none" THEN "created"
           ELSE IF call[r].step = "confirm" THEN "confirmed" ELSE @]
      /\ delivered' = IF call[r].step = "send" THEN [delivered EXCEPT ![p] = @ + 1] ELSE delivered

(* A slip: a customer the provider already knows counts as verified. *)
KnownIsEnough(r) == customer[call[r].phone] # "none"
(* exists and is_verified in the answer to the create call. *)
AlreadyVerified(r) == customer[call[r].phone] = "confirmed"

(* The calls after which the operation is answered at once. *)
EndsHere(r) ==
  \/ call[r].step = "history"
  \/ call[r].step \in {"find", "lookup"} /\ customer[call[r].phone] = "none"

StepAfter(r) ==
  IF EndsHere(r) THEN "done"
  ELSE IF call[r].step = "create" /\ AlreadyVerified(r) THEN "persist"
  ELSE After[call[r].step]

Accepted(r) == call[r].token = epoch
Sends(r) == IF call[r].step = "send" THEN 1 ELSE 0

\* The operation goes on to its next call.
Answered(r, c) == [c EXCEPT !.step = StepAfter(r), !.token = NoToken, !.tries = 0,
                            !.began = epoch, !.sends = c.sends + Sends(r)]

Answer(r) ==
  /\ Calling(r) /\ Accepted(r)
  /\ Provide(r)
  /\ call' = [call EXCEPT ![r] = Answered(r, @)]
  /\ UNCHANGED <<fileVars, dbVars, epoch, tokenCache, ops, faults>>

(* A slip: a refused call is tried for as long as it is refused. *)
RetryAlways(r) == TRUE
(* A refused call is tried once more. *)
MayRetry(r) == call[r].tries = 0

Refused(r, c) ==
  IF MayRetry(r) THEN [c EXCEPT !.tries = c.tries + 1, !.token = NoToken]
  ELSE [c EXCEPT !.step = "done", !.token = NoToken, !.refused = TRUE]

Refuse(r) ==
  /\ Calling(r) /\ call[r].token # NoToken /\ ~Accepted(r)
  /\ call' = [call EXCEPT ![r] = Refused(r, @)]
  /\ Asking(r) /\ UNCHANGED <<tokenCache, faults>>

(* A slip: a call that timed out is tried again. *)
TryAgain(r, c) == [c EXCEPT !.token = NoToken, !.sends = @ + Sends(r)]
(* A timeout, a network error or a provider error ends the operation. *)
GiveUp(r, c) == [c EXCEPT !.step = "done", !.token = NoToken, !.grant = NoToken]

(* No answer in time: the provider may have done what it was asked. *)
FailCall(r) ==
  /\ Calling(r) /\ faults < MaxFaults /\ faults' = faults + 1
  /\ \/ Accepted(r) /\ Provide(r)
     \/ UNCHANGED providerVars
  /\ call' = [call EXCEPT ![r] = GiveUp(r, @)]
  /\ UNCHANGED <<fileVars, dbVars, epoch, tokenCache, ops>>

(* The tokens issued so far stop working, with or without the cache knowing. *)
TurnTokens ==
  /\ epoch < MaxEpoch /\ epoch' = epoch + 1
  /\ tokenCache' \in {tokenCache, NoToken}
  /\ UNCHANGED <<fileVars, dbVars, providerVars, call, ops, faults>>

----------------------------------------------------------------------------
(* The writes that end an operation.                                       *)

(* persistKvkkVerified: the flag and its audit row. *)
Persist(r) ==
  /\ call[r].step = "persist"
  /\ verified' = TRUE
  /\ verifiedFor' = verifiedFor \union {call[r].phone}
  /\ call' = [call EXCEPT ![r].step = "done"]
  /\ UNCHANGED <<fileVars, audited, providerVars, epoch, tokenCache, ops, faults>>

(* A slip: the audit row does not wait for the provider's answer. *)
AuditSooner(r) == call[r].step = "send"
MayAudit(r) == call[r].step = "audit"

(* recordDijizinAction: one DIJIZIN_FORM_SENT row. *)
Audit(r) ==
  /\ MayAudit(r)
  /\ audited' = [audited EXCEPT ![call[r].phone] = @ + 1]
  /\ call' = [call EXCEPT ![r].step = "done"]
  /\ UNCHANGED <<fileVars, verified, verifiedFor, providerVars, epoch, tokenCache, ops, faults>>

(* The write fails: the provider has done its part, the file does not say so. *)
FailWrite(r) ==
  /\ call[r].step \in {"persist", "audit"}
  /\ faults < MaxFaults /\ faults' = faults + 1
  /\ call' = [call EXCEPT ![r].step = "done"]
  /\ Asking(r) /\ UNCHANGED tokenCache

Crash ==
  /\ faults < MaxFaults /\ faults' = faults + 1
  /\ tokenCache' = NoToken
  /\ call' = [r \in Requests |-> GiveUp(r, call[r])]
  /\ UNCHANGED <<fileVars, dbVars, providerVars, epoch, ops>>

Next ==
  \/ \E r \in Requests :
       \/ \E op \in Op : Begin(r, op)
       \/ TakeCachedToken(r) \/ Login(r) \/ CacheToken(r)
       \/ Answer(r) \/ Refuse(r) \/ FailCall(r)
       \/ Persist(r) \/ Audit(r) \/ FailWrite(r)
  \/ \E p \in Phones : ChangePhone(p)
  \/ TurnTokens
  \/ Crash

Spec == Init /\ [][Next]_vars

----------------------------------------------------------------------------
(* The flag is never set for a number the provider did not confirm: not    *)
(* when the customer merely exists there, not when a call was lost, not    *)
(* when the number changed while the calls were made.                      *)
VerifiedWasConfirmed == \A p \in verifiedFor : customer[p] = "confirmed"

(* As long as the number stays what it was when its consent was asked for, *)
(* every form goes to a number whose consent the provider has confirmed.   *)
FormsReachConsenting ==
  ~moved => \A p \in Phones : delivered[p] > 0 => customer[p] = "confirmed"

(* The audit trail never claims more forms than the provider sent.         *)
AuditedFormsWereSent == \A p \in Phones : audited[p] <= delivered[p]

(* One request sends one form: the second attempt follows a refusal, never *)
(* a call that may have been carried out.                                  *)
SentOncePerRequest == \A r \in Requests : call[r].sends <= 1

(* An operation fails on its credentials only when the provider turned its *)
(* tokens while that very call was made: a stale token in the cache, or    *)
(* one that another request put there too late, costs one attempt at most. *)
RefusedOnlyWhenTurned == \A r \in Requests : call[r].refused => epoch > call[r].began
=============================================================================
