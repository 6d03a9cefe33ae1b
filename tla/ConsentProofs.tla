--------------------------- MODULE ConsentProofs ---------------------------
(***************************************************************************)
(* What the run of Consent shows, for any numbers and requests and any     *)
(* number of operations, token turns, timeouts and crashes.                *)
(***************************************************************************)
EXTENDS Consent, FiniteSetTheorems, TLAPS

\* An operation begins with a call to the provider.
LEMMA FirstIsRemote == \A op \in Op : First[op] \in Remote
BY DEF Op, First, Remote

\* What follows a call that was answered.
LEMMA StepAfterType ==
    ASSUME NEW r, call[r].step \in Remote
    PROVE  StepAfter(r) \in Step
<1>1. CASE EndsHere(r)
  BY <1>1 DEF StepAfter, Step
<1>2. CASE ~EndsHere(r)
  BY <1>2 DEF StepAfter, EndsHere, After, Remote, Step
<1>3. QED
  BY <1>1, <1>2

\* Where an answered call leads, step by step.
LEMMA StepAfterCases ==
    ASSUME NEW r, call[r].step \in Remote
    PROVE  /\ StepAfter(r) = "persist" =>
                 \/ call[r].step = "create" /\ AlreadyVerified(r)
                 \/ call[r].step = "confirm"
           /\ StepAfter(r) = "audit" <=> call[r].step = "send"
           /\ StepAfter(r) \in {"confirm", "create"} => call[r].step \in {"texts", "create"}
           /\ StepAfter(r) = "send" => call[r].step = "find"
           /\ StepAfter(r) \in {"lookup", "history"} => call[r].step \in {"forms", "lookup"}
           /\ StepAfter(r) \notin {"texts", "find", "forms"}
<1>1. CASE EndsHere(r)
  BY <1>1 DEF StepAfter, EndsHere
<1>2. CASE ~EndsHere(r)
  BY <1>2 DEF StepAfter, EndsHere, After, Remote
<1>3. QED
  BY <1>1, <1>2

-----------------------------------------------------------------------------
(***************************************************************************)
(* The inductive invariants.                                               *)
(***************************************************************************)

\* Tokens are not from the future.  A second attempt's token was issued after
\* the call began; a call that was refused twice saw the tokens turned.
TokenFits(c) ==
    /\ c.began <= epoch
    /\ c.grant # NoToken => c.token = NoToken /\ c.grant <= epoch
    /\ c.token # NoToken => c.token <= epoch
    /\ c.tries = 1 /\ c.grant # NoToken => c.began <= c.grant
    /\ c.tries = 1 /\ c.token # NoToken => c.began <= c.token
    /\ c.refused => c.step = "done" /\ c.began < epoch
TokenInv ==
    /\ tokenCache # NoToken => tokenCache <= epoch
    /\ \A r \in Requests : TokenFits(call[r])

\* A request has sent its form only when it is past the call that sends it.
SendFits(c) == c.sends <= 1 /\ (c.step \notin {"audit", "done"} => c.sends = 0)
SendInv == \A r \in Requests : SendFits(call[r])

\* An operation is at one of its own steps.
OpFits(c) ==
    /\ c.step \in {"texts", "create", "confirm", "persist"} => c.op = "kvkk"
    /\ c.step \in {"find", "send", "audit"} => c.op = "form"
    /\ c.step \in {"forms", "lookup", "history"} => c.op = "look"
OpInv == \A r \in Requests : OpFits(call[r])

\* The flag is about to be set for numbers the provider confirmed.
ConfirmedFirst ==
    \A r \in Requests : call[r].step = "persist" => customer[call[r].phone] = "confirmed"
VerifyInv == VerifiedWasConfirmed /\ ConfirmedFirst

\* While the number stays, the flag speaks of it, and so does a consent under
\* way; a form under way goes to a number that has consented.
FlagIsTrue == ~moved /\ verified => customer[phone] = "confirmed"
ConsentOfNumber ==
    ~moved => \A r \in Requests :
                Busy(r) /\ call[r].op = "kvkk" => call[r].phone = phone
FormOfConsenting ==
    ~moved => \A r \in Requests :
                Busy(r) /\ call[r].op = "form" => customer[call[r].phone] = "confirmed"
FormInv == FlagIsTrue /\ ConsentOfNumber /\ FormOfConsenting /\ FormsReachConsenting

\* Forms sent whose audit row is still to be written count as well.
AuditDue(p) == {r \in Requests : call[r].step = "audit" /\ call[r].phone = p}
AuditInv == \A p \in Phones : audited[p] + Cardinality(AuditDue(p)) <= delivered[p]

-----------------------------------------------------------------------------
\* Every step keeps the types.
LEMMA TypeStep == ConsentTypeOK /\ [Next]_vars => ConsentTypeOK'
<1> SUFFICES ASSUME ConsentTypeOK, [Next]_vars
             PROVE  ConsentTypeOK'
  OBVIOUS
<1> USE ConsentAssumption
<1>r. \A r \in Requests : call[r] \in Call
  BY DEF ConsentTypeOK
<1>1. ASSUME NEW r \in Requests, NEW op \in Op, Begin(r, op)  PROVE ConsentTypeOK'
  <2>1. [op |-> op, step |-> First[op], phone |-> phone, tries |-> 0, grant |-> NoToken,
         token |-> NoToken, began |-> epoch, refused |-> FALSE, sends |-> 0] \in Call
    BY FirstIsRemote DEF Call, Step, ConsentTypeOK
  <2>2. call' \in [Requests -> Call]
    BY <1>1, <2>1 DEF Begin, ConsentTypeOK
  <2>3. ops' \in 0 .. MaxOps
    BY <1>1 DEF Begin, ConsentTypeOK
  <2>4. QED
    BY <1>1, <2>2, <2>3 DEF Begin, ConsentTypeOK, fileVars, dbVars, providerVars
<1>2. ASSUME NEW r \in Requests, TakeCachedToken(r)  PROVE ConsentTypeOK'
  <2>1. [call[r] EXCEPT !.token = tokenCache] \in Call
    BY <1>r DEF ConsentTypeOK, Call
  <2>2. call' \in [Requests -> Call]
    BY <1>2, <2>1 DEF TakeCachedToken, ConsentTypeOK
  <2>3. QED
    BY <1>2, <2>2 DEF TakeCachedToken, Asking, ConsentTypeOK, fileVars, dbVars, providerVars
<1>3. ASSUME NEW r \in Requests, Login(r)  PROVE ConsentTypeOK'
  <2>1. [call[r] EXCEPT !.grant = epoch] \in Call
    BY <1>r DEF ConsentTypeOK, Call
  <2>2. call' \in [Requests -> Call]
    BY <1>3, <2>1 DEF Login, ConsentTypeOK
  <2>3. QED
    BY <1>3, <2>2 DEF Login, Asking, ConsentTypeOK, fileVars, dbVars, providerVars
<1>4. ASSUME NEW r \in Requests, CacheToken(r)  PROVE ConsentTypeOK'
  <2>1. [call[r] EXCEPT !.token = call[r].grant, !.grant = NoToken] \in Call
    BY <1>r DEF Call
  <2>2. call' \in [Requests -> Call] /\ tokenCache' \in Token \union {NoToken}
    BY <1>4, <2>1, <1>r DEF CacheToken, ConsentTypeOK, Call
  <2>3. QED
    BY <1>4, <2>2 DEF CacheToken, Asking, ConsentTypeOK, fileVars, dbVars, providerVars
<1>p. ASSUME NEW r \in Requests, Provide(r)
      PROVE  /\ customer' \in [Phones -> {"none", "created", "confirmed"}]
             /\ delivered' \in [Phones -> Nat]
  BY <1>p, <1>r DEF Provide, ConsentTypeOK, Call
<1>5. ASSUME NEW r \in Requests, Answer(r)  PROVE ConsentTypeOK'
  <2>1. StepAfter(r) \in Step
    BY <1>5, StepAfterType DEF Answer, Calling
  <2>2. call[r].sends + Sends(r) \in Nat
    BY <1>r DEF Call, Sends
  <2>3. Answered(r, call[r]) \in Call
    <3>1. 0 \in 0 .. 1 /\ epoch \in Token
      BY DEF ConsentTypeOK
    <3>2. QED
      BY <1>r, <2>1, <2>2, <3>1, Zenon DEF Call, Answered
  <2>4. call' \in [Requests -> Call]
    BY <1>5, <2>3 DEF Answer, ConsentTypeOK
  <2>5. QED
    BY <1>5, <1>p, <2>4 DEF Answer, ConsentTypeOK, fileVars, dbVars
<1>6. ASSUME NEW r \in Requests, Refuse(r)  PROVE ConsentTypeOK'
  <2>1. ASSUME MayRetry(r)  PROVE Refused(r, call[r]) \in Call
    <3>1. call[r].tries + 1 \in 0 .. 1
      BY <2>1 DEF MayRetry
    <3>2. [call[r] EXCEPT !.tries = call[r].tries + 1, !.token = NoToken] \in Call
      BY <1>r, <3>1, Zenon DEF Call
    <3>3. QED
      BY <2>1, <3>2 DEF Refused
  <2>2. ASSUME ~MayRetry(r)  PROVE Refused(r, call[r]) \in Call
    BY <1>r, <2>2 DEF Call, Step, Refused
  <2>3. call' \in [Requests -> Call]
    BY <1>6, <2>1, <2>2 DEF Refuse, ConsentTypeOK
  <2>4. QED
    BY <1>6, <2>3 DEF Refuse, Asking, ConsentTypeOK, fileVars, dbVars, providerVars
<1>g. \A r \in Requests : GiveUp(r, call[r]) \in Call
  BY <1>r DEF GiveUp, Call, Step
<1>7. ASSUME NEW r \in Requests, FailCall(r)  PROVE ConsentTypeOK'
  <2>1. call' \in [Requests -> Call]
    BY <1>7, <1>g DEF FailCall, ConsentTypeOK
  <2>2. faults' \in 0 .. MaxFaults
    BY <1>7 DEF FailCall, ConsentTypeOK
  <2>3. /\ customer' \in [Phones -> {"none", "created", "confirmed"}]
        /\ delivered' \in [Phones -> Nat]
    BY <1>7, <1>p DEF FailCall, providerVars, ConsentTypeOK
  <2>4. QED
    BY <1>7, <2>1, <2>2, <2>3 DEF FailCall, ConsentTypeOK, fileVars, dbVars
<1>d. \A r \in Requests : [call[r] EXCEPT !.step = "done"] \in Call
  BY <1>r DEF Call, Step
<1>8. ASSUME NEW r \in Requests, Persist(r)  PROVE ConsentTypeOK'
  <2>1. call' \in [Requests -> Call]
    BY <1>8, <1>d DEF Persist, ConsentTypeOK
  <2>2. verifiedFor' \in SUBSET Phones
    BY <1>8, <1>r DEF Persist, ConsentTypeOK, Call
  <2>3. QED
    BY <1>8, <2>1, <2>2 DEF Persist, ConsentTypeOK, fileVars, providerVars
<1>9. ASSUME NEW r \in Requests, Audit(r)  PROVE ConsentTypeOK'
  <2>1. call' \in [Requests -> Call]
    BY <1>9, <1>d DEF Audit, ConsentTypeOK
  <2>2. audited' \in [Phones -> Nat]
    BY <1>9, <1>r DEF Audit, ConsentTypeOK, Call
  <2>3. QED
    BY <1>9, <2>1, <2>2 DEF Audit, ConsentTypeOK, fileVars, providerVars
<1>10. ASSUME NEW r \in Requests, FailWrite(r)  PROVE ConsentTypeOK'
  <2>1. call' \in [Requests -> Call]
    BY <1>10, <1>d DEF FailWrite, ConsentTypeOK
  <2>2. faults' \in 0 .. MaxFaults
    BY <1>10 DEF FailWrite, ConsentTypeOK
  <2>3. QED
    BY <1>10, <2>1, <2>2 DEF FailWrite, Asking, ConsentTypeOK, fileVars, dbVars, providerVars
<1>11. ASSUME NEW p \in Phones, ChangePhone(p)  PROVE ConsentTypeOK'
  <2>1. moved' \in BOOLEAN
    BY <1>11, Zenon DEF ChangePhone
  <2>2. QED
    BY <1>11, <2>1 DEF ChangePhone, ConsentTypeOK, dbVars, providerVars
<1>12. ASSUME TurnTokens  PROVE ConsentTypeOK'
  BY <1>12 DEF TurnTokens, ConsentTypeOK, fileVars, dbVars, providerVars, Token
<1>13. ASSUME Crash  PROVE ConsentTypeOK'
  <2>1. call' \in [Requests -> Call]
    BY <1>13, <1>g DEF Crash
  <2>2. faults' \in 0 .. MaxFaults
    BY <1>13 DEF Crash, ConsentTypeOK
  <2>3. QED
    BY <1>13, <2>1, <2>2 DEF Crash, ConsentTypeOK, fileVars, dbVars, providerVars
<1>14. CASE UNCHANGED vars
  BY <1>14 DEF vars, ConsentTypeOK, fileVars, dbVars, providerVars
<1>15. QED
  BY <1>1, <1>2, <1>3, <1>4, <1>5, <1>6, <1>7, <1>8, <1>9, <1>10, <1>11, <1>12, <1>13, <1>14
     DEF Next

\* Type correctness of the file, the provider, the tokens and the operations.
THEOREM ConsentTyped == Spec => []ConsentTypeOK
<1>1. Init => ConsentTypeOK
  <2> SUFFICES ASSUME Init  PROVE ConsentTypeOK
    OBVIOUS
  <2> USE ConsentAssumption
  <2>1. epoch \in Token /\ ops \in 0 .. MaxOps /\ faults \in 0 .. MaxFaults
    BY DEF Init, Token
  <2>2. call \in [Requests -> Call]
    BY DEF Init, Call, Token, Op, Step
  <2>3. phone \in Phones /\ moved \in BOOLEAN /\ verified \in BOOLEAN
        /\ verifiedFor \in SUBSET Phones
    BY Zenon DEF Init
  <2>4. audited \in [Phones -> Nat] /\ delivered \in [Phones -> Nat]
    BY DEF Init
  <2>5. customer \in [Phones -> {"none", "created", "confirmed"}]
    BY DEF Init
  <2>6. tokenCache \in Token \union {NoToken}
    BY DEF Init
  <2>7. QED
    BY <2>1, <2>2, <2>3, <2>4, <2>5, <2>6 DEF ConsentTypeOK
<1>2. QED
  BY <1>1, TypeStep, PTL DEF Spec

-----------------------------------------------------------------------------
\* What an operation of one request must show for the tokens.
LEMMA OneCallTokens ==
    ASSUME ConsentTypeOK, TokenInv, NEW r \in Requests, NEW c,
           call' = [call EXCEPT ![r] = c], TokenFits(c), epoch' = epoch,
           tokenCache' # NoToken => tokenCache' <= epoch
    PROVE  TokenInv'
BY DEF ConsentTypeOK, TokenInv, TokenFits

\* Every step keeps the tokens in order.
LEMMA TokenStep == ConsentTypeOK /\ TokenInv /\ [Next]_vars => TokenInv'
<1> SUFFICES ASSUME ConsentTypeOK, TokenInv, [Next]_vars
             PROVE  TokenInv'
  OBVIOUS
<1> USE ConsentAssumption
<1>r. /\ epoch \in Nat
      /\ \A r \in Requests : TokenFits(call[r]) /\ call[r] \in Call
      /\ tokenCache # NoToken => tokenCache <= epoch /\ tokenCache \in Nat
  BY DEF ConsentTypeOK, TokenInv, Token
<1>f. \A r \in Requests :
         /\ call[r].began \in Nat
         /\ call[r].token # NoToken => call[r].token \in Nat
         /\ call[r].grant # NoToken => call[r].grant \in Nat
         /\ call[r].tries \in 0 .. 1
  BY <1>r DEF Call, Token
<1>1. ASSUME NEW r \in Requests, NEW op \in Op, Begin(r, op)  PROVE TokenInv'
  <2> DEFINE c == [op |-> op, step |-> First[op], phone |-> phone, tries |-> 0,
                   grant |-> NoToken, token |-> NoToken, began |-> epoch,
                   refused |-> FALSE, sends |-> 0]
  <2>1. TokenFits(c)
    BY <1>r DEF TokenFits
  <2>2. call' = [call EXCEPT ![r] = c] /\ epoch' = epoch /\ tokenCache' = tokenCache
    BY <1>1 DEF Begin
  <2>3. QED
    BY <1>r, <2>1, <2>2, OneCallTokens
<1>2. ASSUME NEW r \in Requests, TakeCachedToken(r)  PROVE TokenInv'
  <2> DEFINE c == [call[r] EXCEPT !.token = tokenCache]
  <2>1. TokenFits(c)
    BY <1>2, <1>r, <1>f DEF TokenFits, Call, TakeCachedToken, NeedsToken, CacheServes
  <2>2. call' = [call EXCEPT ![r] = c] /\ epoch' = epoch /\ tokenCache' = tokenCache
    BY <1>2 DEF TakeCachedToken, Asking
  <2>3. QED
    BY <1>r, <2>1, <2>2, OneCallTokens
<1>3. ASSUME NEW r \in Requests, Login(r)  PROVE TokenInv'
  <2> DEFINE c == [call[r] EXCEPT !.grant = epoch]
  <2>1. TokenFits(c)
    BY <1>3, <1>r, <1>f DEF TokenFits, Call, Login, NeedsToken
  <2>2. call' = [call EXCEPT ![r] = c] /\ epoch' = epoch /\ tokenCache' = tokenCache
    BY <1>3 DEF Login, Asking
  <2>3. QED
    BY <1>r, <2>1, <2>2, OneCallTokens
<1>4. ASSUME NEW r \in Requests, CacheToken(r)  PROVE TokenInv'
  <2> DEFINE c == [call[r] EXCEPT !.token = call[r].grant, !.grant = NoToken]
  <2>1. TokenFits(c)
    BY <1>4, <1>r, <1>f DEF TokenFits, Call, CacheToken
  <2>2. /\ call' = [call EXCEPT ![r] = c] /\ epoch' = epoch
        /\ tokenCache' = call[r].grant /\ call[r].grant <= epoch
    BY <1>4, <1>r DEF CacheToken, Asking, TokenFits
  <2>3. QED
    BY <1>r, <2>1, <2>2, OneCallTokens
<1>5. ASSUME NEW r \in Requests, Answer(r)  PROVE TokenInv'
  <2>1. call[r].grant = NoToken /\ ~call[r].refused
    BY <1>5, <1>r DEF Answer, Accepted, Calling, TokenFits, Remote
  <2>2. TokenFits(Answered(r, call[r]))
    BY <1>r, <1>f, <2>1 DEF TokenFits, Call, Answered
  <2>3. /\ call' = [call EXCEPT ![r] = Answered(r, call[r])]
        /\ epoch' = epoch /\ tokenCache' = tokenCache
    BY <1>5 DEF Answer
  <2>4. QED
    BY <1>r, <2>2, <2>3, OneCallTokens
<1>6. ASSUME NEW r \in Requests, Refuse(r)  PROVE TokenInv'
  <2>1. /\ call[r].grant = NoToken /\ ~call[r].refused
        /\ call[r].token \in Nat /\ call[r].token # epoch /\ call[r].token <= epoch
        /\ call[r].tries = 1 => call[r].began <= call[r].token
    BY <1>6, <1>r, <1>f DEF Refuse, Accepted, Calling, TokenFits, Remote
  <2>2. TokenFits(Refused(r, call[r]))
    BY <1>r, <1>f, <2>1 DEF TokenFits, Call, Refused, MayRetry
  <2>3. /\ call' = [call EXCEPT ![r] = Refused(r, call[r])]
        /\ epoch' = epoch /\ tokenCache' = tokenCache
    BY <1>6 DEF Refuse, Asking
  <2>4. QED
    BY <1>r, <2>2, <2>3, OneCallTokens
<1>g. \A r \in Requests : TokenFits(GiveUp(r, call[r]))
  BY <1>r, <1>f DEF TokenFits, Call, GiveUp
<1>7. ASSUME NEW r \in Requests, FailCall(r)  PROVE TokenInv'
  <2>1. /\ call' = [call EXCEPT ![r] = GiveUp(r, call[r])]
        /\ epoch' = epoch /\ tokenCache' = tokenCache
    BY <1>7 DEF FailCall
  <2>2. QED
    BY <1>r, <1>g, <2>1, OneCallTokens
<1>d. \A r \in Requests : TokenFits([call[r] EXCEPT !.step = "done"])
  BY <1>r, <1>f DEF TokenFits, Call
<1>8. ASSUME NEW r \in Requests, Persist(r) \/ Audit(r) \/ FailWrite(r)  PROVE TokenInv'
  <2>1. /\ call' = [call EXCEPT ![r] = [call[r] EXCEPT !.step = "done"]]
        /\ epoch' = epoch /\ tokenCache' = tokenCache
    BY <1>8, <1>r DEF Persist, Audit, FailWrite, Asking, ConsentTypeOK, Call
  <2>2. QED
    BY <1>r, <1>d, <2>1, OneCallTokens
<1>9. ASSUME TurnTokens  PROVE TokenInv'
  <2>1. epoch' = epoch + 1 /\ call' = call /\ tokenCache' \in {tokenCache, NoToken}
    BY <1>9 DEF TurnTokens
  <2>2. QED
    BY <1>r, <1>f, <2>1 DEF TokenInv, TokenFits
<1>10. ASSUME Crash  PROVE TokenInv'
  <2>1. /\ call' = [r \in Requests |-> GiveUp(r, call[r])]
        /\ epoch' = epoch /\ tokenCache' = NoToken
    BY <1>10 DEF Crash
  <2>2. QED
    BY <1>g, <2>1 DEF TokenInv, TokenFits
<1>11. CASE UNCHANGED <<epoch, tokenCache, call>>
  BY <1>11 DEF TokenInv, TokenFits
<1>12. QED
  BY <1>1, <1>2, <1>3, <1>4, <1>5, <1>6, <1>7, <1>8, <1>9, <1>10, <1>11
     DEF Next, ChangePhone, vars

\* No operation fails on its credentials unless the tokens were turned while
\* the very call was made, however requests share and overwrite the cache.
THEOREM RefusalsAreTurns == Spec => []RefusedOnlyWhenTurned
<1>1. Init => TokenInv
  BY ConsentAssumption DEF Init, TokenInv, TokenFits
<1>2. ConsentTypeOK /\ TokenInv => RefusedOnlyWhenTurned
  BY DEF ConsentTypeOK, TokenInv, TokenFits, RefusedOnlyWhenTurned, Call, Token
<1>3. QED
  BY <1>1, <1>2, ConsentTyped, TokenStep, PTL DEF Spec

-----------------------------------------------------------------------------
(***************************************************************************)
(* What a step does to one operation: it leaves it where it is, ends it,   *)
(* begins it, or has its call answered.                                    *)
(***************************************************************************)
SameOp(r) ==
    /\ call'[r].op = call[r].op /\ call'[r].phone = call[r].phone
    /\ call'[r].sends = call[r].sends
Kept(r) == SameOp(r) /\ call'[r].step = call[r].step
Ended(r) == SameOp(r) /\ call'[r].step = "done"
Begun(r) == \E op \in Op : Begin(r, op)

\* One request's operation moves, the others' stay.
LEMMA OneCallMoves ==
    ASSUME ConsentTypeOK, NEW r \in Requests, NEW c, call' = [call EXCEPT ![r] = c],
           c.op = call[r].op, c.phone = call[r].phone, c.sends = call[r].sends,
           c.step \in {call[r].step, "done"}
    PROVE  \A q \in Requests : Kept(q) \/ Ended(q)
BY DEF ConsentTypeOK, Kept, Ended, SameOp

\* Every step does one of the four to every operation.
LEMMA CallMoves ==
    ASSUME ConsentTypeOK, [Next]_vars, NEW q \in Requests
    PROVE  Kept(q) \/ Ended(q) \/ Begun(q) \/ Answer(q)
<1>r. \A r \in Requests : call[r] \in Call
  BY DEF ConsentTypeOK
<1>1. ASSUME NEW r \in Requests, NEW op \in Op, Begin(r, op)
      PROVE  Kept(q) \/ Begun(q)
  BY <1>1 DEF Begin, Begun, Kept, SameOp, ConsentTypeOK
<1>2. ASSUME NEW r \in Requests, TakeCachedToken(r)  PROVE Kept(q) \/ Ended(q)
  BY <1>2, <1>r, OneCallMoves DEF TakeCachedToken, Call
<1>3. ASSUME NEW r \in Requests, Login(r)  PROVE Kept(q) \/ Ended(q)
  BY <1>3, <1>r, OneCallMoves DEF Login, Call
<1>4. ASSUME NEW r \in Requests, CacheToken(r)  PROVE Kept(q) \/ Ended(q)
  <2> DEFINE c == [call[r] EXCEPT !.token = call[r].grant, !.grant = NoToken]
  <2>1. call' = [call EXCEPT ![r] = c]
    BY <1>4 DEF CacheToken
  <2>2. QED
    BY <2>1, <1>r, OneCallMoves DEF Call
<1>5. ASSUME NEW r \in Requests, Answer(r)  PROVE Kept(q) \/ Answer(q)
  <2>1. call' = [call EXCEPT ![r] = Answered(r, call[r])]
    BY <1>5 DEF Answer
  <2>2. QED
    BY <1>5, <2>1 DEF Kept, SameOp, ConsentTypeOK
<1>6. ASSUME NEW r \in Requests, Refuse(r)  PROVE Kept(q) \/ Ended(q)
  <2>1. call' = [call EXCEPT ![r] = Refused(r, call[r])]
    BY <1>6 DEF Refuse
  <2>2. QED
    BY <2>1, <1>r, OneCallMoves DEF Call, Refused
<1>7. ASSUME NEW r \in Requests, FailCall(r)  PROVE Kept(q) \/ Ended(q)
  <2>1. call' = [call EXCEPT ![r] = GiveUp(r, call[r])]
    BY <1>7 DEF FailCall
  <2>2. QED
    BY <2>1, <1>r, OneCallMoves DEF Call, GiveUp
<1>8. ASSUME NEW r \in Requests, Persist(r) \/ Audit(r) \/ FailWrite(r)
      PROVE  Kept(q) \/ Ended(q)
  <2>1. call' = [call EXCEPT ![r] = [call[r] EXCEPT !.step = "done"]]
    BY <1>8, <1>r DEF Persist, Audit, FailWrite, ConsentTypeOK, Call
  <2>2. QED
    BY <2>1, <1>r, OneCallMoves DEF Call
<1>9. ASSUME Crash  PROVE Ended(q)
  BY <1>9, <1>r DEF Crash, Ended, SameOp, GiveUp, Call
<1>10. CASE UNCHANGED call
  BY <1>10 DEF Kept, SameOp
<1>11. QED
  BY <1>1, <1>2, <1>3, <1>4, <1>5, <1>6, <1>7, <1>8, <1>9, <1>10
     DEF Next, ChangePhone, TurnTokens, vars

\* What a step does to the file, the database and the provider.
LEMMA WorldMoves ==
    ASSUME [Next]_vars
    PROVE  /\ UNCHANGED fileVars \/ \E p \in Phones : ChangePhone(p)
           /\ UNCHANGED <<verified, verifiedFor>> \/ \E r \in Requests : Persist(r)
           /\ UNCHANGED audited \/ \E r \in Requests : Audit(r)
           /\ UNCHANGED providerVars \/ \E r \in Requests : Calling(r) /\ Provide(r)
<1>1. CASE \E r \in Requests : (\E op \in Op : Begin(r, op)) \/ TakeCachedToken(r)
                                 \/ Login(r) \/ CacheToken(r) \/ Refuse(r) \/ FailWrite(r)
  BY <1>1 DEF Begin, TakeCachedToken, Login, CacheToken, Refuse, FailWrite, Asking, dbVars
<1>2. CASE \E r \in Requests : Answer(r) \/ FailCall(r)
  BY <1>2 DEF Answer, FailCall, dbVars
<1>3. CASE \E r \in Requests : Persist(r) \/ Audit(r)
  BY <1>3 DEF Persist, Audit
<1>4. CASE TurnTokens \/ Crash \/ \E p \in Phones : ChangePhone(p)
  BY <1>4 DEF TurnTokens, Crash, ChangePhone, dbVars
<1>5. CASE UNCHANGED vars
  BY <1>5 DEF vars, dbVars
<1>6. QED
  BY <1>1, <1>2, <1>3, <1>4, <1>5 DEF Next

\* What the provider confirmed stays confirmed.
LEMMA ConfirmedStays ==
    ASSUME ConsentTypeOK, [Next]_vars, NEW p \in Phones, customer[p] = "confirmed"
    PROVE  customer'[p] = "confirmed"
<1>1. ASSUME NEW r \in Requests, Provide(r)  PROVE customer'[p] = "confirmed"
  BY <1>1 DEF Provide, ConsentTypeOK
<1>2. QED
  BY <1>1, WorldMoves DEF providerVars

\* Where an answered operation is afterwards.
LEMMA AnsweredIs ==
    ASSUME ConsentTypeOK, NEW r \in Requests, Answer(r)
    PROVE  /\ call'[r].step = StepAfter(r)
           /\ call'[r].op = call[r].op /\ call'[r].phone = call[r].phone
           /\ call'[r].sends = call[r].sends + Sends(r)
           /\ call[r].step \in Remote
<1>1. call' = [call EXCEPT ![r] = Answered(r, call[r])] /\ call[r] \in Call
  BY DEF Answer, ConsentTypeOK
<1>2. QED
  BY <1>1 DEF Answered, Call, Answer, Calling, ConsentTypeOK

\* Where an operation is that has just begun.
LEMMA BegunIs ==
    ASSUME ConsentTypeOK, NEW r \in Requests, NEW op \in Op, Begin(r, op)
    PROVE  /\ call'[r].step = First[op] /\ call'[r].op = op
           /\ call'[r].phone = phone /\ call'[r].sends = 0
BY DEF Begin, ConsentTypeOK

-----------------------------------------------------------------------------
\* One request sends one form, in spite of second attempts and lost answers.
THEOREM FormSentOnce == Spec => []SentOncePerRequest
<1>1. Init => SendInv
  BY DEF Init, SendInv, SendFits
<1>2. ConsentTypeOK /\ SendInv /\ [Next]_vars => SendInv'
  <2> SUFFICES ASSUME ConsentTypeOK, SendInv, [Next]_vars, NEW r \in Requests
               PROVE  SendFits(call[r])'
    BY DEF SendInv
  <2>1. call[r].sends \in Nat /\ SendFits(call[r])
    BY DEF ConsentTypeOK, Call, SendInv
  <2>2. CASE Kept(r) \/ Ended(r)
    BY <2>1, <2>2 DEF Kept, Ended, SameOp, SendFits
  <2>3. CASE Begun(r)
    BY <2>3, BegunIs DEF Begun, SendFits
  <2>4. CASE Answer(r)
    <3>1. call[r].sends = 0
      BY <2>1, <2>4, AnsweredIs DEF SendFits, Remote
    <3>2. Sends(r) = IF StepAfter(r) = "audit" THEN 1 ELSE 0
      BY <2>4, AnsweredIs, StepAfterCases DEF Sends
    <3>3. QED
      BY <2>4, <3>1, <3>2, AnsweredIs DEF SendFits
  <2>5. QED
    BY <2>2, <2>3, <2>4, CallMoves
<1>3. SendInv => SentOncePerRequest
  BY DEF SendInv, SendFits, SentOncePerRequest
<1>4. QED
  BY <1>1, <1>2, <1>3, ConsentTyped, PTL DEF Spec

\* Every operation stays at its own steps.
LEMMA OpStep == ConsentTypeOK /\ OpInv /\ [Next]_vars => OpInv'
<1> SUFFICES ASSUME ConsentTypeOK, OpInv, [Next]_vars, NEW r \in Requests
             PROVE  OpFits(call[r])'
  BY DEF OpInv
<1>1. OpFits(call[r])
  BY DEF OpInv
<1>2. CASE Kept(r) \/ Ended(r)
  BY <1>1, <1>2 DEF Kept, Ended, SameOp, OpFits
<1>3. CASE Begun(r)
  BY <1>3, BegunIs DEF Begun, OpFits, First, Op
<1>4. CASE Answer(r)
  BY <1>1, <1>4, AnsweredIs, StepAfterCases DEF OpFits, Remote
<1>5. QED
  BY <1>2, <1>3, <1>4, CallMoves

\* No step sets the flag for a number that is not confirmed, or gets ready to.
LEMMA VerifyStep == ConsentTypeOK /\ VerifyInv /\ [Next]_vars => VerifyInv'
<1> SUFFICES ASSUME ConsentTypeOK, VerifyInv, [Next]_vars
             PROVE  VerifyInv'
  OBVIOUS
<1>1. VerifiedWasConfirmed'
  <2>1. ASSUME NEW r \in Requests, Persist(r)
        PROVE  /\ verifiedFor' = verifiedFor \union {call[r].phone}
               /\ customer[call[r].phone] = "confirmed" /\ call[r].phone \in Phones
    BY <2>1 DEF Persist, VerifyInv, ConfirmedFirst, ConsentTypeOK, Call
  <2>2. \A p \in verifiedFor' : p \in Phones /\ customer[p] = "confirmed"
    BY <2>1, WorldMoves DEF VerifyInv, VerifiedWasConfirmed, ConsentTypeOK
  <2>3. QED
    BY <2>2, ConfirmedStays DEF VerifiedWasConfirmed
<1>2. ASSUME NEW r \in Requests, call'[r].step = "persist"
      PROVE  customer'[call'[r].phone] = "confirmed"
  <2>1. call[r].phone \in Phones
    BY DEF ConsentTypeOK, Call
  <2>2. CASE Kept(r) \/ Ended(r)
    BY <1>2, <2>1, <2>2, ConfirmedStays DEF Kept, Ended, SameOp, VerifyInv, ConfirmedFirst
  <2>3. CASE Begun(r)
    BY <1>2, <2>3, BegunIs DEF Begun, First, Op
  <2>4. CASE Answer(r)
    <3>1. \/ call[r].step = "create" /\ AlreadyVerified(r)
          \/ call[r].step = "confirm"
      BY <1>2, <2>4, AnsweredIs, StepAfterCases
    <3>2. customer'[call[r].phone] = "confirmed"
      BY <2>1, <2>4, <3>1 DEF Answer, Provide, AlreadyVerified, ConsentTypeOK
    <3>3. QED
      BY <2>4, <3>2, AnsweredIs
  <2>5. QED
    BY <2>2, <2>3, <2>4, CallMoves
<1>3. QED
  BY <1>1, <1>2 DEF VerifyInv, ConfirmedFirst

\* The consent flag is only ever set for a number the provider has confirmed.
THEOREM VerifiedMeansConfirmed == Spec => []VerifiedWasConfirmed
<1>1. Init => VerifyInv
  BY DEF Init, VerifyInv, VerifiedWasConfirmed, ConfirmedFirst
<1>2. VerifyInv => VerifiedWasConfirmed
  BY DEF VerifyInv
<1>3. QED
  BY <1>1, <1>2, ConsentTyped, VerifyStep, PTL DEF Spec

-----------------------------------------------------------------------------
\* No step sends a form to a number that has not consented, as long as the
\* file keeps its number.
LEMMA FormStep ==
    ConsentTypeOK /\ OpInv /\ VerifyInv /\ FormInv /\ [Next]_vars => FormInv'
<1> SUFFICES ASSUME ConsentTypeOK, OpInv, VerifyInv, FormInv, [Next]_vars, ~moved'
             PROVE  FormInv'
  BY DEF FormInv, FlagIsTrue, ConsentOfNumber, FormOfConsenting, FormsReachConsenting
<1>t. /\ phone \in Phones
      /\ \A r \in Requests : call[r].phone \in Phones
  BY DEF ConsentTypeOK, Call
<1>m. /\ ~moved
      /\ phone' = phone \/ (~verified /\ verified' = verified /\ UNCHANGED call
                            /\ \A r \in Requests : ~(Busy(r) /\ call[r].op = "kvkk"))
  <2>1. ASSUME NEW p \in Phones, ChangePhone(p)
        PROVE  /\ ~moved /\ ~verified /\ verified' = verified /\ UNCHANGED call
               /\ \A r \in Requests : ~(Busy(r) /\ call[r].op = "kvkk")
    BY <2>1 DEF ChangePhone, dbVars
  <2>2. QED
    BY <2>1, WorldMoves DEF fileVars
<1>1. FlagIsTrue'
  <2>1. ASSUME NEW r \in Requests, Persist(r)
        PROVE  phone' = phone /\ customer[phone] = "confirmed"
    <3>1. phone' = phone /\ call[r].step = "persist"
      BY <2>1 DEF Persist, fileVars
    <3>2. call[r].phone = phone
      BY <3>1, <1>m DEF FormInv, ConsentOfNumber, OpInv, OpFits, Busy
    <3>3. QED
      BY <3>1, <3>2 DEF VerifyInv, ConfirmedFirst
  <2>2. verified' => phone' = phone /\ customer[phone] = "confirmed"
    BY <2>1, <1>m, WorldMoves DEF FormInv, FlagIsTrue
  <2>3. QED
    BY <2>2, <1>t, ConfirmedStays DEF FlagIsTrue
<1>2. ASSUME NEW r \in Requests, Busy(r)', call'[r].op = "kvkk"
      PROVE  call'[r].phone = phone'
  <2>1. CASE Kept(r) \/ Ended(r)
    BY <1>2, <1>m, <2>1 DEF Kept, Ended, SameOp, Busy, FormInv, ConsentOfNumber
  <2>2. CASE Begun(r)
    BY <2>2, BegunIs DEF Begun, Begin, fileVars
  <2>3. CASE Answer(r)
    <3>1. Busy(r) /\ call[r].op = "kvkk" /\ call'[r].phone = call[r].phone /\ phone' = phone
      BY <1>2, <2>3, AnsweredIs DEF Answer, fileVars, Busy, Remote
    <3>2. QED
      BY <3>1, <1>m DEF FormInv, ConsentOfNumber
  <2>4. QED
    BY <2>1, <2>2, <2>3, CallMoves
<1>3. ASSUME NEW r \in Requests, Busy(r)', call'[r].op = "form"
      PROVE  customer'[call'[r].phone] = "confirmed"
  <2>1. CASE Kept(r) \/ Ended(r)
    BY <1>3, <1>m, <1>t, <2>1, ConfirmedStays
       DEF Kept, Ended, SameOp, Busy, FormInv, FormOfConsenting
  <2>2. CASE Begun(r)
    <3>1. PICK op \in Op : Begin(r, op)
      BY <2>2 DEF Begun
    <3>2. op = "form" /\ call'[r].phone = phone
      BY <1>3, <3>1, BegunIs
    <3>3. customer[phone] = "confirmed"
      BY <1>m, <3>1, <3>2 DEF Begin, MayBegin, FormInv, FlagIsTrue
    <3>4. QED
      BY <1>t, <3>2, <3>3, ConfirmedStays
  <2>3. CASE Answer(r)
    <3>1. Busy(r) /\ call[r].op = "form" /\ call'[r].phone = call[r].phone
      BY <1>3, <2>3, AnsweredIs DEF Busy, Remote
    <3>2. QED
      BY <3>1, <1>m, <1>t, ConfirmedStays DEF FormInv, FormOfConsenting
  <2>4. QED
    BY <2>1, <2>2, <2>3, CallMoves
<1>4. ASSUME NEW p \in Phones, delivered'[p] > 0
      PROVE  customer'[p] = "confirmed"
  <2>1. CASE delivered[p] > 0
    BY <1>m, <2>1, ConfirmedStays DEF FormInv, FormsReachConsenting
  <2>2. CASE ~(delivered[p] > 0)
    <3>1. PICK r \in Requests : Calling(r) /\ Provide(r)
      BY <1>4, <2>2, WorldMoves DEF providerVars
    <3>2. call[r].step = "send" /\ call[r].phone = p
      BY <1>4, <2>2, <3>1 DEF Provide, ConsentTypeOK
    <3>3. Busy(r) /\ call[r].op = "form"
      BY <3>2 DEF Busy, OpInv, OpFits
    <3>4. QED
      BY <1>m, <3>2, <3>3, ConfirmedStays DEF FormInv, FormOfConsenting
  <2>3. QED
    BY <2>1, <2>2
<1>5. QED
  BY <1>1, <1>2, <1>3, <1>4
     DEF FormInv, ConsentOfNumber, FormOfConsenting, FormsReachConsenting

\* While the number of the file stays, forms reach consenting customers only.
THEOREM FormsOnlyConsenting == Spec => []FormsReachConsenting
<1>1. Init => OpInv /\ VerifyInv /\ FormInv
  BY DEF Init, OpInv, OpFits, VerifyInv, VerifiedWasConfirmed, ConfirmedFirst, FormInv,
     FlagIsTrue, ConsentOfNumber, FormOfConsenting, FormsReachConsenting, Busy
<1>2. FormInv => FormsReachConsenting
  BY DEF FormInv
<1>3. QED
  BY <1>1, <1>2, ConsentTyped, OpStep, VerifyStep, FormStep, PTL DEF Spec

-----------------------------------------------------------------------------
\* The audit rows still to be written are finitely many.
LEMMA AuditDueFinite ==
    ASSUME NEW p  PROVE IsFiniteSet(AuditDue(p)) /\ Cardinality(AuditDue(p)) \in Nat
<1>1. IsFiniteSet(AuditDue(p))
  BY ConsentAssumption, FS_Subset DEF AuditDue
<1>2. QED
  BY <1>1, FS_CardinalityType

\* A step that audits and sends nothing leaves no more rows to be written.
LEMMA QuietStepKeepsAudits ==
    ASSUME ConsentTypeOK, AuditInv, audited' = audited,
           \A p \in Phones : delivered'[p] \in Nat /\ delivered[p] <= delivered'[p],
           \A r \in Requests : call'[r].step = "audit" =>
               call[r].step = "audit" /\ call'[r].phone = call[r].phone
    PROVE  AuditInv'
<1> SUFFICES ASSUME NEW p \in Phones
             PROVE  audited'[p] + Cardinality(AuditDue(p)') <= delivered'[p]
  BY DEF AuditInv
<1>1. AuditDue(p)' \subseteq AuditDue(p)
  BY DEF AuditDue
<1>2. IsFiniteSet(AuditDue(p)) /\ Cardinality(AuditDue(p)) \in Nat
  BY AuditDueFinite
<1>3. Cardinality(AuditDue(p)') \in Nat /\ Cardinality(AuditDue(p)') <= Cardinality(AuditDue(p))
  BY <1>1, <1>2, FS_Subset, FS_CardinalityType
<1>4. /\ audited'[p] \in Nat /\ delivered[p] \in Nat /\ delivered'[p] \in Nat
      /\ audited[p] + Cardinality(AuditDue(p)) <= delivered[p]
      /\ delivered[p] <= delivered'[p] /\ audited'[p] = audited[p]
  BY DEF AuditInv, ConsentTypeOK
<1>5. QED
  BY <1>2, <1>3, <1>4

\* Every step keeps the audit rows, written or due, below the forms sent.
LEMMA AuditStep == ConsentTypeOK /\ AuditInv /\ [Next]_vars => AuditInv'
<1> SUFFICES ASSUME ConsentTypeOK, AuditInv, [Next]_vars
             PROVE  AuditInv'
  OBVIOUS
<1>t. ConsentTypeOK'
  BY TypeStep
<1>g. \A p \in Phones : delivered'[p] \in Nat /\ delivered[p] <= delivered'[p]
  <2>1. ASSUME NEW r \in Requests, Provide(r), NEW p \in Phones
        PROVE  delivered[p] <= delivered'[p]
    BY <2>1 DEF Provide, ConsentTypeOK
  <2>2. ASSUME UNCHANGED providerVars, NEW p \in Phones
        PROVE  delivered[p] <= delivered'[p]
    BY <2>2 DEF providerVars, ConsentTypeOK
  <2>3. QED
    BY <1>t, <2>1, <2>2, WorldMoves DEF ConsentTypeOK
<1>1. ASSUME NEW r \in Requests, Answer(r), call[r].step = "send"  PROVE AuditInv'
  <2> SUFFICES ASSUME NEW p \in Phones
               PROVE  audited'[p] + Cardinality(AuditDue(p)') <= delivered'[p]
    BY DEF AuditInv
  <2>1. /\ call' = [call EXCEPT ![r] = Answered(r, call[r])] /\ audited' = audited
        /\ delivered' = [delivered EXCEPT ![call[r].phone] = @ + 1]
    BY <1>1 DEF Answer, Provide, dbVars
  <2>2. call'[r].step = "audit" /\ call'[r].phone = call[r].phone
    BY <1>1, AnsweredIs, StepAfterCases DEF Remote
  <2>3. /\ audited[p] + Cardinality(AuditDue(p)) <= delivered[p]
        /\ audited[p] \in Nat /\ delivered[p] \in Nat /\ Cardinality(AuditDue(p)) \in Nat
    BY AuditDueFinite DEF AuditInv, ConsentTypeOK
  <2>4. CASE p = call[r].phone
    <3>1. AuditDue(p)' = AuditDue(p) \union {r} /\ r \notin AuditDue(p)
      BY <1>1, <2>1, <2>2, <2>4 DEF AuditDue, ConsentTypeOK
    <3>2. Cardinality(AuditDue(p)') = Cardinality(AuditDue(p)) + 1
      BY <3>1, AuditDueFinite, FS_AddElement
    <3>3. delivered'[p] = delivered[p] + 1
      BY <2>1, <2>4 DEF ConsentTypeOK
    <3>4. QED
      BY <2>1, <2>3, <3>2, <3>3
  <2>5. CASE p # call[r].phone
    <3>1. AuditDue(p)' = AuditDue(p)
      BY <1>1, <2>1, <2>2, <2>5 DEF AuditDue, ConsentTypeOK
    <3>2. delivered'[p] = delivered[p]
      BY <2>1, <2>5 DEF ConsentTypeOK
    <3>3. QED
      BY <2>1, <2>3, <3>1, <3>2
  <2>6. QED
    BY <2>4, <2>5
<1>2. ASSUME NEW r \in Requests, Audit(r)  PROVE AuditInv'
  <2> SUFFICES ASSUME NEW p \in Phones
               PROVE  audited'[p] + Cardinality(AuditDue(p)') <= delivered'[p]
    BY DEF AuditInv
  <2>1. /\ call' = [call EXCEPT ![r].step = "done"] /\ delivered' = delivered
        /\ audited' = [audited EXCEPT ![call[r].phone] = @ + 1] /\ call[r].step = "audit"
    BY <1>2 DEF Audit, MayAudit, providerVars
  <2>2. call[r] \in Call /\ call'[r].step = "done" /\ \A q \in Requests : q # r => call'[q] = call[q]
    BY <2>1 DEF ConsentTypeOK, Call
  <2>3. /\ audited[p] + Cardinality(AuditDue(p)) <= delivered[p]
        /\ audited[p] \in Nat /\ delivered[p] \in Nat /\ Cardinality(AuditDue(p)) \in Nat
    BY AuditDueFinite DEF AuditInv, ConsentTypeOK
  <2>4. CASE p = call[r].phone
    <3>1. AuditDue(p)' = AuditDue(p) \ {r} /\ r \in AuditDue(p)
      BY <2>1, <2>2, <2>4 DEF AuditDue
    <3>2. Cardinality(AuditDue(p)') = Cardinality(AuditDue(p)) - 1
      BY <3>1, AuditDueFinite, FS_RemoveElement
    <3>3. audited'[p] = audited[p] + 1
      BY <2>1, <2>4 DEF ConsentTypeOK
    <3>4. QED
      BY <2>1, <2>3, <3>2, <3>3
  <2>5. CASE p # call[r].phone
    <3>1. AuditDue(p)' = AuditDue(p)
      BY <2>1, <2>2, <2>5 DEF AuditDue
    <3>2. audited'[p] = audited[p]
      BY <2>1, <2>5 DEF ConsentTypeOK
    <3>3. QED
      BY <2>1, <2>3, <3>1, <3>2
  <2>6. QED
    BY <2>4, <2>5
<1>3. ASSUME audited' = audited, \A r \in Requests : ~(Answer(r) /\ call[r].step = "send")
      PROVE  AuditInv'
  <2>1. ASSUME NEW r \in Requests, call'[r].step = "audit"
        PROVE  call[r].step = "audit" /\ call'[r].phone = call[r].phone
    <3>1. CASE Kept(r) \/ Ended(r)
      BY <2>1, <3>1 DEF Kept, Ended, SameOp
    <3>2. CASE Begun(r)
      BY <2>1, <3>2, BegunIs DEF Begun, First, Op
    <3>3. CASE Answer(r)
      BY <1>3, <2>1, <3>3, AnsweredIs, StepAfterCases
    <3>4. QED
      BY <3>1, <3>2, <3>3, CallMoves
  <2>2. QED
    BY <1>3, <1>g, <2>1, QuietStepKeepsAudits
<1>4. QED
  BY <1>1, <1>2, <1>3, WorldMoves

\* The audit trail never claims a form the provider did not send.
THEOREM AuditsAreTrue == Spec => []AuditedFormsWereSent
<1>1. Init => AuditInv
  <2> SUFFICES ASSUME Init, NEW p \in Phones
               PROVE  audited[p] + Cardinality(AuditDue(p)) <= delivered[p]
    BY DEF AuditInv
  <2>1. AuditDue(p) = {} /\ audited[p] = 0 /\ delivered[p] = 0
    BY DEF Init, AuditDue
  <2>2. QED
    BY <2>1, FS_EmptySet
<1>2. ConsentTypeOK /\ AuditInv => AuditedFormsWereSent
  <2> SUFFICES ASSUME ConsentTypeOK, AuditInv, NEW p \in Phones
               PROVE  audited[p] <= delivered[p]
    BY DEF AuditedFormsWereSent
  <2>1. /\ audited[p] \in Nat /\ delivered[p] \in Nat
        /\ audited[p] + Cardinality(AuditDue(p)) <= delivered[p]
    BY DEF ConsentTypeOK, AuditInv
  <2>2. QED
    BY <2>1, AuditDueFinite
<1>3. QED
  BY <1>1, <1>2, ConsentTyped, AuditStep, PTL DEF Spec
=============================================================================
