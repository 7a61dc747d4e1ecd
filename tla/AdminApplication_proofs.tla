---------------------- MODULE AdminApplication_proofs -----------------------
(***************************************************************************)
(* The administrators' application: sessions and the browser that keeps    *)
(* them, for any number of tokens, requests and invocations and any limit  *)
(* on sessions; then the console's screens, for any queries, requests      *)
(* under way, posts and changes of what they show.                         *)
(***************************************************************************)
EXTENDS AdminClient, AdminConsole, RequestRow_proofs, FiniteSetTheorems,
        WellFoundedInduction, TLAPS

USE MaxTokensAssumption, MaxSessionsAssumption, CallsAssumption,
    NoInvocationAssumption

-----------------------------------------------------------------------------
(***************************************************************************)
(* Tokens are issued in the order of their numbers, so the next one is new *)
(* wherever a token is named.                                              *)
(***************************************************************************)
IssuedInOrder == \E n \in 0..MaxTokens : Issued = 1..n

\* What the invocations and the browser name has been issued.
NamedAreIssued ==
  /\ \A c \in Calls : calls[c].parent \in Issued \cup {NoToken}
  /\ {stored, refresh.token, refresh.reply} \subseteq Issued \cup {NoToken}

\* The phases of a refresh, and the invocation that serves it.
RefreshHolds ==
  /\ refresh.phase = "none" => refresh = NoRefresh
  /\ refresh.phase # "answered" => refresh.reply = NoToken
  /\ refresh.phase # "none" => refresh.token # NoToken
  /\ refresh.phase # "running" => refresh.call = NoInvocation
  /\ \A c \in Calls : refresh.call = c =>
       calls[c].op = "refresh" /\ calls[c].parent = refresh.token

\* An invocation the page does not wait for may still exchange the stored token
\* only if the page presents it too, or was left.
StoredIsOurs ==
  \A c \in Calls :
    calls[c].parent # NoToken /\ calls[c].parent = stored
      => abandoned \/ refresh.token = stored

\* The new token is nobody else's until it is stored.
ReplyIsOurs ==
  refresh.reply # NoToken =>
    /\ refresh.reply \notin {stored, refresh.token}
    /\ tokens[refresh.reply] # "rotated"
    /\ \A c \in Calls : calls[c].parent # refresh.reply

\* The inductive invariant of the tokens and of who holds them.
HoldersTyped ==
  /\ ServerTypeOK
  /\ stored \in Tokens \cup {NoToken}
  /\ refresh \in RefreshStates
  /\ abandoned \in BOOLEAN

IInv ==
  /\ HoldersTyped
  /\ IssuedInOrder
  /\ NamedAreIssued
  /\ RefreshHolds
  /\ StoredIsOurs
  /\ ReplyIsOurs
  /\ RotatedTokensAreReplaced

LEMMA NextIsNew ==
  ASSUME IssuedInOrder
  PROVE  /\ NextToken \in Nat \ {0} /\ NextToken \notin Issued
         /\ Issued = 1..(NextToken - 1) /\ NextToken - 1 \in 0..MaxTokens
<1>1. PICK n \in 0..MaxTokens : Issued = 1..n
  BY DEF IssuedInOrder
<1>2. Cardinality(Issued) = n
  BY <1>1, FS_Interval
<1> QED
  BY <1>1, <1>2 DEF NextToken

\* A new token is issued; only its parent is rotated.
LEMMA IssueMoves ==
  ASSUME HoldersTyped, IssuedInOrder, NEW p \in Issued \cup {NoToken}, NEW victims,
         Issue(p, victims)
  PROVE  /\ NextToken \in Tokens /\ NextToken \notin Issued
         /\ tokens' \in [Tokens -> TokenStates]
         /\ Issued' = Issued \cup {NextToken} /\ IssuedInOrder'
         /\ tokens'[NextToken] = "active"
         /\ \A t \in Tokens : tokens'[t] = "rotated" => t = p \/ tokens[t] = "rotated"
<1> DEFINE new == NextToken
<1>1. /\ new \in Tokens /\ new \notin Issued
      /\ Issued = 1..(new - 1) /\ new - 1 \in 0..MaxTokens
  BY NextIsNew DEF Issue, Tokens
<1>2. tokens' = [t \in Tokens |->
                   IF t = new THEN "active"
                   ELSE IF t = p THEN "rotated"
                   ELSE IF t \in victims /\ tokens[t] = "active" THEN "revoked"
                   ELSE tokens[t]]
  BY DEF Issue
<1> HIDE DEF new
<1>3. tokens \in [Tokens -> TokenStates]
  BY DEF HoldersTyped, ServerTypeOK
<1>4. /\ tokens' \in [Tokens -> TokenStates]
      /\ tokens'[new] = "active"
      /\ \A t \in Tokens : tokens'[t] = "rotated" => t = p \/ tokens[t] = "rotated"
  BY <1>1, <1>2, <1>3 DEF TokenStates
<1>5. Issued' = Issued \cup {new}
  <2>1. ASSUME NEW t \in Tokens
        PROVE  tokens'[t] # "unissued" <=> tokens[t] # "unissued" \/ t = new
    <3>1. t = p => tokens[t] # "unissued"
      BY DEF Issued, Tokens, NoToken
    <3> QED
      BY <1>2, <3>1
  <2> QED
    BY <1>1, <2>1 DEF Issued
<1>6. IssuedInOrder'
  <2>1. Issued' = 1..new /\ new \in 0..MaxTokens
    BY <1>1, <1>5 DEF Tokens
  <2> QED
    BY <2>1 DEF IssuedInOrder
<1> QED
  BY <1>1, <1>4, <1>5, <1>6 DEF new

\* Tokens are revoked or deleted, but none is issued or rotated.
TokensRest ==
  /\ tokens' \in [Tokens -> TokenStates]
  /\ Issued' = Issued
  /\ \A t \in Tokens : tokens'[t] = "rotated" => tokens[t] = "rotated"

LEMMA RevocationsRest ==
  ASSUME HoldersTyped, NEW S, Revoke(S)
  PROVE  TokensRest
BY DEF HoldersTyped, ServerTypeOK, Revoke, TokensRest, Issued, TokenStates

LEMMA CleanupRests ==
  ASSUME HoldersTyped, IssuedInOrder, NEW last \in Tokens, Cleanup(last)
  PROVE  TokensRest
<1>1. \A t \in Tokens : t <= last => t \in Issued
  BY DEF Cleanup, IssuedInOrder, Tokens
<1> QED
  BY <1>1 DEF HoldersTyped, ServerTypeOK, Cleanup, TokensRest, Issued, TokenStates

LEMMA ServiceRests ==
  ASSUME HoldersTyped, NEW r \in Requests, Served(r)
  PROVE  TokensRest /\ UNCHANGED <<calls, registered>>
<1>1. CASE UNCHANGED serverVars
  BY <1>1 DEF serverVars, TokensRest, HoldersTyped, ServerTypeOK, Issued
<1>2. ASSUME NEW S, Revoke(S)
      PROVE  TokensRest /\ UNCHANGED <<calls, registered>>
  BY <1>2, RevocationsRest DEF Revoke
<1> QED
  BY <1>1, <1>2 DEF Served

-----------------------------------------------------------------------------
\* The step is none of the backend's exchanges, and the browser holds what it held.
LEMMA OthersHold ==
  ASSUME IInv, TokensRest, registered' \in BOOLEAN, calls' \in [Calls -> CallStates],
         \A c \in Calls : calls'[c].parent \in {calls[c].parent, NoToken},
         \A c \in Calls : refresh.call = c => calls'[c] = calls[c],
         UNCHANGED <<stored, refresh, abandoned>>
  PROVE  IInv'
<1> USE DEF IInv, TokensRest
<1>1. HoldersTyped'
  BY DEF HoldersTyped, ServerTypeOK
<1>2. IssuedInOrder' /\ NamedAreIssued' /\ RefreshHolds'
  BY DEF IssuedInOrder, NamedAreIssued, RefreshHolds
<1>3. StoredIsOurs' /\ RotatedTokensAreReplaced'
  BY DEF StoredIsOurs, RotatedTokensAreReplaced, HoldersTyped
<1>4. ReplyIsOurs'
  BY DEF ReplyIsOurs, HoldersTyped, RefreshStates, Tokens, NoToken
<1> QED
  BY <1>1, <1>2, <1>3, <1>4

\* The storage is cleared.
LEMMA ClearingHolds ==
  ASSUME IInv, Store(NoToken), UNCHANGED serverVars,
         refresh' \in {refresh, NoRefresh}
  PROVE  IInv'
<1> USE DEF IInv, serverVars, Store
<1>1. /\ stored' = NoToken /\ abandoned' \in BOOLEAN
      /\ UNCHANGED <<tokens, calls, registered>> /\ Issued' = Issued
  BY DEF Issued, HoldersTyped
<1>2. HoldersTyped'
  BY <1>1 DEF HoldersTyped, ServerTypeOK, NoRefresh, RefreshStates
<1>3. IssuedInOrder' /\ NamedAreIssued'
  BY <1>1 DEF IssuedInOrder, NamedAreIssued, NoRefresh
<1>4. RefreshHolds'
  BY <1>1 DEF RefreshHolds, NoRefresh
<1>5. StoredIsOurs' /\ RotatedTokensAreReplaced'
  BY <1>1 DEF StoredIsOurs, RotatedTokensAreReplaced
<1>6. ReplyIsOurs'
  BY <1>1 DEF ReplyIsOurs, NoRefresh
<1> QED
  BY <1>2, <1>3, <1>4, <1>5, <1>6

\* An invocation begins: the token it presents is nobody's or the page's.
LEMMA BeginningsHold ==
  ASSUME IInv, NEW c \in Calls, NEW op \in {"register", "login", "refresh"},
         NEW t \in Tokens \cup {NoToken}, Begin(c, op, t),
         t # NoToken => tokens[t] = "active" /\ ~Ours(t),
         UNCHANGED <<stored, refresh, abandoned>>
  PROVE  IInv'
<1> USE DEF IInv
<1>1. /\ UNCHANGED <<tokens, registered, stored, refresh, abandoned>>
      /\ calls[c].op = "none"
      /\ calls' = [calls EXCEPT ![c] =
                     [ op |-> op, parent |-> t, victims |-> Overflow ]]
      /\ Overflow \in SUBSET Tokens
  BY DEF Begin, Overflow, Active
<1> HIDE DEF Overflow
<1>2. Issued' = Issued /\ t \in Issued \cup {NoToken}
  BY <1>1 DEF Issued
<1>3. HoldersTyped'
  BY <1>1 DEF HoldersTyped, ServerTypeOK, CallStates
<1>4. IssuedInOrder' /\ NamedAreIssued'
  BY <1>1, <1>2 DEF IssuedInOrder, NamedAreIssued, HoldersTyped, ServerTypeOK
<1>5. RefreshHolds'
  BY <1>1 DEF RefreshHolds, HoldersTyped, ServerTypeOK
<1>6. StoredIsOurs' /\ RotatedTokensAreReplaced'
  BY <1>1 DEF StoredIsOurs, RotatedTokensAreReplaced, HoldersTyped,
              ServerTypeOK, Ours
<1>7. ReplyIsOurs'
  BY <1>1 DEF ReplyIsOurs, HoldersTyped, ServerTypeOK, Ours
<1> QED
  BY <1>3, <1>4, <1>5, <1>6, <1>7

\* An invocation ends, and the page or the browser may learn its token.
LEMMA CommitsHold ==
  ASSUME IInv, NEW c \in Calls, CommitIssue(c),
         \/ AnswerRefresh(c) /\ Answer(NextToken)
         \/ SignIn(c)
  PROVE  IInv'
<1> DEFINE new == NextToken
           p == calls[c].parent
<1> USE DEF IInv
<1>1. /\ calls' = [calls EXCEPT ![c] = NoCall]
      /\ p \in Issued \cup {NoToken} /\ NoCall \in CallStates
      /\ registered' = TRUE
  BY DEF CommitIssue, Finish, NamedAreIssued, NoCall, CallStates
<1>2. /\ new \in Tokens /\ new \notin Issued
      /\ tokens' \in [Tokens -> TokenStates]
      /\ Issued' = Issued \cup {new} /\ IssuedInOrder'
      /\ tokens'[new] = "active"
      /\ \A t \in Tokens : tokens'[t] = "rotated" => t = p \/ tokens[t] = "rotated"
  BY <1>1, IssueMoves DEF CommitIssue
<1>3. \/ /\ refresh.call = c
         /\ refresh' = [refresh EXCEPT !.phase = "answered", !.call = NoInvocation,
                                       !.reply = new]
         /\ UNCHANGED <<stored, abandoned>>
      \/ /\ refresh.call # c
         /\ \/ UNCHANGED <<stored, abandoned>>
            \/ stored' = new /\ abandoned' = (abandoned /\ new = stored)
         /\ UNCHANGED refresh
  BY DEF AnswerRefresh, Answer, SignIn, Unlinked, Store
<1> HIDE DEF new
<1>4. /\ calls \in [Calls -> CallStates] /\ tokens \in [Tokens -> TokenStates]
      /\ refresh \in RefreshStates /\ abandoned \in BOOLEAN
      /\ stored \in Issued \cup {NoToken}
      /\ Issued \subseteq Tokens /\ NoToken \notin Tokens
  BY DEF HoldersTyped, ServerTypeOK, NamedAreIssued, Issued, Tokens, NoToken
<1>5. HoldersTyped'
  BY <1>1, <1>2, <1>3, <1>4 DEF HoldersTyped, ServerTypeOK, RefreshStates
<1>6. NamedAreIssued'
  <2>1. \A d \in Calls : calls'[d].parent \in {calls[d].parent, NoToken}
    BY <1>1, <1>4 DEF NoCall
  <2>2. /\ refresh'.token = refresh.token
        /\ refresh'.reply \in {refresh.reply, new}
        /\ stored' \in {stored, new}
    BY <1>3, <1>4 DEF RefreshStates
  <2> QED
    BY <1>2, <2>1, <2>2 DEF NamedAreIssued
<1>7. RefreshHolds'
  <2>1. CASE refresh.call = c
    <3>1. refresh.phase = "running"
      BY <2>1 DEF RefreshHolds
    <3> QED
      BY <1>1, <1>3, <1>4, <2>1, <3>1 DEF RefreshHolds, RefreshStates
  <2>2. CASE refresh.call # c
    BY <1>1, <1>3, <1>4, <2>2 DEF RefreshHolds
  <2> QED
    BY <2>1, <2>2
<1>8. StoredIsOurs'
  BY <1>1, <1>2, <1>3, <1>4 DEF StoredIsOurs, NamedAreIssued, NoCall, RefreshStates
<1>9. ReplyIsOurs'
  <2>1. CASE refresh.call = c
    <3>1. \A d \in Calls : calls'[d].parent \in {calls[d].parent, NoToken}
      BY <1>1, <1>4 DEF NoCall
    <3>2. /\ refresh'.token = refresh.token /\ refresh'.reply = new
          /\ stored' = stored
      BY <1>3, <1>4, <2>1 DEF RefreshStates
    <3>3. new # NoToken /\ \A d \in Calls : calls[d].parent # new
      BY <1>2, <1>4 DEF NamedAreIssued
    <3>4. tokens'[new] # "rotated"
      BY <1>2
    <3>5. new # stored /\ new # refresh.token
      BY <1>2, <1>4, <3>3 DEF NamedAreIssued
    <3> QED
      BY <3>1, <3>2, <3>3, <3>4, <3>5 DEF ReplyIsOurs
  <2>2. CASE refresh.call # c
    BY <1>1, <1>2, <1>3, <1>4, <2>2 DEF ReplyIsOurs, NamedAreIssued, NoCall
  <2> QED
    BY <2>1, <2>2
<1>10. RotatedTokensAreReplaced'
  <2>1. p = stored /\ p # NoToken => abandoned \/ refresh.token = stored
    BY DEF StoredIsOurs
  <2> QED
    BY <1>2, <1>3, <1>4, <2>1 DEF RotatedTokensAreReplaced, RefreshStates
<1> QED
  BY <1>2, <1>5, <1>6, <1>7, <1>8, <1>9, <1>10

\* Another page exchanges the stored token.
LEMMA ExchangesHold ==
  ASSUME IInv, Issue(stored, Overflow), Store(NextToken),
         UNCHANGED <<registered, calls, requests, refresh>>
  PROVE  IInv'
<1> DEFINE new == NextToken
<1> USE DEF IInv
<1>1. /\ new \in Tokens /\ new \notin Issued
      /\ tokens' \in [Tokens -> TokenStates]
      /\ Issued' = Issued \cup {new} /\ IssuedInOrder'
      /\ tokens'[new] = "active"
      /\ \A t \in Tokens : tokens'[t] = "rotated" => t = stored \/ tokens[t] = "rotated"
  BY IssueMoves DEF NamedAreIssued
<1>2. stored' = new /\ abandoned' = (abandoned /\ new = stored)
  BY DEF Store
<1> HIDE DEF new
<1>3. NoToken \notin Tokens /\ Issued \subseteq Tokens
  BY DEF NoToken, Tokens, Issued
<1>4. HoldersTyped' /\ NamedAreIssued' /\ RefreshHolds'
  BY <1>1, <1>2 DEF HoldersTyped, ServerTypeOK, NamedAreIssued, RefreshHolds
<1>5. StoredIsOurs' /\ RotatedTokensAreReplaced'
  BY <1>1, <1>2, <1>3 DEF StoredIsOurs, RotatedTokensAreReplaced, NamedAreIssued
<1>6. ReplyIsOurs'
  BY <1>1, <1>2, <1>3 DEF ReplyIsOurs, NamedAreIssued
<1> QED
  BY <1>1, <1>4, <1>5, <1>6

\* The steps of a refresh before and after the backend's exchange.
LEMMA RefreshesHold ==
  ASSUME IInv,
         \/ \E r \in Requests : StartRefresh(r)
         \/ \E c \in Calls : TakeUp(c)
         \/ AnswerLost \/ Refreshed \/ Reload
  PROVE  IInv'
<1> USE DEF IInv
<1>0. /\ NoToken \notin Tokens /\ Issued \subseteq Tokens
      /\ refresh \in RefreshStates /\ NoRefresh \in RefreshStates
      /\ calls \in [Calls -> CallStates]
  BY DEF NoToken, Tokens, Issued, HoldersTyped, ServerTypeOK, NoRefresh, RefreshStates
<1>1. ASSUME NEW r \in Requests, StartRefresh(r)
      PROVE  IInv'
  <2>1. /\ refresh = NoRefresh /\ stored # NoToken
        /\ refresh' = [ phase |-> "posted", token |-> stored, call |-> NoInvocation,
                        reply |-> NoToken ]
        /\ UNCHANGED <<tokens, calls, registered, stored, abandoned>>
        /\ Issued' = Issued
    BY <1>1 DEF StartRefresh, NotRefreshing, isRefreshing, RefreshHolds, NoRefresh,
                serverVars, Issued
  <2>2. HoldersTyped' /\ IssuedInOrder' /\ NamedAreIssued' /\ RefreshHolds'
    BY <1>0, <2>1 DEF HoldersTyped, ServerTypeOK, RefreshStates, IssuedInOrder,
                      NamedAreIssued, RefreshHolds
  <2>3. StoredIsOurs' /\ ReplyIsOurs' /\ RotatedTokensAreReplaced'
    BY <1>0, <2>1 DEF StoredIsOurs, ReplyIsOurs, RotatedTokensAreReplaced
  <2> QED
    BY <2>2, <2>3
<1>2. ASSUME NEW c \in Calls, TakeUp(c)
      PROVE  IInv'
  <2>1. /\ refresh.phase = "posted" /\ refresh.token \in Tokens
        /\ refresh' = [refresh EXCEPT !.phase = "running", !.call = c]
        /\ UNCHANGED <<tokens, registered, stored, abandoned>>
        /\ calls[c].op = "none"
        /\ calls' = [calls EXCEPT ![c] = [ op |-> "refresh", parent |-> refresh.token,
                                           victims |-> Overflow ]]
        /\ Overflow \in SUBSET Tokens
        /\ Issued' = Issued
    BY <1>0, <1>2 DEF TakeUp, ReadForRefresh, Begin, RefreshHolds, RefreshStates,
                      Overflow, Active, Issued
  <2> HIDE DEF Overflow
  <2>2. refresh.reply = NoToken /\ refresh.call = NoInvocation
    BY <2>1 DEF RefreshHolds
  <2>3. HoldersTyped' /\ IssuedInOrder' /\ NamedAreIssued'
    BY <1>0, <2>1 DEF HoldersTyped, ServerTypeOK, RefreshStates, CallStates,
                      IssuedInOrder, NamedAreIssued
  <2>4. RefreshHolds'
    BY <1>0, <2>1, <2>2 DEF RefreshHolds, RefreshStates
  <2>5. StoredIsOurs' /\ ReplyIsOurs' /\ RotatedTokensAreReplaced'
    BY <1>0, <2>1, <2>2
       DEF StoredIsOurs, ReplyIsOurs, RotatedTokensAreReplaced, RefreshStates
  <2> QED
    BY <2>3, <2>4, <2>5
<1>3. CASE AnswerLost
  <2>1. /\ refresh.phase \in {"posted", "running"}
        /\ refresh' = [refresh EXCEPT !.phase = "answered", !.call = NoInvocation,
                                      !.reply = NoToken]
        /\ UNCHANGED <<tokens, calls, registered, stored, abandoned>>
        /\ Issued' = Issued
    BY <1>3 DEF AnswerLost, Answer, serverVars, Issued
  <2>2. HoldersTyped' /\ IssuedInOrder' /\ NamedAreIssued' /\ RefreshHolds'
    BY <1>0, <2>1 DEF HoldersTyped, ServerTypeOK, RefreshStates, IssuedInOrder,
                      NamedAreIssued, RefreshHolds
  <2>3. StoredIsOurs' /\ ReplyIsOurs' /\ RotatedTokensAreReplaced'
    BY <1>0, <2>1
       DEF StoredIsOurs, ReplyIsOurs, RotatedTokensAreReplaced, RefreshStates
  <2> QED
    BY <2>2, <2>3
<1>4. CASE Refreshed
  <2>1. /\ refresh.reply # NoToken /\ stored' = refresh.reply
        /\ refresh' = NoRefresh
        /\ abandoned' \in BOOLEAN
        /\ UNCHANGED <<tokens, calls, registered>>
        /\ Issued' = Issued
    BY <1>4 DEF Refreshed, Store, serverVars, Issued, HoldersTyped
  <2>2. HoldersTyped' /\ IssuedInOrder' /\ NamedAreIssued' /\ RefreshHolds'
    BY <1>0, <2>1 DEF HoldersTyped, ServerTypeOK, RefreshStates, IssuedInOrder,
                      NamedAreIssued, RefreshHolds, NoRefresh
  <2>3. StoredIsOurs' /\ ReplyIsOurs' /\ RotatedTokensAreReplaced'
    BY <1>0, <2>1
       DEF StoredIsOurs, ReplyIsOurs, RotatedTokensAreReplaced, NoRefresh
  <2> QED
    BY <2>2, <2>3
<1>5. CASE Reload
  <2>1. /\ refresh' = NoRefresh
        /\ abandoned' = (abandoned \/ (refresh.phase # "none" /\ refresh.token = stored))
        /\ UNCHANGED <<tokens, calls, registered, stored>>
        /\ Issued' = Issued
    BY <1>5 DEF Reload, isRefreshing, serverVars, Issued
  <2>2. refresh.token # NoToken => refresh.phase # "none"
    BY DEF RefreshHolds, NoRefresh
  <2>3. abandoned \/ (refresh.token # NoToken /\ refresh.token = stored) => abandoned'
    BY <2>1, <2>2, Zenon
  <2>4. abandoned' \in BOOLEAN
    BY <2>1, Zenon
  <2>5. HoldersTyped' /\ IssuedInOrder' /\ NamedAreIssued' /\ RefreshHolds'
    BY <1>0, <2>1, <2>4
       DEF HoldersTyped, ServerTypeOK, IssuedInOrder, NamedAreIssued,
           RefreshHolds, NoRefresh
  <2>6. StoredIsOurs' /\ ReplyIsOurs' /\ RotatedTokensAreReplaced'
    BY <1>0, <2>1, <2>3
       DEF StoredIsOurs, ReplyIsOurs, RotatedTokensAreReplaced, NoRefresh
  <2> QED
    BY <2>5, <2>6
<1> QED
  BY <1>1, <1>2, <1>3, <1>4, <1>5

\* The backend answers a refresh with an error.
LEMMA RefusalsHold ==
  ASSUME IInv, NEW c \in Calls, AbortCall(c), refresh.call = c, Answer(NoToken),
         UNCHANGED <<stored, abandoned>>
  PROVE  IInv'
<1> USE DEF IInv
<1>0. /\ NoToken \notin Tokens /\ Issued \subseteq Tokens
      /\ refresh \in RefreshStates
      /\ calls \in [Calls -> CallStates] /\ NoCall \in CallStates
      /\ refresh.phase = "running" /\ refresh.token # NoToken
  BY DEF NoToken, Tokens, Issued, HoldersTyped, ServerTypeOK, NoCall, CallStates,
         RefreshHolds
<1>1. /\ refresh' = [refresh EXCEPT !.phase = "answered", !.call = NoInvocation,
                                    !.reply = NoToken]
      /\ calls' = [calls EXCEPT ![c] = NoCall]
      /\ UNCHANGED <<tokens, registered, stored, abandoned>>
      /\ Issued' = Issued
  BY DEF AbortCall, Finish, Answer, Issued
<1>2. \A d \in Calls : calls'[d].parent \in {calls[d].parent, NoToken}
  BY <1>0, <1>1 DEF NoCall
<1>3. HoldersTyped' /\ IssuedInOrder'
  BY <1>0, <1>1 DEF HoldersTyped, ServerTypeOK, RefreshStates, IssuedInOrder
<1>4. NamedAreIssued'
  BY <1>0, <1>1, <1>2 DEF NamedAreIssued, RefreshStates
<1>5. RefreshHolds'
  BY <1>0, <1>1 DEF RefreshHolds, RefreshStates
<1>6. StoredIsOurs' /\ ReplyIsOurs' /\ RotatedTokensAreReplaced'
  BY <1>0, <1>1, <1>2
     DEF StoredIsOurs, ReplyIsOurs, RotatedTokensAreReplaced, RefreshStates
<1> QED
  BY <1>3, <1>4, <1>5, <1>6

LEMMA IInvInductive == IInv /\ [Next]_vars => IInv'
<1> SUFFICES ASSUME IInv, [Next]_vars
             PROVE  IInv'
  OBVIOUS
<1>0. /\ registered \in BOOLEAN /\ calls \in [Calls -> CallStates]
      /\ NoCall \in CallStates /\ NoCall.parent = NoToken
      /\ UNCHANGED tokens => TokensRest
  BY DEF IInv, HoldersTyped, ServerTypeOK, NoCall, CallStates, TokensRest, Issued
<1>1. ASSUME UNCHANGED serverVars, UNCHANGED <<stored, refresh, abandoned>>
      PROVE  IInv'
  BY <1>0, <1>1, OthersHold DEF serverVars
<1>2. ASSUME NEW c \in Calls, AbortCall(c), Unlinked(c),
             UNCHANGED <<stored, refresh, abandoned>>
      PROVE  IInv'
  <2>1. /\ calls' \in [Calls -> CallStates]
        /\ \A d \in Calls : calls'[d].parent \in {calls[d].parent, NoToken}
        /\ \A d \in Calls : refresh.call = d => calls'[d] = calls[d]
        /\ UNCHANGED <<tokens, registered>>
    BY <1>0, <1>2 DEF AbortCall, Finish, Unlinked
  <2> QED
    BY <1>0, <1>2, <2>1, OthersHold
<1>3. ASSUME NEW r \in Requests, PageStep(r)
      PROVE  IInv'
  <2>1. CASE Served(r)
    BY <1>0, <2>1, ServiceRests, OthersHold DEF Served, IInv
  <2>2. CASE Fails(r) \/ Leave(r)
    BY <1>1, <2>2, ClearingHolds DEF Fails, Leave
  <2>3. CASE StartRefresh(r)
    BY <2>3, RefreshesHold
  <2> QED
    BY <1>1, <1>3, <2>1, <2>2, <2>3 DEF PageStep, Send, StartLogout, Queue, Reject
<1>4. CASE RefreshStep
  <2>1. ASSUME NEW c \in Calls, AnswerRefresh(c)
        PROVE  IInv'
    <3>1. CASE CommitIssue(c) /\ Answer(NextToken)
      BY <2>1, <3>1, CommitsHold
    <3>2. CASE AbortCall(c) /\ Answer(NoToken)
      BY <2>1, <3>2, RefusalsHold DEF AnswerRefresh
    <3> QED
      BY <2>1, <3>1, <3>2 DEF AnswerRefresh
  <2>2. CASE NotRefreshed
    BY <2>2, ClearingHolds DEF NotRefreshed, TokensCleared
  <2> QED
    BY <1>4, <2>1, <2>2, RefreshesHold DEF RefreshStep
<1>5. ASSUME NEW c \in Calls, SignIn(c)
      PROVE  IInv'
  BY <1>5, CommitsHold DEF SignIn
<1>6. CASE OtherPage
  <2>1. CASE Store(NoToken) /\ UNCHANGED tokens
    BY <1>6, <2>1, ClearingHolds DEF OtherPage, serverVars
  <2> QED
    BY <1>6, <2>1, ExchangesHold DEF OtherPage
<1>7. CASE Backend
  <2>0. UNCHANGED <<stored, refresh, abandoned>>
    BY <1>7 DEF Backend, clientVars
  <2>1. ASSUME NEW c \in Calls, ReadForRegister(c) \/ ReadForLogin(c)
        PROVE  IInv'
    BY <2>0, <2>1, BeginningsHold DEF ReadForRegister, ReadForLogin
  <2>2. ASSUME NEW c \in Calls, NEW t \in Tokens, ~Ours(t), ReadForRefresh(c, t)
        PROVE  IInv'
    BY <2>0, <2>2, BeginningsHold DEF ReadForRefresh
  <2>3. ASSUME NEW S, Revoke(S)
        PROVE  IInv'
    BY <1>0, <2>0, <2>3, RevocationsRest, OthersHold DEF Revoke, IInv
  <2>4. ASSUME NEW t \in Tokens, Cleanup(t)
        PROVE  IInv'
    BY <1>0, <2>0, <2>4, CleanupRests, OthersHold DEF Cleanup, IInv
  <2> QED
    BY <1>2, <1>7, <2>0, <2>1, <2>2, <2>3, <2>4 DEF Backend, RevokeOne, RevokeAll
<1>8. CASE UNCHANGED vars
  BY <1>1, <1>8 DEF vars, serverVars
<1> QED
  BY <1>3, <1>4, <1>5, <1>6, <1>7, <1>8, RefreshesHold DEF Next

LEMMA Invariance == Spec => []IInv
<1>1. Init => IInv
  <2> SUFFICES ASSUME Init
               PROVE  IInv
    OBVIOUS
  <2>1. /\ stored = NoToken /\ refresh = NoRefresh /\ abandoned = FALSE
        /\ registered \in BOOLEAN
        /\ tokens = [t \in Tokens |-> "unissued"]
        /\ calls = [c \in Calls |-> NoCall]
    BY DEF Init, ServerInit
  <2>2. HoldersTyped
    BY <2>1 DEF HoldersTyped, ServerTypeOK, NoCall, CallStates, NoRefresh,
                RefreshStates, TokenStates
  <2>3. IssuedInOrder
    <3>1. Issued = 1..0
      BY <2>1 DEF Issued
    <3> QED
      BY <3>1 DEF IssuedInOrder
  <2>4. NamedAreIssued /\ RefreshHolds
    BY <2>1 DEF NamedAreIssued, RefreshHolds, NoCall, NoRefresh
  <2>5. StoredIsOurs /\ ReplyIsOurs /\ RotatedTokensAreReplaced
    BY <2>1 DEF StoredIsOurs, ReplyIsOurs, RotatedTokensAreReplaced, NoCall, NoRefresh
  <2> QED
    BY <2>2, <2>3, <2>4, <2>5 DEF IInv
<1> QED
  BY <1>1, IInvInductive, PTL DEF Spec

-----------------------------------------------------------------------------
(***************************************************************************)
(* The requests of the page.  Their invariant is inductive beside that of  *)
(* the tokens, of which it needs only that stored is a token or none.      *)
(***************************************************************************)
WaitIInv == requests \in [Requests -> RequestStates] /\ WaitersHaveRefresh

LEMMA PagesWait ==
  ASSUME IInv, WaitIInv, NEW r \in Requests, PageStep(r)
  PROVE  WaitIInv'
<1> USE DEF WaitIInv, WaitersHaveRefresh, isRefreshing, RequestStates, Go, Settled, Idle
<1>1. CASE Send(r) \/ StartLogout(r) \/ Queue(r)
  BY <1>1 DEF Send, StartLogout, Queue, IInv, HoldersTyped
<1>2. CASE Served(r) \/ Fails(r) \/ Reject(r)
  <2>1. /\ requests[r].at \in {"sent", "retried"}
        /\ requests' = [requests EXCEPT ![r] = Settled(@)]
        /\ UNCHANGED refresh
    BY <1>2 DEF Served, Fails, Reject
  <2>2. Settled(requests[r]) \in RequestStates
    BY DEF NoToken
  <2> QED
    BY <2>1, <2>2
<1>3. CASE Leave(r)
  BY <1>3 DEF Leave, NoToken
<1>4. CASE StartRefresh(r)
  BY <1>4 DEF StartRefresh, NotRefreshing, NoRefresh
<1> QED
  BY <1>1, <1>2, <1>3, <1>4 DEF PageStep

LEMMA RefreshesWait ==
  ASSUME IInv, WaitIInv, RefreshStep \/ Reload
  PROVE  WaitIInv'
<1> USE DEF WaitIInv, WaitersHaveRefresh, isRefreshing, RequestStates, Settled, Idle
<1>0. refresh \in RefreshStates
  BY DEF IInv, HoldersTyped
<1>1. CASE AnswerLost \/ \E c \in Calls : TakeUp(c) \/ AnswerRefresh(c)
  <2>1. /\ refresh.phase # "none" /\ refresh'.phase # "none"
        /\ UNCHANGED requests
    BY <1>0, <1>1 DEF AnswerLost, TakeUp, AnswerRefresh, Answer, RefreshStates,
                      IInv, RefreshHolds
  <2> QED
    BY <2>1
<1>2. CASE Refreshed
  BY <1>2 DEF Refreshed, NoRefresh, Queued
<1>3. CASE NotRefreshed
  BY <1>3 DEF NotRefreshed, NoRefresh, Queued, NoToken
<1>4. CASE Reload
  BY <1>4 DEF Reload, NoRefresh, NoToken
<1> QED
  BY <1>1, <1>2, <1>3, <1>4 DEF RefreshStep

LEMMA WaitInvariance == Spec => []WaitIInv
<1>1. Init => WaitIInv
  BY DEF Init, WaitIInv, WaitersHaveRefresh, isRefreshing, NoRefresh,
         RequestStates, Idle, NoToken
<1>2. IInv /\ WaitIInv /\ [Next]_vars => WaitIInv'
  <2> SUFFICES ASSUME IInv, WaitIInv, [Next]_vars
               PROVE  WaitIInv'
    OBVIOUS
  <2>1. CASE UNCHANGED <<requests, refresh>>
    BY <2>1 DEF WaitIInv, WaitersHaveRefresh, isRefreshing
  <2> QED
    BY <2>1, PagesWait, RefreshesWait
       DEF Next, vars, SignIn, OtherPage, Backend, clientVars
<1> QED
  BY <1>1, <1>2, Invariance, PTL DEF Spec

-----------------------------------------------------------------------------
\* Type correctness of the backend's tokens and the browser: whatever is stored
\* or presented is a token, and no token is issued twice or beyond the last.
THEOREM TypeCorrect == Spec => []TypeOK
<1>1. IInv /\ WaitIInv => TypeOK
  BY DEF IInv, HoldersTyped, WaitIInv, TypeOK
<1> QED
  BY <1>1, Invariance, WaitInvariance, PTL

\* A page waits for a refresh only while there is one, which one of its requests
\* waits for as the one that started it.
THEOREM WaitersAreServed == Spec => []WaitersHaveRefresh
<1>1. WaitIInv => WaitersHaveRefresh
  BY DEF WaitIInv
<1> QED
  BY <1>1, WaitInvariance, PTL

\* The browser does not keep a token that was exchanged, unless the exchange is
\* under way or its page was left in the middle of it.
THEOREM RotatedReplaced == Spec => []RotatedTokensAreReplaced
<1>1. IInv => RotatedTokensAreReplaced
  BY DEF IInv
<1> QED
  BY <1>1, Invariance, PTL

-----------------------------------------------------------------------------
(***************************************************************************)
(* The limit on sessions.  Each invocation leaves room for one token among *)
(* those it reads, but not for those issued after it has read.  All that   *)
(* were issued since the last read of an invocation that has committed are *)
(* of invocations that were under way at that read, so there is one at     *)
(* most of each.  The order of the reads (rank) is not part of the state:  *)
(* that there is such an order is the invariant.                           *)
(***************************************************************************)
Pending == {c \in Calls : calls[c].op # "none"}
Remaining(c) == Active \ calls[c].victims

\* The invocations that have read at k or before and have not committed.
ReadBy(rank, k) == {c \in Pending : rank[c] <= k}

Room == MaxSessions - 1 + Cardinality(Calls)

\* last: the last read of an invocation that has committed; now: the next read.
LimitHeld(rank, last, now) ==
  /\ last < now /\ \A c \in Calls : rank[c] < now
  /\ Cardinality(Active) + Cardinality(ReadBy(rank, last)) <= Room
  /\ \A c \in Pending :
       rank[c] > last
         => Cardinality(Remaining(c)) + Cardinality(ReadBy(rank, rank[c])) <= Room

LimitIInv ==
  \E rank \in [Calls -> Nat], last, now \in Nat : LimitHeld(rank, last, now)

\* The sets that are counted are finite.
LEMMA CountsAreNat ==
  ASSUME NEW rank, NEW k
  PROVE  /\ IsFiniteSet(Active) /\ IsFiniteSet(Active')
         /\ IsFiniteSet(ReadBy(rank, k)) /\ IsFiniteSet(ReadBy(rank, k)')
         /\ Cardinality(Active) \in Nat /\ Cardinality(Active') \in Nat
         /\ Cardinality(ReadBy(rank, k)) \in Nat
         /\ Cardinality(ReadBy(rank, k)') \in Nat
         /\ Cardinality(ReadBy(rank, k)') <= Cardinality(Calls)
         /\ Cardinality(Calls) \in Nat
         /\ Room \in Nat
<1>1. IsFiniteSet(Tokens)
  BY FS_Interval DEF Tokens
<1>2. IsFiniteSet(Active) /\ IsFiniteSet(Active')
  BY <1>1, FS_Subset DEF Active
<1>3. /\ ReadBy(rank, k) \subseteq Calls
      /\ ReadBy(rank, k)' \subseteq Calls
  BY DEF ReadBy, Pending
<1>4. /\ IsFiniteSet(ReadBy(rank, k)) /\ IsFiniteSet(ReadBy(rank, k)')
      /\ Cardinality(ReadBy(rank, k)') <= Cardinality(Calls)
  BY <1>3, FS_Subset
<1>5. Cardinality(Calls) \in Nat
  BY FS_CardinalityType
<1> QED
  BY <1>2, <1>4, <1>5, FS_CardinalityType DEF Room

LEMMA RemainingAreNat ==
  ASSUME NEW c \in Calls
  PROVE  /\ IsFiniteSet(Remaining(c)) /\ IsFiniteSet(Remaining(c)')
         /\ Cardinality(Remaining(c)) \in Nat
         /\ Cardinality(Remaining(c)') \in Nat
<1>1. IsFiniteSet(Active) /\ IsFiniteSet(Active')
  BY CountsAreNat
<1>2. IsFiniteSet(Remaining(c)) /\ IsFiniteSet(Remaining(c)')
  BY <1>1, FS_Subset DEF Remaining
<1> QED
  BY <1>2, FS_CardinalityType

\* A nonempty set of tokens has a least one.
LEMMA LeastToken ==
  ASSUME NEW S \in SUBSET Tokens, S # {}
  PROVE  \E t \in S : \A u \in S : u >= t
<1> DEFINE R == {ss \in Nat \X Nat : ss[1] < ss[2]}
<1>1. IsWellFoundedOn(R, Nat)
  BY NatLessThanWellFounded, Zenon DEF OpToRel
<1>2. S \subseteq Nat
  BY DEF Tokens
<1> HIDE DEF R
<1>3. PICK t \in S : \A u \in S : ~(<<u, t>> \in R)
  BY <1>1, <1>2, WFMin
<1>4. \A u \in S : ~(u < t)
  BY <1>2, <1>3 DEF R
<1> QED
  BY <1>2, <1>4

\* enforceMaxSessionLimit leaves room for one session among those it has read.
LEMMA OverflowLeavesRoom ==
  /\ IsFiniteSet(Active \ Overflow)
  /\ Cardinality(Active \ Overflow) \in Nat
  /\ Cardinality(Active \ Overflow) <= MaxSessions - 1
<1> DEFINE K == Active \ Overflow
<1>1. IsFiniteSet(K) /\ Cardinality(K) \in Nat
  BY CountsAreNat, FS_Subset, FS_CardinalityType
<1>2. CASE K = {}
  BY <1>2, FS_EmptySet
<1>3. CASE K # {}
  <2>1. PICK t \in K : \A u \in K : u >= t
    BY <1>3, LeastToken DEF Active
  <2> DEFINE Above == {u \in Active : u >= t}
  <2>2. IsFiniteSet(Above) /\ Cardinality(Above) \in Nat
    BY CountsAreNat, FS_Subset, FS_CardinalityType
  <2>3. Cardinality(K) <= Cardinality(Above)
    BY <2>1, <2>2, FS_Subset
  <2>4. ~(Cardinality(Above) >= MaxSessions)
    BY <2>1 DEF Overflow
  <2> QED
    BY <1>1, <2>2, <2>3, <2>4
<1> QED
  BY <1>1, <1>2, <1>3

\* Fewer sessions, or fewer invocations under way: the same order serves.
LEMMA LimitKept ==
  ASSUME LimitIInv, Active' \subseteq Active, Pending' \subseteq Pending,
         \A c \in Pending' : calls'[c] = calls[c]
  PROVE  LimitIInv'
<1>1. PICK rank \in [Calls -> Nat], last \in Nat, now \in Nat :
        LimitHeld(rank, last, now)
  BY DEF LimitIInv
<1>2. ASSUME NEW k
      PROVE  Cardinality(ReadBy(rank, k)') <= Cardinality(ReadBy(rank, k))
  <2>1. ReadBy(rank, k)' \subseteq ReadBy(rank, k)
    BY DEF ReadBy
  <2> QED
    BY <2>1, CountsAreNat, FS_Subset
<1>3. Cardinality(Active') <= Cardinality(Active)
  BY CountsAreNat, FS_Subset
<1>4. ASSUME NEW c \in Pending', rank[c] > last
      PROVE  Cardinality(Remaining(c)') + Cardinality(ReadBy(rank, rank[c])') <= Room
  <2>1. Remaining(c)' \subseteq Remaining(c)
    BY <1>4 DEF Remaining
  <2>2. Cardinality(Remaining(c)') <= Cardinality(Remaining(c))
    BY <1>4, <2>1, RemainingAreNat, FS_Subset DEF Pending
  <2>3. Cardinality(Remaining(c)) + Cardinality(ReadBy(rank, rank[c])) <= Room
    BY <1>1, <1>4 DEF LimitHeld
  <2> QED
    BY <1>2, <1>4, <2>2, <2>3, RemainingAreNat, CountsAreNat DEF Pending
<1>5. LimitHeld(rank, last, now)'
  BY <1>1, <1>2, <1>3, <1>4, CountsAreNat DEF LimitHeld, Room
<1> QED
  BY <1>5 DEF LimitIInv

\* An invocation begins: it has read last, and leaves room among what it read.
LEMMA LimitAtBegin ==
  ASSUME IInv, LimitIInv, NEW c \in Calls, NEW op \in {"register", "login", "refresh"},
         NEW t, Begin(c, op, t)
  PROVE  LimitIInv'
<1>1. PICK rank \in [Calls -> Nat], last \in Nat, now \in Nat :
        LimitHeld(rank, last, now)
  BY DEF LimitIInv
<1> DEFINE next == [rank EXCEPT ![c] = now]
<1>2. /\ next \in [Calls -> Nat] /\ next[c] = now
      /\ \A d \in Calls \ {c} : next[d] = rank[d] /\ next[d] < now
      /\ last < now
  BY <1>1 DEF LimitHeld
<1>3. /\ c \notin Pending /\ Pending' = Pending \cup {c}
      /\ tokens' = tokens
      /\ calls'[c].victims = Overflow
      /\ \A d \in Calls \ {c} : calls'[d] = calls[d]
  BY DEF Begin, Pending, IInv, HoldersTyped, ServerTypeOK
<1> HIDE DEF next
<1>4. /\ Active' = Active
      /\ Remaining(c)' = Active \ Overflow
      /\ \A d \in Pending : Remaining(d)' = Remaining(d)
  BY <1>3 DEF Active, Remaining, Pending, Overflow
<1>5. ASSUME NEW k \in Nat, k < now
      PROVE  ReadBy(next, k)' = ReadBy(rank, k)
  BY <1>2, <1>3, <1>5 DEF ReadBy, Pending
<1>6. Cardinality(Active') + Cardinality(ReadBy(next, last)') <= Room
  BY <1>1, <1>2, <1>4, <1>5 DEF LimitHeld
<1>7. ASSUME NEW d \in Pending', next[d] > last
      PROVE  Cardinality(Remaining(d)') + Cardinality(ReadBy(next, next[d])') <= Room
  <2>1. CASE d = c
    <3>1. Cardinality(ReadBy(next, next[d])') <= Cardinality(Calls)
      BY CountsAreNat
    <3>2. /\ Cardinality(ReadBy(next, next[d])') \in Nat
          /\ Cardinality(Calls) \in Nat
      BY CountsAreNat
    <3>3. Cardinality(Remaining(d)') <= MaxSessions - 1
      BY <1>4, <2>1, OverflowLeavesRoom
    <3>4. Cardinality(Remaining(d)') \in Nat
      BY <1>4, <2>1, OverflowLeavesRoom
    <3> QED
      BY <3>1, <3>2, <3>3, <3>4 DEF Room
  <2>2. CASE d # c
    BY <1>1, <1>2, <1>3, <1>4, <1>5, <1>7, <2>2 DEF LimitHeld, Pending
  <2> QED
    BY <2>1, <2>2
<1>8. LimitHeld(next, last, now + 1)'
  <2>1. last < now + 1 /\ \A d \in Calls : next[d] < now + 1
    BY <1>2
  <2> QED
    BY <1>6, <1>7, <2>1 DEF LimitHeld, Room
<1> QED
  BY <1>2, <1>8 DEF LimitIInv

\* One token more than there would be without another.
LEMMA OneMore ==
  ASSUME NEW S, NEW T, NEW x, IsFiniteSet(S), T \subseteq S \cup {x}
  PROVE  Cardinality(T) <= Cardinality(S) + 1
<1>0. /\ IsFiniteSet(S \cup {x})
      /\ Cardinality(S \cup {x}) = IF x \in S THEN Cardinality(S) ELSE Cardinality(S) + 1
  BY FS_AddElement
<1>1. /\ IsFiniteSet(S \cup {x})
      /\ Cardinality(S \cup {x}) <= Cardinality(S) + 1
      /\ Cardinality(S) \in Nat /\ Cardinality(S \cup {x}) \in Nat
  <2>1. Cardinality(S) \in Nat
    BY FS_CardinalityType
  <2> QED
    BY <1>0, <2>1
<1>2. IsFiniteSet(T) /\ Cardinality(T) <= Cardinality(S \cup {x}) /\ Cardinality(T) \in Nat
  BY <1>1, FS_Subset, FS_CardinalityType
<1> QED
  BY <1>1, <1>2

\* An invocation commits: its token takes its place, and those that have read
\* before it, if it is not the last that has, need no room of their own any more.
LEMMA LimitAtCommit ==
  ASSUME IInv, LimitIInv, NEW c \in Calls, CommitIssue(c)
  PROVE  LimitIInv'
<1>1. PICK rank \in [Calls -> Nat], last \in Nat, now \in Nat :
        LimitHeld(rank, last, now)
  BY DEF LimitIInv
<1>2. /\ c \in Pending /\ Pending' = Pending \ {c}
      /\ \A d \in Calls \ {c} : calls'[d] = calls[d]
  BY DEF CommitIssue, Finish, NoCall, Pending, IInv, HoldersTyped, ServerTypeOK
<1>3. Active' \subseteq Remaining(c) \cup {NextToken}
  BY DEF CommitIssue, Issue, Active, Remaining
<1>4. Active' \subseteq Active \cup {NextToken}
  BY <1>3 DEF Remaining
<1>5. ASSUME NEW k \in Nat, rank[c] <= k
      PROVE  Cardinality(ReadBy(rank, k)') = Cardinality(ReadBy(rank, k)) - 1
  <2>1. c \in ReadBy(rank, k) /\ ReadBy(rank, k)' = ReadBy(rank, k) \ {c}
    BY <1>2, <1>5 DEF ReadBy
  <2>2. IsFiniteSet(ReadBy(rank, k))
    BY CountsAreNat
  <2>3. Cardinality(ReadBy(rank, k) \ {c}) = Cardinality(ReadBy(rank, k)) - 1
    BY <2>1, <2>2, FS_RemoveElement
  <2> QED
    BY <2>1, <2>3
<1>6. ASSUME NEW d \in Pending', rank[d] > last, rank[c] <= rank[d]
      PROVE  Cardinality(Remaining(d)') + Cardinality(ReadBy(rank, rank[d])') <= Room
  <2>1. Remaining(d)' \subseteq Remaining(d) \cup {NextToken}
    BY <1>2, <1>4 DEF Remaining, Pending
  <2>2. /\ d \in Calls
        /\ Cardinality(Remaining(d)') <= Cardinality(Remaining(d)) + 1
    BY <1>2, <2>1, RemainingAreNat, OneMore DEF Pending
  <2>3. Cardinality(Remaining(d)) + Cardinality(ReadBy(rank, rank[d])) <= Room
    BY <1>1, <1>2, <1>6 DEF LimitHeld
  <2>4. Cardinality(ReadBy(rank, rank[d])') = Cardinality(ReadBy(rank, rank[d])) - 1
    BY <1>5, <1>6, <2>2
  <2> QED
    BY <2>2, <2>3, <2>4, RemainingAreNat, CountsAreNat
<1>7. CASE rank[c] <= last
  <2>1. Cardinality(Active') <= Cardinality(Active) + 1
    BY <1>4, CountsAreNat, OneMore
  <2>2. Cardinality(Active') + Cardinality(ReadBy(rank, last)') <= Room
    BY <1>1, <1>5, <1>7, <2>1, CountsAreNat DEF LimitHeld
  <2>3. \A d \in Pending' : rank[d] > last => rank[c] <= rank[d]
    BY <1>2, <1>7 DEF Pending
  <2>4. LimitHeld(rank, last, now)'
    BY <1>1, <1>6, <2>2, <2>3 DEF LimitHeld, Room
  <2> QED
    BY <2>4 DEF LimitIInv
<1>8. CASE rank[c] > last
  <2>1. Cardinality(Active') <= Cardinality(Remaining(c)) + 1
    BY <1>3, RemainingAreNat, OneMore
  <2>2. Cardinality(Remaining(c)) + Cardinality(ReadBy(rank, rank[c])) <= Room
    BY <1>1, <1>2, <1>8 DEF LimitHeld
  <2>3. Cardinality(Active') + Cardinality(ReadBy(rank, rank[c])') <= Room
    BY <1>5, <2>1, <2>2, RemainingAreNat, CountsAreNat
  <2>4. \A d \in Pending' : rank[d] > rank[c] => rank[d] > last /\ rank[c] <= rank[d]
    BY <1>2, <1>8 DEF Pending
  <2>5. rank[c] < now
    BY <1>1 DEF LimitHeld
  <2>6. LimitHeld(rank, rank[c], now)'
    BY <1>1, <1>6, <2>3, <2>4, <2>5 DEF LimitHeld, Room
  <2> QED
    BY <2>6 DEF LimitIInv
<1> QED
  BY <1>7, <1>8

\* Another page exchanges: as if its invocation read and committed at once.
LEMMA LimitAtExchange ==
  ASSUME IInv, LimitIInv, Issue(stored, Overflow), NEW c \in Calls,
         calls[c].op = "none", calls' = calls
  PROVE  LimitIInv'
<1>1. PICK rank \in [Calls -> Nat], last \in Nat, now \in Nat :
        LimitHeld(rank, last, now)
  BY DEF LimitIInv
<1>2. Active' \subseteq (Active \ Overflow) \cup {NextToken}
  BY DEF Issue, Active
<1>3. Cardinality(Active') <= MaxSessions - 1 + 1
  <2>1. Cardinality(Active') <= Cardinality(Active \ Overflow) + 1
    BY <1>2, OverflowLeavesRoom, OneMore
  <2> QED
    BY <2>1, OverflowLeavesRoom, CountsAreNat
<1>4. Cardinality(ReadBy(rank, now)') <= Cardinality(Calls) - 1
  <2>1. ReadBy(rank, now)' \subseteq Calls \ {c}
    BY DEF ReadBy, Pending
  <2>2. /\ IsFiniteSet(Calls \ {c})
        /\ Cardinality(Calls \ {c}) = Cardinality(Calls) - 1
    BY FS_RemoveElement
  <2> QED
    BY <2>1, <2>2, FS_Subset
<1>5. Cardinality(Active') + Cardinality(ReadBy(rank, now)') <= Room
  <2>1. /\ Cardinality(Active') \in Nat /\ Cardinality(Calls) \in Nat
        /\ Cardinality(ReadBy(rank, now)') \in Nat
    BY CountsAreNat
  <2> QED
    BY <1>3, <1>4, <2>1 DEF Room
<1>6. LimitHeld(rank, now, now + 1)'
  <2>1. \A d \in Calls : rank[d] < now
    BY <1>1 DEF LimitHeld
  <2>2. \A d \in Pending' : ~(rank[d] > now)
    BY <2>1 DEF Pending
  <2>3. now < now + 1 /\ \A d \in Calls : rank[d] < now + 1
    BY <2>1
  <2> QED
    BY <1>5, <2>2, <2>3 DEF LimitHeld, Room
<1> QED
  BY <1>6 DEF LimitIInv

\* Revoking and deleting leave no more sessions than there were.
LEMMA RevocationsShrink ==
  ASSUME NEW S, Revoke(S)
  PROVE  Active' \subseteq Active /\ UNCHANGED calls
BY DEF Revoke, Active

LEMMA LimitWhenUndone ==
  ASSUME IInv, LimitIInv,
         \/ \E S : Revoke(S)
         \/ \E t \in Tokens : Cleanup(t)
         \/ \E c \in Calls : AbortCall(c)
         \/ UNCHANGED <<tokens, calls>>
  PROVE  LimitIInv'
<1>1. CASE \E S : Revoke(S)
  <2>1. Active' \subseteq Active /\ UNCHANGED calls
    BY <1>1, RevocationsShrink
  <2> QED
    BY <2>1, LimitKept DEF Pending
<1>2. ASSUME NEW t \in Tokens, Cleanup(t)
      PROVE  LimitIInv'
  <2>1. Active' \subseteq Active /\ UNCHANGED calls
    BY <1>2 DEF Cleanup, Active
  <2> QED
    BY <2>1, LimitKept DEF Pending
<1>3. ASSUME NEW c \in Calls, AbortCall(c)
      PROVE  LimitIInv'
  <2>1. UNCHANGED tokens /\ calls' = [calls EXCEPT ![c] = NoCall]
    BY <1>3 DEF AbortCall, Finish
  <2>2. Active' = Active
    BY <2>1 DEF Active
  <2>3. /\ Pending' \subseteq Pending
        /\ \A d \in Pending' : calls'[d] = calls[d]
    BY <2>1 DEF Pending, NoCall, IInv, HoldersTyped, ServerTypeOK
  <2> QED
    BY <2>2, <2>3, LimitKept
<1>4. CASE UNCHANGED <<tokens, calls>>
  <2>1. Active' \subseteq Active /\ Pending' \subseteq Pending
    BY <1>4 DEF Active, Pending
  <2> QED
    BY <1>4, <2>1, LimitKept
<1> QED
  BY <1>1, <1>2, <1>3, <1>4

LEMMA LimitAtClient ==
  ASSUME IInv, LimitIInv,
         RefreshStep \/ OtherPage \/ \E c \in Calls : SignIn(c)
  PROVE  LimitIInv'
<1>1. ASSUME NEW c \in Calls, CommitIssue(c)
      PROVE  LimitIInv'
  BY <1>1, LimitAtCommit
<1>2. ASSUME NEW c \in Calls, AbortCall(c) \/ UNCHANGED <<tokens, calls>>
      PROVE  LimitIInv'
  BY <1>2, LimitWhenUndone
<1>3. ASSUME NEW c \in Calls, TakeUp(c)
      PROVE  LimitIInv'
  <2>1. Begin(c, "refresh", refresh.token)
    BY <1>3 DEF TakeUp, ReadForRefresh
  <2> QED
    BY <2>1, LimitAtBegin
<1>4. ASSUME NEW c \in Calls, AnswerRefresh(c) \/ SignIn(c)
      PROVE  LimitIInv'
  BY <1>1, <1>2, <1>4 DEF AnswerRefresh, SignIn
<1>5. CASE AnswerLost \/ Refreshed \/ NotRefreshed
  <2>1. UNCHANGED <<tokens, calls>>
    BY <1>5 DEF AnswerLost, Refreshed, NotRefreshed, serverVars
  <2> QED
    BY <2>1, LimitWhenUndone
<1>6. CASE OtherPage
  <2>1. CASE UNCHANGED tokens
    <3>1. UNCHANGED <<tokens, calls>>
      BY <1>6, <2>1 DEF OtherPage
    <3> QED
      BY <3>1, LimitWhenUndone
  <2>2. ASSUME NEW c \in Calls, calls[c].op = "none", Issue(stored, Overflow)
        PROVE  LimitIInv'
    <3>1. calls' = calls
      BY <1>6 DEF OtherPage
    <3> QED
      BY <2>2, <3>1, LimitAtExchange
  <2> QED
    BY <1>6, <2>1, <2>2 DEF OtherPage
<1> QED
  BY <1>3, <1>4, <1>5, <1>6 DEF RefreshStep

LEMMA LimitAtBackend ==
  ASSUME IInv, LimitIInv, Backend
  PROVE  LimitIInv'
<1>1. ASSUME NEW c \in Calls,
             \/ ReadForRegister(c) \/ ReadForLogin(c)
             \/ \E t \in Tokens : ReadForRefresh(c, t)
      PROVE  LimitIInv'
  <2>1. \E op \in {"register", "login", "refresh"}, t \in Tokens \cup {NoToken} :
          Begin(c, op, t)
    BY <1>1 DEF ReadForRegister, ReadForLogin, ReadForRefresh
  <2> QED
    BY <2>1, LimitAtBegin
<1>2. ASSUME \/ \E c \in Calls : AbortCall(c)
             \/ \E t \in Tokens : Cleanup(t)
             \/ \E S : Revoke(S)
      PROVE  LimitIInv'
  BY <1>2, LimitWhenUndone
<1> QED
  BY <1>1, <1>2 DEF Backend, RevokeOne, RevokeAll

LEMMA LimitAtPage ==
  ASSUME IInv, LimitIInv, Reload \/ \E r \in Requests : PageStep(r)
  PROVE  LimitIInv'
<1>1. UNCHANGED <<tokens, calls>> \/ \E S : Revoke(S)
  BY DEF Reload, PageStep, Send, StartLogout, Served, Fails, Leave, Queue, Reject,
         StartRefresh, serverVars
<1> QED
  BY <1>1, LimitWhenUndone

LEMMA LimitInvariance == Spec => []LimitIInv
<1>1. Init => LimitIInv
  <2> SUFFICES ASSUME Init
               PROVE  LimitIInv
    OBVIOUS
  <2> DEFINE rank == [c \in Calls |-> 0]
  <2>1. Active = {} /\ Pending = {} /\ ReadBy(rank, 0) = {}
    BY DEF Init, ServerInit, Active, Pending, ReadBy, NoCall
  <2>2. Cardinality(Active) + Cardinality(ReadBy(rank, 0)) <= Room
    <3>1. Room \in Nat
      BY CountsAreNat
    <3> QED
      BY <2>1, <3>1, FS_EmptySet
  <2>3. rank \in [Calls -> Nat] /\ \A c \in Calls : rank[c] < 1
    OBVIOUS
  <2>4. LimitHeld(rank, 0, 1)
    BY <2>1, <2>2, <2>3 DEF LimitHeld
  <2> QED
    BY <2>3, <2>4 DEF LimitIInv
<1>2. IInv /\ LimitIInv /\ [Next]_vars => LimitIInv'
  <2> SUFFICES ASSUME IInv, LimitIInv, [Next]_vars
               PROVE  LimitIInv'
    OBVIOUS
  <2>1. CASE UNCHANGED vars
    <3>1. UNCHANGED <<tokens, calls>>
      BY <2>1 DEF vars
    <3> QED
      BY <3>1, LimitWhenUndone
  <2> QED
    BY <2>1, LimitAtClient, LimitAtBackend, LimitAtPage DEF Next
<1> QED
  BY <1>1, <1>2, Invariance, PTL DEF Spec

\* The sessions of a user exceed the limit by no more than the invocations there
\* can be at once, however many have come and gone.
THEOREM SessionsAreLimited == Spec => []SessionLimitOnlyByRacing
<1>1. LimitIInv => SessionLimitOnlyByRacing
  <2> SUFFICES ASSUME LimitIInv
               PROVE  SessionLimitOnlyByRacing
    OBVIOUS
  <2>1. PICK rank \in [Calls -> Nat], last \in Nat, now \in Nat :
          LimitHeld(rank, last, now)
    BY DEF LimitIInv
  <2>2. /\ Cardinality(ReadBy(rank, last)) \in Nat /\ Cardinality(Active) \in Nat
        /\ Cardinality(Calls) \in Nat
    BY CountsAreNat
  <2>3. Cardinality(Active) + Cardinality(ReadBy(rank, last)) <= Room
    BY <2>1 DEF LimitHeld
  <2> QED
    BY <2>2, <2>3 DEF SessionLimitOnlyByRacing, Room
<1> QED
  BY <1>1, LimitInvariance, PTL

-----------------------------------------------------------------------------
(***************************************************************************)
(* The console.  Every screen keeps an auxiliary variable that tells when  *)
(* two of its reads may have crossed; the invariants say what holds of the *)
(* answers under way as long as they have not.                             *)
(***************************************************************************)
\* The list: the load under way asks for what the filters show, and so does every
\* refresh unless the query changed under one.
FetchesAskParams ==
  \A f \in Fetches :
    /\ fetches[f].kind = "load" => fetches[f].query = params
    /\ fetches[f].kind = "refresh" /\ ~overtaken => fetches[f].query = params

ShownAnswersParams == TableShown /\ ~overtaken => list.shown = params

ListIInv == ListTypeOK /\ FetchesAskParams /\ ShownAnswersParams

LEMMA BareQuery == Bare \in Queries
BY DefaultsAssumption DEF Bare, Queries

LEMMA ListBegins ==
  ASSUME NEW query \in Queries, NEW f \in Fetches,
         params' = query, typed' \in Searches, url' \in Queries,
         list' = Loading(NoRows), fetches' = Mounted(f, query), overtaken' = FALSE
  PROVE  ListIInv'
<1>1. ListTypeOK'
  BY BareQuery DEF ListTypeOK, Loading, Mounted, FetchStates, NoFetch
<1>2. FetchesAskParams' /\ ShownAnswersParams'
  BY DEF FetchesAskParams, ShownAnswersParams, TableShown, Loading, Mounted, NoFetch
<1> QED
  BY <1>1, <1>2 DEF ListIInv

\* Every handler that sets the query.
LEMMA ShowKept ==
  ASSUME ListIInv, NEW query \in Queries, Show(query), url' \in Queries, typed' \in Searches
  PROVE  ListIInv'
<1>1. CASE query = params
  BY <1>1 DEF Show, ListIInv, ListTypeOK, FetchesAskParams, ShownAnswersParams, TableShown,
              Queries, FetchStates
<1>2. CASE query # params
  <2>1. PICK f \in Fetches : fetches[f].kind = "none" /\ fetches' = Loaded(f, query)
    BY <1>2 DEF Show
  <2>2. /\ params' = query /\ list' = Loading(list.shown)
        /\ overtaken' = RefreshUnderWay /\ overtaken' \in BOOLEAN
    BY <1>2 DEF Show, RefreshUnderWay
  <2>3. ASSUME NEW g \in Fetches
        PROVE  /\ fetches'[g] \in FetchStates
               /\ fetches'[g].kind = "load" => fetches'[g].query = query
               /\ fetches'[g].kind = "refresh" => fetches[g].kind = "refresh"
    BY <2>1 DEF Loaded, ListIInv, ListTypeOK, FetchStates
  <2>4. fetches' \in [Fetches -> FetchStates]
    BY <2>1, <2>3 DEF Loaded
  <2>5. ListTypeOK'
    BY <2>2, <2>4 DEF ListIInv, ListTypeOK, Loading
  <2>6. FetchesAskParams' /\ ShownAnswersParams'
    BY <2>2, <2>3 DEF FetchesAskParams, ShownAnswersParams, TableShown, Loading,
       RefreshUnderWay
  <2> QED
    BY <2>5, <2>6 DEF ListIInv
<1> QED
  BY <1>1, <1>2

LEMMA RefreshKept ==
  ASSUME ListIInv, Refresh
  PROVE  ListIInv'
<1>1. PICK f \in Fetches :
        /\ fetches[f].kind = "none"
        /\ fetches' = [fetches EXCEPT ![f] = [ kind |-> "refresh", query |-> params ]]
  BY DEF Refresh
<1>2. /\ UNCHANGED <<params, typed, url>> /\ list' = Loading(list.shown)
      /\ overtaken' = (overtaken /\ RefreshUnderWay)
  BY DEF Refresh
<1>3. ListTypeOK'
  BY <1>1, <1>2 DEF ListIInv, ListTypeOK, FetchStates, Loading, RefreshUnderWay
<1>4. FetchesAskParams' /\ ShownAnswersParams'
  BY <1>1, <1>2 DEF ListIInv, ListTypeOK, FetchesAskParams, ShownAnswersParams,
                    TableShown, Loading, RefreshUnderWay
<1> QED
  BY <1>3, <1>4 DEF ListIInv

LEMMA AnswerKept ==
  ASSUME ListIInv, NEW f \in Fetches, AnswerFetch(f)
  PROVE  ListIInv'
<1>1. /\ fetches[f].kind # "none"
      /\ UNCHANGED <<params, typed, url, overtaken>>
      /\ fetches' = [fetches EXCEPT ![f] = NoFetch]
      /\ fetches[f] \in FetchStates
  BY DEF AnswerFetch, ListIInv, ListTypeOK
<1>2. \/ UNCHANGED list
      \/ /\ fetches[f].kind # "late"
         /\ \/ list' = [ shown |-> fetches[f].query, isLoading |-> FALSE,
                         isError |-> list.isError ]
            \/ list' = [ shown |-> list.shown, isLoading |-> FALSE, isError |-> TRUE ]
  BY DEF AnswerFetch, IsMounted
<1>3. ListTypeOK'
  <2>1. fetches' \in [Fetches -> FetchStates]
    BY <1>1, BareQuery DEF ListIInv, ListTypeOK, FetchStates, NoFetch
  <2>2. fetches[f].query \in Queries
    BY <1>1 DEF FetchStates
  <2>3. list' \in [ shown : Queries \cup {NoRows}, isLoading : BOOLEAN, isError : BOOLEAN ]
    <3>1. /\ list \in [ shown : Queries \cup {NoRows}, isLoading : BOOLEAN, isError : BOOLEAN ]
          /\ list.shown \in Queries \cup {NoRows} /\ list.isError \in BOOLEAN
      BY DEF ListIInv, ListTypeOK
    <3>2. fetches[f].query \in Queries \cup {NoRows} /\ TRUE \in BOOLEAN /\ FALSE \in BOOLEAN
      BY <2>2
    <3>3. CASE UNCHANGED list
      BY <3>1, <3>3
    <3>4. CASE list' = [ shown |-> fetches[f].query, isLoading |-> FALSE,
                         isError |-> list.isError ]
      BY <3>1, <3>2, <3>4
    <3>5. CASE list' = [ shown |-> list.shown, isLoading |-> FALSE, isError |-> TRUE ]
      BY <3>1, <3>2, <3>5
    <3> QED
      BY <1>2, <3>3, <3>4, <3>5
  <2> QED
    BY <1>1, <2>1, <2>3 DEF ListIInv, ListTypeOK
<1>4. FetchesAskParams'
  BY <1>1 DEF ListIInv, ListTypeOK, FetchesAskParams, NoFetch
<1>5. ShownAnswersParams'
  BY <1>1, <1>2
     DEF ListIInv, FetchesAskParams, ShownAnswersParams, TableShown, FetchStates
<1> QED
  BY <1>3, <1>4, <1>5 DEF ListIInv

LEMMA ListIInvKept ==
  ASSUME ListIInv, [ListNext]_listVars
  PROVE  ListIInv'
<1>1. /\ params \in Queries /\ url \in Queries /\ typed \in Searches
      /\ Bare \in Queries /\ 1 \in 1..MaxPage /\ NoSearch \in Searches
  BY BareQuery, DefaultsAssumption DEF ListIInv, ListTypeOK
<1>2. \A text \in Searches : [params EXCEPT !.search = text, !.page = 1] \in Queries
  BY <1>1 DEF Queries
<1>3. \A text \in Searches : handleSearchChange(text) => ListIInv'
  BY <1>2, ShowKept DEF handleSearchChange, UpdateUrl
<1>4. CASE UNCHANGED listVars
  BY <1>4 DEF listVars, ListIInv, ListTypeOK, FetchesAskParams, ShownAnswersParams,
              TableShown, Queries, FetchStates
<1>5. CASE \E text \in Searches : Type(text)
  BY <1>5 DEF Type, ListIInv, ListTypeOK, FetchesAskParams, ShownAnswersParams,
              TableShown, Queries, FetchStates
<1>6. CASE Debounced \/ ClearSearch
  BY <1>1, <1>3, <1>6 DEF Debounced, ClearSearch
<1>7. CASE handleFilterChange
  <2>1. PICK value \in Filters :
          LET query == [params EXCEPT !.filter = value, !.page = 1]
          IN Show(query) /\ UpdateUrl(query) /\ UNCHANGED typed
    BY <1>7 DEF handleFilterChange
  <2>2. [params EXCEPT !.filter = value, !.page = 1] \in Queries
    BY <1>1 DEF Queries
  <2> QED
    BY <1>1, <2>1, <2>2, ShowKept DEF UpdateUrl
<1>8. CASE handleResetFilters
  <2>1. [Bare EXCEPT !.limit = params.limit] \in Queries
    BY <1>1 DEF Queries
  <2> QED
    BY <1>1, <1>8, <2>1, ShowKept DEF handleResetFilters, UpdateUrl
<1>9. CASE handleSortToggle
  <2>1. PICK sort \in Sorts :
          LET query == [params EXCEPT !.sort = sort]
          IN Show(query) /\ UpdateUrl(query) /\ UNCHANGED typed
    BY <1>9 DEF handleSortToggle
  <2>2. [params EXCEPT !.sort = sort] \in Queries
    BY <1>1 DEF Queries
  <2> QED
    BY <1>1, <2>1, <2>2, ShowKept DEF UpdateUrl
<1>10. CASE handlePageChange
  <2>1. PICK page \in 1..MaxPage :
          LET query == [params EXCEPT !.page = page]
          IN Show(query) /\ UpdateUrl(query) /\ UNCHANGED typed
    BY <1>10 DEF handlePageChange
  <2>2. [params EXCEPT !.page = page] \in Queries
    BY <1>1 DEF Queries
  <2> QED
    BY <1>1, <2>1, <2>2, ShowKept DEF UpdateUrl
<1>11. CASE handleLimitChange
  <2>1. PICK limit \in Limits :
          LET query == [params EXCEPT !.limit = limit, !.page = 1]
          IN Show(query) /\ UpdateUrl(query) /\ UNCHANGED typed
    BY <1>11 DEF handleLimitChange
  <2>2. [params EXCEPT !.limit = limit, !.page = 1] \in Queries
    BY <1>1 DEF Queries
  <2> QED
    BY <1>1, <2>1, <2>2, ShowKept DEF UpdateUrl
<1>12. CASE Refresh
  BY <1>12, RefreshKept
<1>13. CASE Return
  <2>1. url.search \in Searches
    BY <1>1 DEF Queries
  <2> QED
    BY <1>1, <1>13, <2>1, ListBegins DEF Return
<1>14. CASE \E f \in Fetches : AnswerFetch(f)
  BY <1>14, AnswerKept
<1> QED
  BY <1>4, <1>5, <1>6, <1>7, <1>8, <1>9, <1>10, <1>11, <1>12, <1>13, <1>14
     DEF ListNext

LEMMA ListStarts == ListInit => ListIInv
<1> SUFFICES ASSUME ListInit
             PROVE  ListIInv
  OBVIOUS
<1>1. /\ params = Bare /\ typed = NoSearch /\ url = Bare /\ list = Loading(NoRows)
      /\ overtaken = FALSE
      /\ \E f \in Fetches : fetches = Mounted(f, Bare)
  BY DEF ListInit
<1>2. ListTypeOK
  <2>1. PICK f \in Fetches : fetches = Mounted(f, Bare)
    BY <1>1
  <2>2. fetches \in [Fetches -> FetchStates]
    BY <2>1, BareQuery DEF Mounted, FetchStates, NoFetch
  <2>3. list \in [ shown : Queries \cup {NoRows}, isLoading : BOOLEAN, isError : BOOLEAN ]
    BY <1>1 DEF Loading
  <2> QED
    BY <1>1, <2>2, <2>3, BareQuery, DefaultsAssumption DEF ListTypeOK
<1>3. FetchesAskParams /\ ShownAnswersParams
  BY <1>1 DEF FetchesAskParams, ShownAnswersParams, TableShown, Loading, Mounted, NoFetch
<1> QED
  BY <1>2, <1>3 DEF ListIInv

LEMMA ListLeft ==
  ASSUME ListIInv, LeaveList
  PROVE  ListIInv'
<1>1. /\ params' = Bare /\ typed' = NoSearch /\ url' = Bare
      /\ list' = Loading(NoRows) /\ fetches' = [f \in Fetches |-> NoFetch]
      /\ overtaken' = FALSE
  BY DEF LeaveList
<1>2. ListTypeOK'
  BY <1>1, BareQuery, DefaultsAssumption DEF ListTypeOK, Loading, FetchStates, NoFetch
<1>3. FetchesAskParams' /\ ShownAnswersParams'
  BY <1>1 DEF FetchesAskParams, ShownAnswersParams, TableShown, Loading, NoFetch
<1> QED
  BY <1>2, <1>3 DEF ListIInv

-----------------------------------------------------------------------------
\* The dashboard: an answer that will be shown is from after the widget last asked.
Heeded(p) == probes[p].kind \in {"load", "fetch"}

ProbesAreCurrent ==
  /\ asked <= news
  /\ \A p \in Probes : probes[p].kind = "none" => ~probes[p].answered
  /\ ~crossed => \A p \in Probes : Heeded(p) /\ probes[p].answered
                                     => probes[p].told >= asked

DashboardIInv == DashboardTypeOK /\ ProbesAreCurrent /\ WidgetsAreCurrent

LEMMA ProbesTyped ==
  /\ 0 \in 0..MaxNews
  /\ NoProbe \in ProbeStates
  /\ NoProbe.kind = "none" /\ ~NoProbe.answered /\ NoProbe.told = 0
  /\ \A kind \in {"load", "fetch"} :
       /\ Probe(kind) \in ProbeStates
       /\ Probe(kind).kind = kind /\ ~Probe(kind).answered
<1>1. 0 \in 0..MaxNews
  BY MaxNewsAssumption
<1>2. NoProbe \in ProbeStates
  BY <1>1 DEF NoProbe, ProbeStates
<1>3. NoProbe.kind = "none" /\ ~NoProbe.answered /\ NoProbe.told = 0
  BY DEF NoProbe
<1>4. ASSUME NEW kind \in {"load", "fetch"}
      PROVE  /\ Probe(kind) \in ProbeStates
             /\ Probe(kind).kind = kind /\ ~Probe(kind).answered
  <2>1. Probe(kind) = [NoProbe EXCEPT !.kind = kind]
    BY DEF Probe
  <2> QED
    BY <1>2, <1>3, <2>1 DEF ProbeStates
<1> QED
  BY <1>1, <1>2, <1>3, <1>4

LEMMA ProbeBegun ==
  ASSUME DashboardIInv, NEW before \in [Probes -> ProbeStates], NEW kind \in {"load", "fetch"},
         BeginProbe(before, kind),
         \A p \in Probes : /\ before[p].answered = probes[p].answered
                           /\ before[p].kind = "none" => probes[p].kind = "none"
  PROVE  DashboardIInv'
<1>1. PICK p \in Probes :
        /\ probes[p].kind = "none"
        /\ probes' = [before EXCEPT ![p] = Probe(kind)]
  BY DEF BeginProbe
<1>2. /\ UNCHANGED <<widget, news>> /\ asked' = news
      /\ panel' = [panel EXCEPT !.isLoading = TRUE, !.isError = FALSE]
      /\ crossed' = \E q \in Probes : before[q].kind \in {"load", "fetch"}
  BY DEF BeginProbe
<1>3. Probe(kind).kind = kind /\ ~Probe(kind).answered
  BY ProbesTyped
<1>4. news \in 0..MaxNews /\ crossed' \in BOOLEAN
  BY <1>2 DEF DashboardIInv, DashboardTypeOK
<1>5. Probe(kind) \in ProbeStates
  BY ProbesTyped
<1>6. DashboardTypeOK'
  BY <1>1, <1>2, <1>4, <1>5 DEF DashboardIInv, DashboardTypeOK
<1>7. ProbesAreCurrent'
  <2>1. \A q \in Probes : probes'[q] = IF q = p THEN Probe(kind) ELSE before[q]
    BY <1>1
  <2> QED
    BY <1>2, <1>3, <1>4, <2>1 DEF DashboardIInv, ProbesAreCurrent, Heeded
<1>8. WidgetsAreCurrent'
  BY <1>2 DEF DashboardIInv, DashboardTypeOK, WidgetsAreCurrent
<1> QED
  BY <1>6, <1>7, <1>8 DEF DashboardIInv

LEMMA DashboardIInvKept ==
  ASSUME DashboardIInv, [DashboardNext]_dashboardVars
  PROVE  DashboardIInv'
<1>1. CASE UNCHANGED dashboardVars
  BY <1>1 DEF dashboardVars, DashboardIInv, DashboardTypeOK, ProbesAreCurrent,
              WidgetsAreCurrent, Heeded
<1>2. CASE handleManualRefresh
  <2>1. /\ CleanedUp \in [Probes -> ProbeStates]
        /\ \A p \in Probes : /\ CleanedUp[p].answered = probes[p].answered
                             /\ CleanedUp[p].kind = "none" => probes[p].kind = "none"
    BY DEF DashboardIInv, DashboardTypeOK, CleanedUp, ProbeStates
  <2> QED
    BY <1>2, <2>1, ProbeBegun DEF handleManualRefresh
<1>3. CASE Poll \/ fetchMetrics
  <2>1. probes \in [Probes -> ProbeStates]
    BY DEF DashboardIInv, DashboardTypeOK
  <2> QED
    BY <1>3, <2>1, ProbeBegun DEF Poll, fetchMetrics
<1>4. CASE News
  <2>1. /\ news' \in 0..MaxNews /\ news' >= news
        /\ UNCHANGED <<widget, panel, probes, asked, crossed>>
    BY <1>4, MaxNewsAssumption DEF News, DashboardIInv, DashboardTypeOK
  <2> QED
    BY <2>1 DEF DashboardIInv, DashboardTypeOK, ProbesAreCurrent, WidgetsAreCurrent,
                Heeded
<1>5. ASSUME NEW p \in Probes, AnswerProbe(p)
      PROVE  DashboardIInv'
  <2>1. /\ probes[p].kind # "none" /\ ~probes[p].answered
        /\ UNCHANGED <<widget, news, panel, asked, crossed>>
        /\ probes' = [probes EXCEPT ![p].answered = TRUE, ![p].told = news]
        /\ probes[p] \in ProbeStates
    BY <1>5 DEF AnswerProbe, DashboardIInv, DashboardTypeOK
  <2>2. /\ probes'[p].kind = probes[p].kind /\ probes'[p].told = news
        /\ probes'[p] \in ProbeStates
    BY <2>1 DEF DashboardIInv, DashboardTypeOK, ProbeStates
  <2>3. \A q \in Probes \ {p} : probes'[q] = probes[q]
    BY <2>1 DEF DashboardIInv, DashboardTypeOK
  <2>4. DashboardTypeOK'
    BY <2>1, <2>2, <2>3 DEF DashboardIInv, DashboardTypeOK
  <2>5. ProbesAreCurrent'
    BY <2>1, <2>2, <2>3 DEF DashboardIInv, DashboardTypeOK, ProbesAreCurrent, Heeded
  <2>6. WidgetsAreCurrent'
    BY <2>1 DEF DashboardIInv, WidgetsAreCurrent
  <2> QED
    BY <2>4, <2>5, <2>6 DEF DashboardIInv
<1>6. ASSUME NEW p \in Probes, ShowData(p) \/ ShowFailure(p)
      PROVE  DashboardIInv'
  <2>1. /\ UNCHANGED <<widget, news, asked, crossed>>
        /\ probes' = [probes EXCEPT ![p] = NoProbe]
        /\ probes[p] \in ProbeStates
        /\ panel \in [ told : 0..MaxNews, isLoading : BOOLEAN, isError : BOOLEAN ]
    BY <1>6 DEF ShowData, ShowFailure, DashboardIInv, DashboardTypeOK
  <2>2. \/ UNCHANGED panel
        \/ /\ Heeded(p) /\ probes[p].answered
           /\ panel' = [ told |-> probes[p].told, isLoading |-> FALSE,
                         isError |-> panel.isError ]
        \/ panel' = [ told |-> panel.told, isLoading |-> FALSE, isError |-> TRUE ]
    <3>1. CASE ShowData(p)
      BY <2>1, <3>1
         DEF ShowData, isMounted, Heeded, DashboardIInv, ProbesAreCurrent, ProbeStates
    <3>2. CASE ShowFailure(p)
      BY <2>1, <3>2 DEF ShowFailure
    <3> QED
      BY <1>6, <3>1, <3>2
  <2>3. NoProbe \in ProbeStates /\ NoProbe.kind = "none" /\ ~NoProbe.answered
    BY ProbesTyped
  <2>4. DashboardTypeOK'
    <3>1. probes' \in [Probes -> ProbeStates]
      BY <2>1, <2>3 DEF DashboardIInv, DashboardTypeOK
    <3>2. panel.told \in 0..MaxNews /\ panel.isError \in BOOLEAN /\ probes[p].told \in 0..MaxNews
      BY <2>1 DEF ProbeStates
    <3>3. panel' \in [ told : 0..MaxNews, isLoading : BOOLEAN, isError : BOOLEAN ]
      <4>1. CASE UNCHANGED panel
        BY <2>1, <4>1
      <4>2. CASE panel' = [ told |-> probes[p].told, isLoading |-> FALSE,
                            isError |-> panel.isError ]
        BY <3>2, <4>2
      <4>3. CASE panel' = [ told |-> panel.told, isLoading |-> FALSE, isError |-> TRUE ]
        BY <3>2, <4>3
      <4> QED
        BY <2>2, <4>1, <4>2, <4>3
    <3> QED
      BY <2>1, <3>1, <3>3 DEF DashboardIInv, DashboardTypeOK
  <2>5. ProbesAreCurrent'
    BY <2>1, <2>3 DEF DashboardIInv, DashboardTypeOK, ProbesAreCurrent, Heeded
  <2>6. WidgetsAreCurrent'
    BY <2>1, <2>2 DEF DashboardIInv, ProbesAreCurrent, WidgetsAreCurrent
  <2> QED
    BY <2>4, <2>5, <2>6 DEF DashboardIInv
<1> QED
  BY <1>1, <1>2, <1>3, <1>4, <1>5, <1>6 DEF DashboardNext

LEMMA DashboardStarts ==
  ASSUME DashboardInit
  PROVE  DashboardIInv
<1>1. PICK p \in Probes : probes = [q \in Probes |-> IF q = p THEN Probe("load") ELSE NoProbe]
  BY DEF DashboardInit
<1>2. DashboardTypeOK
  <2>1. probes \in [Probes -> ProbeStates]
    BY <1>1, ProbesTyped
  <2>2. panel \in [ told : 0..MaxNews, isLoading : BOOLEAN, isError : BOOLEAN ]
    BY ProbesTyped DEF DashboardInit
  <2> QED
    BY <2>1, <2>2, ProbesTyped DEF DashboardInit, DashboardTypeOK
<1>3. ProbesAreCurrent /\ WidgetsAreCurrent
  BY <1>1, ProbesTyped DEF DashboardInit, ProbesAreCurrent, WidgetsAreCurrent, Heeded
<1> QED
  BY <1>2, <1>3 DEF DashboardIInv

-----------------------------------------------------------------------------
\* The page of a request: what it knows of its own changes, and what it shows of
\* them.
ChangesAreSeen ==
  /\ own <= version
  /\ \A p \in Posts : posts[p].wrote <= version
  /\ ~overlapping => \A r \in Reads : reads[r].at = "answered" => reads[r].row.version >= own
  /\ ~ReadUnderWay /\ ~isError /\ ~overlapping => shown.version >= own

\* A post fits what the page showed when it was sent.
Fits(post) ==
  /\ post.action = "status" => \/ post.target \in UiTransitions[post.seen.status]
                                \/ UiTransitions[post.seen.status] = {}
  /\ post.action = "assign" => post.seen.vendor = NoVendor

PostsFit == \A p \in Posts : posts[p].at = "posted" => Fits(posts[p])

DetailsIInv == DetailsTypeOK /\ ChangesAreSeen /\ PostsFit

\* The page offers no change of status the state machine does not have.
LEMMA OffersAreLegal ==
  \A s \in RequestStatuses : UiTransitions[s] \subseteq RequestTransitions[s]
BY DEF UiTransitions, RequestStatuses, RequestTransitions

LEMMA SnapshotsTyped ==
  /\ NotLoaded \in Snapshots /\ NotLoaded.version = 0
  /\ NoRead \in ReadStates /\ NoRead.at = "none"
  /\ NotPosted \in PostStates /\ NotPosted.at = "idle" /\ NotPosted.wrote = 0
<1>1. NotLoaded \in Snapshots /\ NotLoaded.version = 0
  BY RequestTableTyped, MaxVersionAssumption DEF NotLoaded, Snapshots, Assignable
<1>2. NoRead \in ReadStates /\ NoRead.at = "none"
  BY <1>1 DEF NoRead, ReadStates
<1>3. NotPosted \in PostStates /\ NotPosted.at = "idle" /\ NotPosted.wrote = 0
  <2>1. "CREATED" \in RequestStatuses /\ Keep \in Vendors \cup {Keep} /\ 0 \in 0..MaxVersion
    BY RequestTableTyped, MaxVersionAssumption
  <2> QED
    BY <1>1, <2>1 DEF NotPosted, PostStates, Forms
<1> QED
  BY <1>1, <1>2, <1>3

LEMMA RowNowTyped == RowTypeOK => RowNow \in Snapshots /\ RowNow.version = version
BY MaxVersionAssumption DEF RowTypeOK, RowNow, Snapshots

\* A read begins: unless another one is under way, none is answered.
LEMMA ReadBegun ==
  ASSUME DetailsIInv, NEW post \in Posts \cup {NoPost}, BeginRead(post)
  PROVE  /\ reads' \in [Reads -> ReadStates]
         /\ isError' = FALSE /\ overlapping' \in BOOLEAN
         /\ ReadUnderWay'
         /\ ~overlapping' => \A r \in Reads : reads'[r].at # "answered"
<1>1. PICK r \in Reads :
        /\ reads[r].at = "none"
        /\ reads' = [reads EXCEPT ![r] = [NoRead EXCEPT !.at = "sent", !.post = post]]
  BY DEF BeginRead
<1>2. isError' = FALSE /\ overlapping' = ReadUnderWay /\ reads \in [Reads -> ReadStates]
  BY DEF BeginRead, DetailsIInv, DetailsTypeOK
<1>3. PICK read : read = [NoRead EXCEPT !.at = "sent", !.post = post]
  OBVIOUS
<1>4. read \in ReadStates /\ read.at = "sent"
  BY <1>3, SnapshotsTyped DEF ReadStates
<1>5. reads' = [reads EXCEPT ![r] = read]
  BY <1>1, <1>3
<1> QED
  BY <1>2, <1>4, <1>5 DEF ReadUnderWay

\* A read is over.
LEMMA ReadOver ==
  ASSUME DetailsIInv, NEW r \in Reads, reads' = [reads EXCEPT ![r] = NoRead]
  PROVE  /\ reads' \in [Reads -> ReadStates]
         /\ \A s \in Reads : reads'[s].at = "answered"
                               => reads[s].at = "answered" /\ reads'[s] = reads[s]
BY SnapshotsTyped DEF DetailsIInv, DetailsTypeOK

\* The page shows an error or not, and a post it was waiting for is over.
LEMMA PostOver ==
  ASSUME DetailsIInv, NEW r \in Reads
  PROVE  /\ Over(r) \in [Posts -> PostStates]
         /\ \A p \in Posts :
              /\ Over(r)[p].wrote <= version
              /\ Over(r)[p].at = "posted" => Fits(Over(r)[p])
<1>1. \A p \in Posts : Over(r)[p] \in {NotPosted, posts[p]}
  BY DEF Over
<1>2. Over(r) \in [Posts -> PostStates]
  BY SnapshotsTyped DEF Over, DetailsIInv, DetailsTypeOK
<1>3. 0 <= version
  BY MaxVersionAssumption DEF DetailsIInv, DetailsTypeOK, RowTypeOK
<1> QED
  BY <1>1, <1>2, <1>3, SnapshotsTyped DEF DetailsIInv, ChangesAreSeen, PostsFit

LEMMA UnmountedKept ==
  ASSUME NEW post \in PostStates
  PROVE  /\ Unmounted(post) \in PostStates
         /\ Unmounted(post).wrote = post.wrote /\ Unmounted(post).at = post.at
         /\ Fits(post) => Fits(Unmounted(post))
BY DEF Unmounted, PostStates, Fits

\* A post gets an answer.
LEMMA PostAnswered ==
  ASSUME NEW p \in Posts, posts[p] \in PostStates,
         NEW at \in {"done", "refused", "refetching"}, NEW wrote \in 0..MaxVersion
  PROVE  /\ Answered(p, at, wrote) \in PostStates
         /\ Answered(p, at, wrote).at = at /\ Answered(p, at, wrote).wrote = wrote
<1>1. posts[p].form \in Forms \cup {"none"}
  BY DEF PostStates
<1>2. PICK form : form = posts[p].form
  OBVIOUS
<1>3. Answered(p, at, wrote) = [NotPosted EXCEPT !.at = at, !.form = form, !.wrote = wrote]
  BY <1>2 DEF Answered
<1> QED
  BY <1>1, <1>2, <1>3, SnapshotsTyped DEF PostStates

\* A step that changes no more than the posts.
LEMMA PostsMove ==
  ASSUME DetailsIInv, UNCHANGED <<shown, isError, chosen, reads, own, overlapping>>,
         RowTypeOK', version' >= version,
         posts' \in [Posts -> PostStates],
         \A p \in Posts : /\ posts'[p].wrote <= version'
                          /\ posts'[p].at = "posted" => Fits(posts'[p])
  PROVE  DetailsIInv'
<1>1. DetailsTypeOK'
  BY DEF DetailsIInv, DetailsTypeOK
<1>2. own <= version'
  BY MaxVersionAssumption DEF DetailsIInv, DetailsTypeOK, ChangesAreSeen, RowTypeOK
<1>3. ChangesAreSeen'
  BY <1>2 DEF DetailsIInv, ChangesAreSeen, ReadUnderWay
<1>4. PostsFit'
  BY DEF PostsFit, Fits
<1> QED
  BY <1>1, <1>3, <1>4 DEF DetailsIInv

\* One post moves.
LEMMA PostMoves ==
  ASSUME DetailsIInv, UNCHANGED <<shown, isError, chosen, reads, own, overlapping>>,
         RowTypeOK', version' >= version,
         NEW p \in Posts, NEW post \in PostStates, posts' = [posts EXCEPT ![p] = post],
         post.wrote <= version', post.at = "posted" => Fits(post)
  PROVE  DetailsIInv'
<1>1. posts' \in [Posts -> PostStates]
  BY DEF DetailsIInv, DetailsTypeOK
<1>2. \A q \in Posts : posts[q].wrote <= version'
  BY MaxVersionAssumption
     DEF DetailsIInv, DetailsTypeOK, ChangesAreSeen, RowTypeOK, PostStates
<1>3. \A q \in Posts : /\ posts'[q].wrote <= version'
                       /\ posts'[q].at = "posted" => Fits(posts'[q])
  BY <1>2 DEF DetailsIInv, DetailsTypeOK, PostsFit
<1> QED
  BY <1>1, <1>3, PostsMove

\* A form is sent.
LEMMA PostSent ==
  ASSUME DetailsIInv, NEW form \in Forms,
         NEW action \in {"assign", "reassign", "status", "note"},
         NEW target \in RequestStatuses, NEW assigned \in Vendors \cup {Keep},
         Post(form, action, target, assigned),
         action \in {"assign", "status"} => form # "note",
         action = "status" => \/ target \in UiTransitions[shown.status]
                              \/ UiTransitions[shown.status] = {},
         action = "assign" => shown.vendor = NoVendor
  PROVE  DetailsIInv'
<1>1. PICK seen : seen = IF form = "note" THEN NotLoaded ELSE shown
  OBVIOUS
<1>2. PICK post : post = [ at |-> "posted", form |-> form, action |-> action,
                           target |-> target, assigned |-> assigned, seen |-> seen,
                           wrote |-> 0 ]
  OBVIOUS
<1>3. PICK p \in Posts : posts' = [posts EXCEPT ![p] = post]
  BY <1>1, <1>2 DEF Post
<1>4. seen \in Snapshots /\ 0 \in 0..MaxVersion
  BY <1>1, SnapshotsTyped, MaxVersionAssumption DEF DetailsIInv, DetailsTypeOK
<1>5. post \in PostStates
  BY <1>2, <1>4 DEF PostStates
<1>6. Fits(post)
  BY <1>1, <1>2 DEF Fits
<1>7. /\ UNCHANGED <<shown, isError, chosen, reads, own, overlapping>>
      /\ RowTypeOK' /\ version' = version /\ 0 <= version
  BY MaxVersionAssumption DEF Post, row, DetailsIInv, DetailsTypeOK, RowTypeOK
<1>8. version' >= version /\ post.wrote <= version'
  BY <1>2, <1>7 DEF DetailsIInv, DetailsTypeOK, RowTypeOK
<1> QED
  BY <1>3, <1>5, <1>6, <1>7, <1>8, PostMoves

LEMMA ReadShown ==
  ASSUME DetailsIInv, NEW r \in Reads, ShowAnswer(r)
  PROVE  DetailsIInv'
<1>1. /\ reads[r].at = "answered"
      /\ shown' = reads[r].row
      /\ posts' = Over(r)
      /\ reads' = [reads EXCEPT ![r] = NoRead]
      /\ UNCHANGED <<status, vendor, version, held, isError, chosen, own, overlapping>>
  BY DEF ShowAnswer, row
<1>2. shown' \in Snapshots
  BY <1>1 DEF DetailsIInv, DetailsTypeOK, ReadStates
<1>3. ~overlapping => shown'.version >= own
  BY <1>1 DEF DetailsIInv, ChangesAreSeen
<1>4. DetailsTypeOK'
  BY <1>1, <1>2, ReadOver, PostOver DEF DetailsIInv, DetailsTypeOK, RowTypeOK
<1>5. ChangesAreSeen'
  BY <1>1, <1>3, ReadOver, PostOver DEF DetailsIInv, ChangesAreSeen
<1>6. PostsFit'
  BY <1>1, PostOver DEF PostsFit, Fits
<1> QED
  BY <1>4, <1>5, <1>6 DEF DetailsIInv

LEMMA ReadFailed ==
  ASSUME DetailsIInv, NEW r \in Reads, ShowError(r)
  PROVE  DetailsIInv'
<1>1. /\ isError' = TRUE /\ chosen' = NoTarget
      /\ posts' = [p \in Posts |-> Unmounted(Over(r)[p])]
      /\ reads' = [reads EXCEPT ![r] = NoRead]
      /\ UNCHANGED <<status, vendor, version, held, shown, own, overlapping>>
  BY DEF ShowError, row
<1>2. ASSUME NEW p \in Posts
      PROVE  /\ posts'[p] \in PostStates
             /\ posts'[p].wrote <= version
             /\ posts'[p].at = "posted" => Fits(posts'[p])
  <2>1. PICK post : post = Over(r)[p]
    OBVIOUS
  <2>2. /\ post \in PostStates /\ post.wrote <= version
        /\ post.at = "posted" => Fits(post)
    BY <2>1, PostOver
  <2>3. posts'[p] = Unmounted(post)
    BY <1>1, <2>1
  <2> QED
    BY <2>2, <2>3, UnmountedKept
<1>3. posts' \in [Posts -> PostStates]
  BY <1>1, <1>2
<1>4. DetailsTypeOK'
  BY <1>1, <1>3, ReadOver DEF DetailsIInv, DetailsTypeOK, RowTypeOK
<1>5. ChangesAreSeen'
  BY <1>1, <1>2, ReadOver DEF DetailsIInv, ChangesAreSeen
<1>6. PostsFit'
  BY <1>2 DEF PostsFit, Fits
<1> QED
  BY <1>4, <1>5, <1>6 DEF DetailsIInv

LEMMA ReadServed ==
  ASSUME DetailsIInv, NEW r \in Reads, ServeRead(r)
  PROVE  DetailsIInv'
<1>1. PICK now : now = RowNow
  OBVIOUS
<1>2. now \in Snapshots /\ now.version = version
  BY <1>1, RowNowTyped DEF DetailsIInv, DetailsTypeOK
<1>3. /\ reads[r].at = "sent"
      /\ reads' = [reads EXCEPT ![r].at = "answered", ![r].row = now]
      /\ UNCHANGED <<status, vendor, version, held, shown, isError, chosen, posts, own,
                     overlapping>>
  BY <1>1 DEF ServeRead, row
<1>4. PICK read : read = [reads[r] EXCEPT !.at = "answered", !.row = now]
  OBVIOUS
<1>5. read \in ReadStates /\ read.row = now /\ read.at = "answered"
  BY <1>2, <1>4 DEF DetailsIInv, DetailsTypeOK, ReadStates
<1>6. reads' = [reads EXCEPT ![r] = read]
  BY <1>3, <1>4 DEF DetailsIInv, DetailsTypeOK
<1>7. DetailsTypeOK'
  BY <1>3, <1>5, <1>6 DEF DetailsIInv, DetailsTypeOK, RowTypeOK
<1>8. ReadUnderWay /\ ReadUnderWay'
  BY <1>3, <1>5, <1>6 DEF ReadUnderWay, DetailsIInv, DetailsTypeOK
<1>9. \A s \in Reads : reads'[s].at = "answered" /\ ~overlapping => reads'[s].row.version >= own
  BY <1>2, <1>5, <1>6 DEF DetailsIInv, DetailsTypeOK, ChangesAreSeen
<1>10. ChangesAreSeen'
  BY <1>3, <1>8, <1>9 DEF DetailsIInv, ChangesAreSeen
<1>11. PostsFit'
  BY <1>3 DEF DetailsIInv, PostsFit, Fits
<1> QED
  BY <1>7, <1>10, <1>11 DEF DetailsIInv

\* The page is opened, or read again after an error.
LEMMA ReadStarted ==
  ASSUME DetailsIInv, BeginRead(NoPost), UNCHANGED <<row, shown, chosen, posts, own>>
  PROVE  DetailsIInv'
<1>1. UNCHANGED <<status, vendor, version, held, shown, chosen, posts, own>>
  BY DEF row
<1>2. DetailsTypeOK'
  BY <1>1, ReadBegun DEF DetailsIInv, DetailsTypeOK, RowTypeOK
<1>3. ChangesAreSeen'
  BY <1>1, ReadBegun DEF DetailsIInv, ChangesAreSeen
<1>4. PostsFit'
  BY <1>1 DEF DetailsIInv, PostsFit, Fits
<1> QED
  BY <1>2, <1>3, <1>4 DEF DetailsIInv

LEMMA PostAcknowledged ==
  ASSUME DetailsIInv, NEW p \in Posts, Acknowledge(p)
  PROVE  DetailsIInv'
<1>1. /\ BeginRead(p)
      /\ posts' = [posts EXCEPT ![p] = Answered(p, "refetching", 0)]
      /\ own' \in {own, posts[p].wrote}
      /\ UNCHANGED <<status, vendor, version, held, shown, chosen>>
  BY DEF Acknowledge, Refetch, row
<1>2. PICK post : post = Answered(p, "refetching", 0)
  OBVIOUS
<1>3. 0 \in 0..MaxVersion /\ 0 <= version /\ posts[p] \in PostStates
  BY MaxVersionAssumption DEF DetailsIInv, DetailsTypeOK, RowTypeOK
<1>4. post \in PostStates /\ post.at = "refetching" /\ post.wrote = 0
  BY <1>2, <1>3, PostAnswered
<1>5. posts' = [posts EXCEPT ![p] = post]
  BY <1>1, <1>2
<1>6. own' \in 0..MaxVersion /\ own' <= version
  BY <1>1, <1>3 DEF PostStates, DetailsIInv, DetailsTypeOK, ChangesAreSeen
<1>7. DetailsTypeOK'
  BY <1>1, <1>4, <1>5, <1>6, ReadBegun DEF DetailsIInv, DetailsTypeOK, RowTypeOK
<1>8. ChangesAreSeen'
  <2>1. \A q \in Posts : posts'[q].wrote <= version
    BY <1>3, <1>4, <1>5 DEF DetailsIInv, DetailsTypeOK, ChangesAreSeen
  <2> QED
    BY <1>1, <1>6, <2>1, ReadBegun DEF ChangesAreSeen
<1>9. PostsFit'
  BY <1>4, <1>5 DEF DetailsIInv, DetailsTypeOK, PostsFit, Fits
<1> QED
  BY <1>7, <1>8, <1>9 DEF DetailsIInv

LEMMA TargetChosen ==
  ASSUME DetailsIInv, chooseTarget
  PROVE  DetailsIInv'
<1>1. /\ UNCHANGED <<status, vendor, version, held, shown, isError, reads, posts, own,
                     overlapping>>
      /\ chosen' \in UiTransitions[shown.status] \cup {NoTarget}
  BY DEF chooseTarget, SelectableStatuses, row
<1>2. UiTransitions[shown.status] \subseteq RequestStatuses
  BY OffersAreLegal, RequestTableTyped DEF DetailsIInv, DetailsTypeOK, Snapshots
<1>3. DetailsTypeOK'
  BY <1>1, <1>2 DEF DetailsIInv, DetailsTypeOK, RowTypeOK
<1>4. ChangesAreSeen' /\ PostsFit'
  BY <1>1 DEF DetailsIInv, ChangesAreSeen, ReadUnderWay, PostsFit, Fits
<1> QED
  BY <1>3, <1>4 DEF DetailsIInv

LEMMA DetailsIInvKept ==
  ASSUME DetailsIInv, [DetailsNext]_<<row, detailsVars>>
  PROVE  DetailsIInv'
<1>1. /\ 0 \in 0..MaxVersion /\ version \in 0..MaxVersion /\ 0 <= version
      /\ version >= version /\ version + 1 >= version
      /\ posts \in [Posts -> PostStates] /\ RowTypeOK
  BY MaxVersionAssumption DEF DetailsIInv, DetailsTypeOK, RowTypeOK
<1>2. CASE UNCHANGED <<row, detailsVars>>
  BY <1>2 DEF row, detailsVars, DetailsIInv, DetailsTypeOK, RowTypeOK, ChangesAreSeen,
              ReadUnderWay, PostsFit, Fits
<1>3. CASE Retry
  BY <1>3, ReadStarted DEF Retry
<1>4. CASE Outside
  <2>1. RowTypeOK' /\ version' >= version
    BY <1>1, <1>4, RowStepTyped, RowMovesForward DEF Outside
  <2>2. UNCHANGED <<shown, isError, chosen, reads, posts, own, overlapping>>
    BY <1>4 DEF Outside, detailsVars
  <2>3. \A p \in Posts : /\ posts'[p].wrote <= version'
                         /\ posts'[p].at = "posted" => Fits(posts'[p])
    BY <1>1, <2>1, <2>2 DEF DetailsIInv, ChangesAreSeen, PostsFit, PostStates, RowTypeOK
  <2> QED
    BY <1>1, <2>1, <2>2, <2>3, PostsMove
<1>5. ASSUME NEW r \in Reads, ServeRead(r) \/ ShowAnswer(r) \/ ShowError(r)
      PROVE  DetailsIInv'
  BY <1>5, ReadServed, ReadShown, ReadFailed
<1>6. CASE handleAssignVendor
  <2>1. PICK v \in Vendors :
          Post("assign", IF shown.vendor = NoVendor THEN "assign" ELSE "reassign",
               "ASSIGNED", v)
    BY <1>6 DEF handleAssignVendor
  <2>2. "ASSIGNED" \in RequestStatuses /\ "assign" \in Forms
    BY RequestTableTyped DEF Forms
  <2>3. CASE shown.vendor = NoVendor
    BY <2>1, <2>2, <2>3, PostSent
  <2>4. CASE shown.vendor # NoVendor
    BY <2>1, <2>2, <2>4, PostSent
  <2> QED
    BY <2>3, <2>4
<1>7. CASE handleChangeStatus
  <2>1. /\ Post("status", "status", chosen, Keep)
        /\ chosen \in UiTransitions[shown.status] \/ UiTransitions[shown.status] = {}
    BY <1>7 DEF handleChangeStatus, SelectableStatuses
  <2>2. chosen \in RequestStatuses /\ "status" \in Forms
    BY <1>7 DEF handleChangeStatus, DetailsIInv, DetailsTypeOK, Forms
  <2> QED
    BY <2>1, <2>2, PostSent
<1>8. CASE handleAddNote
  <2>1. "CREATED" \in RequestStatuses /\ "note" \in Forms
    BY RequestTableTyped DEF Forms
  <2> QED
    BY <1>8, <2>1, PostSent DEF handleAddNote
<1>9. ASSUME NEW p \in Posts, Serve(p)
      PROVE  DetailsIInv'
  <2>1. PICK wrote : wrote = IF Writes(p) THEN version' ELSE 0
    OBVIOUS
  <2>2. PICK post : post = Answered(p, "done", wrote)
    OBVIOUS
  <2>3. /\ posts' = [posts EXCEPT ![p] = post]
        /\ UNCHANGED <<shown, isError, chosen, reads, own, overlapping>>
    BY <1>9, <2>1, <2>2 DEF Serve
  <2>4. RowTypeOK' /\ version' >= version
    <3>1. CASE Writes(p)
      <4>1. PICK from \in held :
              VersionedWrite(from, posts[p].target, version, posts[p].assigned)
        BY <1>9, <3>1 DEF Serve
      <4>2. posts[p].target \in RequestStatuses /\ posts[p].assigned \in Assignable \cup {Keep}
        BY <1>1 DEF PostStates, Assignable
      <4> QED
        BY <1>1, <4>1, <4>2, VersionedWriteTyped
    <3>2. CASE ~Writes(p)
      BY <1>1, <1>9, <3>2 DEF Serve, row, RowTypeOK
    <3> QED
      BY <3>1, <3>2
  <2>5. wrote \in 0..MaxVersion /\ wrote <= version'
    BY <2>1, <2>4, MaxVersionAssumption DEF RowTypeOK
  <2>6. post \in PostStates /\ post.at = "done" /\ post.wrote = wrote
    BY <1>1, <2>2, <2>5, PostAnswered
  <2> QED
    BY <2>3, <2>4, <2>5, <2>6, PostMoves
<1>10. ASSUME NEW p \in Posts, Refuse(p)
       PROVE  DetailsIInv'
  <2>1. PICK post : post = Answered(p, "refused", 0)
    OBVIOUS
  <2>2. /\ posts' = [posts EXCEPT ![p] = post]
        /\ UNCHANGED <<shown, isError, chosen, reads, own, overlapping>>
        /\ RowTypeOK' /\ version' >= version /\ 0 <= version'
    BY <1>1, <1>10, <2>1 DEF Refuse, row, RowTypeOK
  <2>3. post \in PostStates /\ post.at = "refused" /\ post.wrote = 0
    BY <1>1, <2>1, PostAnswered
  <2> QED
    BY <2>2, <2>3, PostMoves
<1>11. ASSUME NEW p \in Posts, Acknowledge(p)
       PROVE  DetailsIInv'
  BY <1>11, PostAcknowledged
<1>12. ASSUME NEW p \in Posts, Fail(p)
       PROVE  DetailsIInv'
  <2>1. /\ posts' = [posts EXCEPT ![p] = NotPosted]
        /\ UNCHANGED <<shown, isError, chosen, reads, own, overlapping>>
        /\ RowTypeOK' /\ version' >= version /\ 0 <= version'
    BY <1>1, <1>12 DEF Fail, row, RowTypeOK
  <2> QED
    BY <2>1, SnapshotsTyped, PostMoves
<1> QED
  BY <1>2, <1>3, <1>4, <1>5, <1>6, <1>7, <1>8, <1>9, <1>10, <1>11, <1>12, TargetChosen
     DEF DetailsNext

LEMMA DetailsStart == DetailsInit => DetailsIInv
<1> SUFFICES ASSUME DetailsInit
             PROVE  DetailsIInv
  OBVIOUS
<1>1. RowTypeOK
  BY RequestTableTyped, MaxVersionAssumption
     DEF DetailsInit, RowInit, RowTypeOK, Assignable
<1>2. /\ shown = NotLoaded /\ isError = FALSE /\ chosen = NoTarget /\ own = 0 /\ overlapping = FALSE
      /\ reads = [r \in Reads |-> NoRead] /\ posts = [p \in Posts |-> NotPosted]
      /\ version = 1 /\ 0 \in 0..MaxVersion
  BY MaxVersionAssumption DEF DetailsInit, RowInit
<1>3. DetailsTypeOK
  BY <1>1, <1>2, SnapshotsTyped DEF DetailsTypeOK
<1>4. ChangesAreSeen /\ PostsFit
  BY <1>2, SnapshotsTyped DEF ChangesAreSeen, PostsFit, ReadUnderWay
<1> QED
  BY <1>3, <1>4 DEF DetailsIInv

\* A post that misfires is one of a page that showed something else, or of a form
\* that offered nothing.
LEMMA PostsMisfire ==
  ASSUME DetailsIInv, [DetailsNext]_<<row, detailsVars>>,
         NEW p \in Posts, posts[p].at = "posted",
         \/ posts[p].action = "status" /\ posts'[p].at = "refused"
              /\ UiTransitions[posts[p].seen.status] # {}
         \/ posts[p].action = "assign" /\ posts'[p].at = "done" /\ vendor \in Vendors
  PROVE  posts[p].seen # RowNow
<1>1. /\ posts \in [Posts -> PostStates] /\ RowTypeOK /\ Fits(posts[p])
      /\ posts[p] \in PostStates
  BY DEF DetailsIInv, DetailsTypeOK, PostsFit
<1>2. CASE posts[p].action = "assign" /\ vendor \in Vendors
  BY <1>1, <1>2, VendorsAssumption DEF Fits, RowNow
<1>3. CASE posts[p].action = "status" /\ posts'[p].at = "refused"
             /\ UiTransitions[posts[p].seen.status] # {}
  <2>1. ASSUME ~Refuse(p)
        PROVE  FALSE
    <3>1. CASE posts' = posts
      BY <1>3, <3>1
    <3>2. CASE \E q \in Posts : posts' = [posts EXCEPT ![q] = NotPosted]
      BY <1>1, <1>3, <3>2, SnapshotsTyped
    <3>3. ASSUME NEW q \in Posts, NEW post,
                 posts' = [posts EXCEPT ![q] = post], post.at # "refused"
          PROVE  FALSE
      BY <1>1, <1>3, <3>3
    <3>4. ASSUME NEW q \in Posts, posts[q].at = "idle" \/ q # p, NEW post,
                 posts' = [posts EXCEPT ![q] = post]
          PROVE  FALSE
      BY <1>1, <1>3, <3>4
    <3>5. ASSUME NEW r \in Reads, ShowAnswer(r) \/ ShowError(r)
          PROVE  FALSE
      <4>1. posts'[p].at \in {NotPosted.at, posts[p].at}
        BY <3>5, <1>1, SnapshotsTyped DEF ShowAnswer, ShowError, Over, Unmounted, PostStates
      <4> QED
        BY <1>3, <4>1, SnapshotsTyped
    <3>6. ASSUME NEW form, NEW action, NEW target, NEW assigned,
                 Post(form, action, target, assigned)
          PROVE  FALSE
      BY <3>4, <3>6 DEF Post
    <3>7. ASSUME NEW q \in Posts, Serve(q)
          PROVE  FALSE
      <4>1. PICK wrote : posts' = [posts EXCEPT ![q] = Answered(q, "done", wrote)]
        BY <3>7 DEF Serve
      <4>2. Answered(q, "done", wrote).at = "done"
        BY DEF Answered, NotPosted
      <4> QED
        BY <3>3, <4>1, <4>2
    <3>8. ASSUME NEW q \in Posts, Acknowledge(q)
          PROVE  FALSE
      <4>1. posts' = [posts EXCEPT ![q] = Answered(q, "refetching", 0)]
        BY <3>8 DEF Acknowledge, Refetch
      <4>2. Answered(q, "refetching", 0).at = "refetching"
        BY DEF Answered, NotPosted
      <4> QED
        BY <3>3, <4>1, <4>2
    <3>9. ASSUME NEW q \in Posts, Refuse(q)
          PROVE  FALSE
      <4>1. q # p
        BY <2>1, <3>9
      <4>2. posts' = [posts EXCEPT ![q] = Answered(q, "refused", 0)]
        BY <3>9 DEF Refuse
      <4> QED
        BY <3>4, <4>1, <4>2
    <3>10. CASE UNCHANGED <<row, detailsVars>> \/ Outside \/ Retry \/ chooseTarget
      BY <3>1, <3>10 DEF detailsVars, Outside, Retry, chooseTarget
    <3>11. ASSUME NEW r \in Reads, ServeRead(r)
           PROVE  FALSE
      BY <3>1, <3>11 DEF ServeRead
    <3>12. ASSUME NEW q \in Posts, Fail(q)
           PROVE  FALSE
      BY <3>2, <3>12 DEF Fail
    <3>13. CASE handleAssignVendor \/ handleChangeStatus \/ handleAddNote
      BY <3>6, <3>13 DEF handleAssignVendor, handleChangeStatus, handleAddNote
    <3> QED
      BY <3>5, <3>7, <3>8, <3>9, <3>10, <3>11, <3>12, <3>13 DEF DetailsNext
  <2>2. ~CanTransition(status, posts[p].target)
    BY <2>1 DEF Refuse
  <2> QED
    BY <1>1, <1>3, <2>2, OffersAreLegal DEF CanTransition, Fits, RowNow, RowTypeOK
<1> QED
  BY <1>2, <1>3

-----------------------------------------------------------------------------
\* The page of a survey: likewise.
ReviewsAreSeen ==
  /\ acknowledged <= survey.changes
  /\ \A d \in Decisions : decisions[d].wrote <= survey.changes
  /\ ~doubled => \A q \in SurveyReads :
                   queries[q].at = "answered" => queries[q].row.changes >= acknowledged
  /\ ReviewsAreShown

\* A review is of a survey that was submitted when it was shown.
Reviews(post) ==
  /\ post.at = "posted" /\ post.decision # "NONE" => post.seen.status = "SUBMITTED"
  /\ post.at = "checked" => post.decision # "NONE"

ReviewsFit ==
  /\ dialog # Unread => dialog.status = "SUBMITTED"
  /\ \A d \in Decisions : Reviews(decisions[d])

ReviewIInv == ReviewTypeOK /\ ReviewsAreSeen /\ ReviewsFit

LEMMA SurveysTyped ==
  /\ 0 \in 0..MaxChanges
  /\ Unread.changes = 0 /\ Unread.status = "NONE" /\ Unread \notin Surveyed
  /\ NoQuery \in QueryStates /\ NoQuery.at = "none"
  /\ Unposted \in DecisionStates /\ Unposted.at = "idle" /\ Unposted.wrote = 0
  /\ {"SUBMITTED", "APPROVED", "REJECTED"} \subseteq SurveyStatuses
  /\ \A s \in SurveyStatuses : SurveyTransitions[s] \subseteq SurveyStatuses
<1>1. 0 \in 0..MaxChanges
  BY MaxChangesAssumption
<1>2. /\ {"SUBMITTED", "APPROVED", "REJECTED"} \subseteq SurveyStatuses
      /\ "NONE" \notin SurveyStatuses
      /\ \A s \in SurveyStatuses : SurveyTransitions[s] \subseteq SurveyStatuses
  BY DEF SurveyStatuses, SurveyTransitions
<1>3. Unread.changes = 0 /\ Unread.status = "NONE" /\ Unread \notin Surveyed
  BY <1>2 DEF Unread, Surveyed
<1>4. NoQuery \in QueryStates /\ NoQuery.at = "none"
  BY DEF NoQuery, QueryStates
<1>5. Unposted \in DecisionStates /\ Unposted.at = "idle" /\ Unposted.wrote = 0
  BY <1>1 DEF Unposted, DecisionStates
<1> QED
  BY <1>1, <1>2, <1>3, <1>4, <1>5

\* What a step leaves alone is of the type it was.
LEMMA ReviewTyped ==
  ReviewTypeOK => /\ survey \in Surveyed \cup {Unread} /\ survey.changes \in 0..MaxChanges
                  /\ told \in Surveyed \cup {Unread} /\ dialog \in Surveyed \cup {Unread}
                  /\ queries \in [SurveyReads -> QueryStates]
                  /\ decisions \in [Decisions -> DecisionStates]
                  /\ acknowledged \in 0..MaxChanges
BY SurveysTyped DEF ReviewTypeOK, Surveyed

\* One read less, and the post that waited for it moves on.
LEMMA QueryOver ==
  ASSUME ReviewIInv, NEW q \in SurveyReads, queries' = [queries EXCEPT ![q] = NoQuery]
  PROVE  /\ queries' \in [SurveyReads -> QueryStates]
         /\ \A r \in SurveyReads : queries'[r].at = "answered"
                                     => queries[r].at = "answered" /\ queries'[r] = queries[r]
BY SurveysTyped, ReviewTyped DEF ReviewIInv

LEMMA DecisionWaited ==
  ASSUME ReviewIInv, NEW q \in SurveyReads, NEW d \in Decisions
  PROVE  /\ Waited(q)[d] \in DecisionStates
         /\ Waited(q)[d].wrote <= survey.changes
         /\ \/ Waited(q)[d] = decisions[d]
            \/ Waited(q)[d].at \in {"idle", "closing"}
         /\ Reviews(Waited(q)[d])
<1>1. /\ decisions[d] \in DecisionStates /\ 0 <= survey.changes
      /\ decisions[d].wrote <= survey.changes
  BY ReviewTyped, MaxChangesAssumption DEF ReviewIInv, ReviewsAreSeen
<1>2. PICK closed : closed = [decisions[d] EXCEPT !.at = "closing"]
  OBVIOUS
<1>3. /\ closed \in DecisionStates /\ closed.at = "closing"
      /\ closed.wrote = decisions[d].wrote
  BY <1>1, <1>2 DEF DecisionStates
<1>4. Waited(q)[d] \in {decisions[d], Unposted, closed}
  BY <1>2 DEF Waited
<1> QED
  BY <1>1, <1>3, <1>4, SurveysTyped DEF ReviewIInv, ReviewsFit, Reviews

LEMMA DecisionForgotten ==
  ASSUME NEW post \in DecisionStates
  PROVE  /\ Forgotten(post) \in DecisionStates
         /\ Forgotten(post).at = post.at /\ Forgotten(post).wrote = post.wrote
         /\ Forgotten(post).seen = post.seen /\ Forgotten(post).decision = post.decision
BY DEF Forgotten, DecisionStates

\* A read begins.
LEMMA QueryBegun ==
  ASSUME ReviewTypeOK, NEW post \in Decisions \cup {NoDecision}, fetchSurvey(post)
  PROVE  /\ queries' \in [SurveyReads -> QueryStates]
         /\ failed' = FALSE /\ doubled' \in BOOLEAN
         /\ QueryUnderWay'
         /\ ~doubled' => \A q \in SurveyReads : queries'[q].at # "answered"
<1>1. PICK q \in SurveyReads :
        /\ queries[q].at = "none"
        /\ queries' = [queries EXCEPT ![q] = [NoQuery EXCEPT !.at = "sent", !.post = post]]
  BY DEF fetchSurvey
<1>2. failed' = FALSE /\ doubled' = QueryUnderWay
  BY DEF fetchSurvey
<1>3. PICK query : query = [NoQuery EXCEPT !.at = "sent", !.post = post]
  OBVIOUS
<1>4. query \in QueryStates /\ query.at = "sent"
  BY <1>3, SurveysTyped DEF QueryStates
<1>5. queries' = [queries EXCEPT ![q] = query] /\ queries \in [SurveyReads -> QueryStates]
  BY <1>1, <1>3, ReviewTyped
<1> QED
  BY <1>2, <1>4, <1>5 DEF QueryUnderWay

\* A step of one post, or of the survey, or of the dialog.
LEMMA DecisionMoves ==
  ASSUME ReviewIInv, UNCHANGED <<told, failed, queries, acknowledged, doubled>>,
         survey' \in Surveyed \cup {Unread}, survey'.changes >= survey.changes,
         dialog' \in Surveyed \cup {Unread}, dialog' # Unread => dialog'.status = "SUBMITTED",
         decisions' \in [Decisions -> DecisionStates],
         \A d \in Decisions :
           \/ decisions'[d] = decisions[d]
           \/ decisions'[d].wrote <= survey'.changes /\ Reviews(decisions'[d])
  PROVE  ReviewIInv'
<1>1. /\ survey.changes \in Nat /\ survey'.changes \in Nat /\ acknowledged \in Nat
      /\ acknowledged <= survey'.changes
      /\ \A d \in Decisions : decisions[d].wrote \in Nat
  BY SurveysTyped, ReviewTyped, MaxChangesAssumption
     DEF ReviewIInv, ReviewsAreSeen, Surveyed, DecisionStates
<1>2. ReviewTypeOK'
  BY DEF ReviewIInv, ReviewTypeOK
<1>3. \A d \in Decisions : decisions'[d].wrote <= survey'.changes
  BY <1>1 DEF ReviewIInv, ReviewsAreSeen
<1>4. ReviewsAreSeen'
  BY <1>1, <1>3 DEF ReviewIInv, ReviewsAreSeen, ReviewsAreShown, QueryUnderWay
<1>5. ReviewsFit'
  BY DEF ReviewIInv, ReviewsFit, Reviews
<1> QED
  BY <1>2, <1>4, <1>5 DEF ReviewIInv

LEMMA OneDecisionMoves ==
  ASSUME ReviewIInv, UNCHANGED <<told, failed, queries, acknowledged, doubled>>,
         survey' \in Surveyed \cup {Unread}, survey'.changes >= survey.changes,
         dialog' \in {dialog, Unread},
         NEW d \in Decisions, NEW post \in DecisionStates,
         decisions' = [decisions EXCEPT ![d] = post],
         post.wrote <= survey'.changes,
         Reviews(post)
  PROVE  ReviewIInv'
<1>1. /\ dialog' \in Surveyed \cup {Unread}
      /\ dialog' # Unread => dialog'.status = "SUBMITTED"
  BY ReviewTyped DEF ReviewIInv, ReviewsFit
<1>2. decisions' \in [Decisions -> DecisionStates]
  BY ReviewTyped DEF ReviewIInv
<1>3. \A e \in Decisions : decisions'[e] = IF e = d THEN post ELSE decisions[e]
  BY ReviewTyped DEF ReviewIInv
<1> QED
  BY <1>1, <1>2, <1>3, DecisionMoves

LEMMA DecisionPosted ==
  ASSUME ReviewIInv, NEW form \in {"review", "note"},
         NEW decision \in {"APPROVED", "REJECTED", "NONE"}, PostDecision(form, decision),
         decision # "NONE" => form = "review" /\ dialog # Unread
  PROVE  ReviewIInv'
<1>1. PICK seen : seen = IF form = "review" THEN dialog ELSE Unread
  OBVIOUS
<1>2. PICK post : post = [ at |-> "posted", form |-> form, decision |-> decision,
                           seen |-> seen, wrote |-> 0 ]
  OBVIOUS
<1>3. PICK d \in Decisions : decisions' = [decisions EXCEPT ![d] = post]
  BY <1>1, <1>2 DEF PostDecision
<1>4. seen \in Surveyed \cup {Unread} /\ 0 \in 0..MaxChanges
  BY <1>1, SurveysTyped, ReviewTyped DEF ReviewIInv
<1>5. post \in DecisionStates
  BY <1>2, <1>4 DEF DecisionStates
<1>6. UNCHANGED <<survey, told, failed, dialog, queries, acknowledged, doubled>>
  BY DEF PostDecision
<1>7. /\ survey' \in Surveyed \cup {Unread} /\ survey'.changes >= survey.changes
      /\ post.wrote <= survey'.changes
  BY <1>2, <1>6, ReviewTyped, MaxChangesAssumption DEF ReviewIInv
<1>8. Reviews(post)
  BY <1>1, <1>2 DEF ReviewIInv, ReviewsFit, Reviews
<1> QED
  BY <1>3, <1>5, <1>6, <1>7, <1>8, OneDecisionMoves

LEMMA SurveyRead ==
  ASSUME ReviewIInv, NEW q \in SurveyReads, ServeSurvey(q) \/ ShowSurvey(q) \/ ShowSurveyError(q)
  PROVE  ReviewIInv'
<1>1. CASE ServeSurvey(q)
  <2>1. /\ queries[q].at = "sent"
        /\ queries' = [queries EXCEPT ![q].at = "answered", ![q].row = survey]
        /\ UNCHANGED <<survey, told, failed, dialog, decisions, acknowledged, doubled>>
    BY <1>1 DEF ServeSurvey
  <2>2. PICK query : query = [queries[q] EXCEPT !.at = "answered", !.row = survey]
    OBVIOUS
  <2>3. query \in QueryStates /\ query.row = survey /\ query.at = "answered"
    BY <2>2, ReviewTyped DEF ReviewIInv, QueryStates
  <2>4. queries' = [queries EXCEPT ![q] = query]
    BY <2>1, <2>2, ReviewTyped DEF ReviewIInv
  <2>5. ReviewTypeOK'
    BY <2>1, <2>3, <2>4 DEF ReviewIInv, ReviewTypeOK
  <2>6. QueryUnderWay /\ QueryUnderWay'
    BY <2>1, <2>3, <2>4, ReviewTyped DEF ReviewIInv, QueryUnderWay
  <2>7. \A r \in SurveyReads :
          queries'[r].at = "answered" /\ ~doubled => queries'[r].row.changes >= acknowledged
    BY <2>3, <2>4, ReviewTyped, MaxChangesAssumption DEF ReviewIInv, ReviewsAreSeen
  <2>8. ReviewsAreSeen'
    BY <2>1, <2>6, <2>7 DEF ReviewIInv, ReviewsAreSeen, ReviewsAreShown
  <2>9. ReviewsFit'
    BY <2>1 DEF ReviewIInv, ReviewsFit, Reviews
  <2> QED
    BY <2>5, <2>8, <2>9 DEF ReviewIInv
<1>2. CASE ShowSurvey(q) \/ ShowSurveyError(q)
  <2>1. /\ queries' = [queries EXCEPT ![q] = NoQuery]
        /\ UNCHANGED <<survey, dialog, acknowledged, doubled>>
        /\ failed' \in BOOLEAN
        /\ \/ told' = queries[q].row /\ queries[q].at = "answered"
           \/ failed' /\ told' = told
        /\ \/ decisions' = Waited(q)
           \/ decisions' = [d \in Decisions |-> Forgotten(Waited(q)[d])]
    <3>1. CASE ShowSurvey(q)
      BY <3>1 DEF ShowSurvey, ReviewIInv, ReviewTypeOK
    <3>2. CASE ShowSurveyError(q)
      BY <3>2 DEF ShowSurveyError
    <3> QED
      BY <1>2, <3>1, <3>2
  <2>2. told' \in Surveyed \cup {Unread} /\ (~failed' /\ ~doubled => told'.changes >= acknowledged)
    BY <2>1, ReviewTyped DEF ReviewIInv, ReviewsAreSeen, QueryStates
  <2>3. ASSUME NEW d \in Decisions
        PROVE  /\ decisions'[d] \in DecisionStates
               /\ decisions'[d].wrote <= survey.changes
               /\ Reviews(decisions'[d])
    <3>1. PICK post : post = Waited(q)[d]
      OBVIOUS
    <3>2. post \in DecisionStates /\ post.wrote <= survey.changes /\ Reviews(post)
      BY <3>1, DecisionWaited
    <3>3. decisions'[d] \in {post, Forgotten(post)}
      BY <2>1, <3>1
    <3> QED
      BY <3>2, <3>3, DecisionForgotten DEF Reviews
  <2>4. decisions' \in [Decisions -> DecisionStates]
    <3>1. \A d \in Decisions : decisions'[d] \in DecisionStates
      BY <2>3
    <3>2. decisions' = [d \in Decisions |-> decisions'[d]]
      BY <2>1 DEF Waited
    <3> QED
      BY <3>1, <3>2
  <2>5. ReviewTypeOK'
    BY <2>1, <2>2, <2>4, QueryOver DEF ReviewIInv, ReviewTypeOK
  <2>6. ReviewsAreSeen'
    BY <2>1, <2>2, <2>3, QueryOver DEF ReviewIInv, ReviewsAreSeen, ReviewsAreShown
  <2>7. ReviewsFit'
    BY <2>1, <2>3 DEF ReviewIInv, ReviewsFit, Reviews
  <2> QED
    BY <2>5, <2>6, <2>7 DEF ReviewIInv
<1> QED
  BY <1>1, <1>2

LEMMA SurveyReadAgain ==
  ASSUME ReviewIInv, RetrySurvey
  PROVE  ReviewIInv'
<1>1. /\ fetchSurvey(NoDecision)
      /\ UNCHANGED <<survey, told, dialog, decisions, acknowledged>>
  BY DEF RetrySurvey
<1>2. ReviewTypeOK'
  BY <1>1, QueryBegun DEF ReviewIInv, ReviewTypeOK
<1>3. ReviewsAreSeen'
  BY <1>1, QueryBegun DEF ReviewIInv, ReviewsAreSeen, ReviewsAreShown
<1>4. ReviewsFit'
  BY <1>1 DEF ReviewIInv, ReviewsFit, Reviews
<1> QED
  BY <1>2, <1>3, <1>4 DEF ReviewIInv

LEMMA ReviewAcknowledged ==
  ASSUME ReviewIInv, NEW d \in Decisions, AcknowledgeReview(d)
  PROVE  ReviewIInv'
<1>1. /\ fetchSurvey(d)
      /\ decisions' = [decisions EXCEPT ![d].at = "refetching"]
      /\ acknowledged' \in {acknowledged, decisions[d].wrote}
      /\ UNCHANGED <<survey, told, dialog>>
  BY DEF AcknowledgeReview
<1>2. PICK post : post = [decisions[d] EXCEPT !.at = "refetching"]
  OBVIOUS
<1>3. /\ post \in DecisionStates /\ post.at = "refetching" /\ post.wrote = decisions[d].wrote
      /\ decisions' = [decisions EXCEPT ![d] = post]
  BY <1>1, <1>2, ReviewTyped DEF ReviewIInv, DecisionStates
<1>4. \A e \in Decisions : decisions'[e] = IF e = d THEN post ELSE decisions[e]
  BY <1>3, ReviewTyped DEF ReviewIInv
<1>5. decisions[d].wrote \in 0..MaxChanges /\ decisions[d].wrote <= survey.changes
  BY ReviewTyped DEF ReviewIInv, DecisionStates, ReviewsAreSeen
<1>6. acknowledged' \in 0..MaxChanges /\ acknowledged' <= survey.changes
  BY <1>1, <1>5 DEF ReviewIInv, ReviewTypeOK, ReviewsAreSeen
<1>7. decisions' \in [Decisions -> DecisionStates]
  BY <1>3, ReviewTyped DEF ReviewIInv
<1>8. ReviewTypeOK'
  BY <1>1, <1>6, <1>7, QueryBegun DEF ReviewIInv, ReviewTypeOK
<1>9. ReviewsAreSeen'
  BY <1>1, <1>3, <1>4, <1>6, QueryBegun DEF ReviewIInv, ReviewsAreSeen, ReviewsAreShown
<1>10. ReviewsFit'
  BY <1>1, <1>3, <1>4 DEF ReviewIInv, ReviewsFit, Reviews
<1> QED
  BY <1>8, <1>9, <1>10 DEF ReviewIInv

LEMMA ReviewIInvKept ==
  ASSUME ReviewIInv, survey \in Surveyed, [ReviewNext]_reviewVars
  PROVE  ReviewIInv' /\ survey' \in Surveyed
<1>1. /\ survey.status \in SurveyStatuses /\ survey.changes \in 0..MaxChanges
      /\ survey \in Surveyed \cup {Unread} /\ survey.changes >= survey.changes
      /\ survey.changes <= survey.changes /\ 0 <= survey.changes
      /\ survey.changes + 1 >= survey.changes
      /\ decisions \in [Decisions -> DecisionStates]
  BY ReviewTyped, MaxChangesAssumption DEF ReviewIInv, Surveyed
<1>2. CASE UNCHANGED reviewVars
  BY <1>2 DEF reviewVars, ReviewIInv, ReviewTypeOK, ReviewsAreSeen, ReviewsAreShown,
              QueryUnderWay, ReviewsFit, Reviews
<1>3. CASE RetrySurvey
  BY <1>3, SurveyReadAgain DEF RetrySurvey
<1>4. CASE handleOpenReviewModal \/ CloseDialog
  <2>1. /\ UNCHANGED <<survey, told, failed, queries, decisions, acknowledged, doubled>>
        /\ \/ dialog' = Unread
           \/ dialog' = told /\ told.status = "SUBMITTED"
    BY <1>4 DEF handleOpenReviewModal, CloseDialog
  <2>2. dialog' \in Surveyed \cup {Unread} /\ (dialog' # Unread => dialog'.status = "SUBMITTED")
    BY <2>1, ReviewTyped DEF ReviewIInv
  <2> QED
    BY <1>1, <2>1, <2>2, DecisionMoves
<1>5. CASE handleConfirmReview
  BY <1>5, DecisionPosted DEF handleConfirmReview, PostDecision
<1>6. CASE handleAddSurveyNote
  BY <1>6, DecisionPosted DEF handleAddSurveyNote, PostDecision
<1>7. CASE OutsideReview
  <2>1. PICK to \in SurveyTransitions[survey.status] \cup {"APPROVED", "REJECTED"} :
          survey' = [ status |-> to, changes |-> survey.changes + 1 ]
    BY <1>7 DEF OutsideReview
  <2>2. to \in SurveyStatuses /\ survey.changes + 1 \in 0..MaxChanges
    BY <1>1, <1>7, <2>1, SurveysTyped, MaxChangesAssumption DEF OutsideReview
  <2>3. survey' \in Surveyed /\ survey'.changes = survey.changes + 1
    BY <2>1, <2>2 DEF Surveyed
  <2>4. /\ UNCHANGED <<told, failed, queries, acknowledged, doubled, dialog, decisions>>
        /\ dialog # Unread => dialog.status = "SUBMITTED"
        /\ dialog \in Surveyed \cup {Unread}
    BY <1>7, ReviewTyped DEF OutsideReview, ReviewIInv, ReviewsFit
  <2> QED
    BY <1>1, <2>3, <2>4, DecisionMoves
<1>8. ASSUME NEW q \in SurveyReads, ServeSurvey(q) \/ ShowSurvey(q) \/ ShowSurveyError(q)
      PROVE  ReviewIInv' /\ survey' \in Surveyed
  BY <1>8, SurveyRead DEF ServeSurvey, ShowSurvey, ShowSurveyError
<1>9. ASSUME NEW d \in Decisions, CheckReview(d) \/ addSurveyCommentAdmin(d)
      PROVE  ReviewIInv' /\ survey' \in Surveyed
  <2>1. PICK at \in {"checked", "refused", "done"} :
          /\ decisions' = [decisions EXCEPT ![d].at = at]
          /\ at = "checked" => decisions[d].decision # "NONE"
    BY <1>9 DEF CheckReview, addSurveyCommentAdmin, IsReview
  <2>2. PICK post : post = [decisions[d] EXCEPT !.at = at]
    OBVIOUS
  <2>3. /\ post \in DecisionStates /\ Reviews(post) /\ post.wrote = decisions[d].wrote
        /\ decisions' = [decisions EXCEPT ![d] = post]
    BY <1>1, <2>1, <2>2 DEF DecisionStates, Reviews
  <2>4. post.wrote <= survey.changes
    BY <2>3 DEF ReviewIInv, ReviewsAreSeen
  <2>5. UNCHANGED <<survey, told, failed, dialog, queries, acknowledged, doubled>>
    BY <1>9 DEF CheckReview, addSurveyCommentAdmin
  <2> QED
    BY <1>1, <2>3, <2>4, <2>5, OneDecisionMoves
<1>10. ASSUME NEW d \in Decisions, CommitReview(d)
       PROVE  ReviewIInv' /\ survey' \in Surveyed
  <2>1. /\ decisions[d].at = "checked" /\ survey.changes < MaxChanges
        /\ survey' = [ status |-> decisions[d].decision, changes |-> survey.changes + 1 ]
        /\ decisions' = [decisions EXCEPT ![d].at = "done", ![d].wrote = survey.changes + 1]
        /\ UNCHANGED <<told, failed, dialog, queries, acknowledged, doubled>>
    BY <1>10 DEF CommitReview
  <2>2. decisions[d].decision \in SurveyStatuses /\ survey.changes + 1 \in 0..MaxChanges
    BY <1>1, <2>1, SurveysTyped, MaxChangesAssumption
       DEF ReviewIInv, ReviewsFit, Reviews, DecisionStates
  <2>3. survey' \in Surveyed /\ survey'.changes = survey.changes + 1
    BY <2>1, <2>2 DEF Surveyed
  <2>4. PICK post : post = [decisions[d] EXCEPT !.at = "done", !.wrote = survey.changes + 1]
    OBVIOUS
  <2>5. /\ post \in DecisionStates /\ Reviews(post) /\ post.wrote = survey'.changes
        /\ decisions' = [decisions EXCEPT ![d] = post]
    BY <1>1, <2>1, <2>2, <2>3, <2>4 DEF DecisionStates, Reviews
  <2>6. post.wrote <= survey'.changes
    BY <1>1, <2>3, <2>5
  <2> QED
    BY <1>1, <2>1, <2>3, <2>5, <2>6, OneDecisionMoves
<1>11. ASSUME NEW d \in Decisions, AcknowledgeReview(d)
       PROVE  ReviewIInv' /\ survey' \in Surveyed
  BY <1>11, ReviewAcknowledged DEF AcknowledgeReview
<1>12. ASSUME NEW d \in Decisions, VersionsRead(d) \/ FailDecision(d)
       PROVE  ReviewIInv' /\ survey' \in Surveyed
  <2>1. /\ decisions' = [decisions EXCEPT ![d] = Unposted]
        /\ dialog' \in {dialog, Unread}
        /\ UNCHANGED <<survey, told, failed, queries, acknowledged, doubled>>
    BY <1>12 DEF VersionsRead, FailDecision
  <2> QED
    BY <1>1, <2>1, SurveysTyped, OneDecisionMoves DEF Reviews
<1> QED
  BY <1>2, <1>3, <1>4, <1>5, <1>6, <1>7, <1>8, <1>9, <1>10, <1>11, <1>12 DEF ReviewNext

LEMMA ReviewStarts == ReviewInit => ReviewIInv
<1> SUFFICES ASSUME ReviewInit
             PROVE  ReviewIInv
  OBVIOUS
<1>1. ReviewTypeOK
  BY SurveysTyped DEF ReviewInit, ReviewTypeOK
<1>2. ReviewsAreSeen /\ ReviewsFit
  BY SurveysTyped
     DEF ReviewInit, ReviewsAreSeen, ReviewsAreShown, QueryUnderWay, ReviewsFit, Reviews
<1> QED
  BY <1>1, <1>2 DEF ReviewIInv

\* The page is opened: nothing has been done on it.
LEMMA SurveyOpened ==
  ASSUME ReviewInit, OpenSurvey
  PROVE  ReviewIInv' /\ survey' \in Surveyed
<1>1. /\ fetchSurvey(NoDecision) /\ UNCHANGED <<told, dialog, decisions, acknowledged>>
      /\ survey' \in Surveyed /\ survey'.changes = 0
  BY SurveysTyped DEF OpenSurvey, Surveyed
<1>2. ReviewIInv /\ survey.changes = 0
  BY ReviewStarts, SurveysTyped DEF ReviewInit
<1>3. ReviewTypeOK'
  BY <1>1, <1>2, QueryBegun DEF ReviewIInv, ReviewTypeOK
<1>4. ReviewsAreSeen'
  BY <1>1, <1>2, QueryBegun DEF ReviewIInv, ReviewsAreSeen, ReviewsAreShown
<1>5. ReviewsFit'
  BY <1>1, <1>2 DEF ReviewIInv, ReviewsFit
<1> QED
  BY <1>1, <1>3, <1>4, <1>5 DEF ReviewIInv

\* A review that is refused was of a survey that has changed since.
LEMMA ReviewsMisfire ==
  ASSUME ReviewIInv, [ReviewNext]_reviewVars, NEW d \in Decisions, RefusedReviews(d)
  PROVE  decisions[d].seen # survey
<1>1. /\ decisions \in [Decisions -> DecisionStates] /\ Reviews(decisions[d])
      /\ decisions[d].at = "posted" /\ decisions'[d].at = "refused"
  BY ReviewTyped DEF ReviewIInv, ReviewsFit, RefusedReviews
<1>2. ASSUME NEW e \in Decisions, CheckReview(e)
      PROVE  survey.status # "SUBMITTED" /\ decisions[d].decision # "NONE"
  <2>1. e = d
    BY <1>1, <1>2 DEF CheckReview
  <2> QED
    BY <1>1, <1>2, <2>1 DEF CheckReview, IsReview, DecisionStates
<1>3. ASSUME NEW e \in Decisions,
             \/ CommitReview(e) \/ addSurveyCommentAdmin(e) \/ AcknowledgeReview(e)
             \/ VersionsRead(e) \/ FailDecision(e)
      PROVE  FALSE
  BY <1>1, <1>3, SurveysTyped
     DEF CommitReview, addSurveyCommentAdmin, AcknowledgeReview, VersionsRead, FailDecision,
         DecisionStates
<1>4. ASSUME NEW q \in SurveyReads, ServeSurvey(q) \/ ShowSurvey(q) \/ ShowSurveyError(q)
      PROVE  FALSE
  <2>1. CASE ServeSurvey(q)
    BY <1>1, <2>1 DEF ServeSurvey
  <2>2. CASE ShowSurvey(q) \/ ShowSurveyError(q)
    <3>1. PICK post : post = Waited(q)[d]
      OBVIOUS
    <3>2. decisions'[d] \in {post, Forgotten(post)}
      BY <2>2, <3>1 DEF ShowSurvey, ShowSurveyError
    <3>3. /\ post \in DecisionStates
          /\ post = decisions[d] \/ post.at \in {"idle", "closing"}
      BY <3>1, DecisionWaited
    <3> QED
      BY <1>1, <3>2, <3>3, DecisionForgotten
  <2> QED
    BY <1>4, <2>1, <2>2
<1>5. ASSUME handleConfirmReview \/ handleAddSurveyNote
      PROVE  FALSE
  BY <1>1, <1>5 DEF handleConfirmReview, handleAddSurveyNote, PostDecision
<1>6. ASSUME \/ RetrySurvey \/ handleOpenReviewModal \/ CloseDialog \/ OutsideReview
             \/ UNCHANGED reviewVars
      PROVE  FALSE
  BY <1>1, <1>6
     DEF RetrySurvey, handleOpenReviewModal, CloseDialog, OutsideReview, reviewVars
<1>7. survey.status # "SUBMITTED" /\ decisions[d].decision # "NONE"
  BY <1>2, <1>3, <1>4, <1>5, <1>6 DEF ReviewNext
<1> QED
  BY <1>1, <1>7 DEF Reviews

-----------------------------------------------------------------------------
\* The whole: a page of a survey that has not been opened is as it began.
ConsoleIInv ==
  /\ ListIInv /\ DetailsIInv /\ ReviewIInv /\ DashboardIInv
  /\ screen \in {"dashboard", "list", "request", "survey"}
  /\ IF screen = "survey" THEN survey \in Surveyed ELSE ReviewInit

LEMMA ConsoleStarts == ConsoleInit => ConsoleIInv
BY ListStarts, DetailsStart, ReviewStarts, DashboardStarts DEF ConsoleInit, ConsoleIInv

LEMMA ListStays ==
  ASSUME ListIInv, UNCHANGED listVars
  PROVE  ListIInv'
BY ListIInvKept

LEMMA DetailsStay ==
  ASSUME DetailsIInv, UNCHANGED <<row, detailsVars>>
  PROVE  DetailsIInv'
BY DetailsIInvKept

LEMMA ReviewStays ==
  ASSUME ReviewIInv, UNCHANGED reviewVars
  PROVE  ReviewIInv' /\ (ReviewInit => ReviewInit') /\ survey' = survey
BY DEF reviewVars, ReviewIInv, ReviewTypeOK, ReviewsAreSeen, ReviewsAreShown,
       QueryUnderWay, ReviewsFit, Reviews, ReviewInit

LEMMA DashboardStays ==
  ASSUME DashboardIInv, UNCHANGED dashboardVars
  PROVE  DashboardIInv'
BY DashboardIInvKept

LEMMA ConsoleIInvKept ==
  ASSUME ConsoleIInv, [ConsoleNext]_consoleVars
  PROVE  ConsoleIInv'
<1>1. /\ ListIInv /\ DetailsIInv /\ ReviewIInv /\ DashboardIInv
      /\ screen # "survey" => ReviewInit
      /\ screen = "survey" => survey \in Surveyed
  BY DEF ConsoleIInv
<1>2. CASE UNCHANGED consoleVars
  <2>1. UNCHANGED <<listVars, row, detailsVars, reviewVars, dashboardVars, screen>>
    BY <1>2 DEF consoleVars
  <2> QED
    BY <1>1, <2>1, ListStays, DetailsStay, ReviewStays, DashboardStays DEF ConsoleIInv
<1>3. CASE screen = "dashboard" /\ DashboardNext
             /\ UNCHANGED <<listVars, row, detailsVars, reviewVars, screen>>
  BY <1>1, <1>3, ListStays, DetailsStay, ReviewStays, DashboardIInvKept DEF ConsoleIInv
<1>4. CASE screen = "list" /\ ListNext
             /\ UNCHANGED <<row, detailsVars, reviewVars, dashboardVars, screen>>
  BY <1>1, <1>4, ListIInvKept, DetailsStay, ReviewStays, DashboardStays DEF ConsoleIInv
<1>5. CASE screen = "request" /\ DetailsNext
             /\ UNCHANGED <<listVars, reviewVars, dashboardVars, screen>>
  BY <1>1, <1>5, ListStays, DetailsIInvKept, ReviewStays, DashboardStays DEF ConsoleIInv
<1>6. CASE screen = "survey" /\ ReviewNext
             /\ UNCHANGED <<listVars, row, detailsVars, dashboardVars, screen>>
  BY <1>1, <1>6, ListStays, DetailsStay, ReviewIInvKept, DashboardStays DEF ConsoleIInv
<1>7. CASE Open
  <2>1. screen = "list" /\ LeaveList /\ UNCHANGED dashboardVars
    BY <1>7 DEF Open
  <2>2. CASE OpenPage /\ screen' = "request" /\ UNCHANGED reviewVars
    BY <1>1, <2>1, <2>2, ListLeft, ReadStarted, ReviewStays, DashboardStays
       DEF OpenPage, ConsoleIInv
  <2>3. CASE OpenSurvey /\ screen' = "survey" /\ UNCHANGED <<row, detailsVars>>
    BY <1>1, <2>1, <2>3, ListLeft, DetailsStay, SurveyOpened, DashboardStays DEF ConsoleIInv
  <2> QED
    BY <1>7, <2>2, <2>3 DEF Open
<1> QED
  BY <1>2, <1>3, <1>4, <1>5, <1>6, <1>7 DEF ConsoleNext

LEMMA ConsoleInvariance == ConsoleSpec => []ConsoleIInv
<1> QED
  BY ConsoleStarts, ConsoleIInvKept, PTL DEF ConsoleSpec

\* Every variable of the administrators' application keeps its type.
THEOREM ConsoleTypeCorrect == ConsoleSpec => []ConsoleTypeOK
<1>1. ConsoleIInv => ConsoleTypeOK
  BY DEF ConsoleIInv, ConsoleTypeOK, ListIInv, DetailsIInv, ReviewIInv, DashboardIInv
<1> QED
  BY <1>1, ConsoleInvariance, PTL

\* The rows of a list answer what its filters show, and a widget shows nothing
\* from before it last asked, however late the answers to earlier questions come.
THEOREM LastQuestionsAnswered == ConsoleSpec => []ScreensAnswerLastQuestion
<1>1. ConsoleIInv => ScreensAnswerLastQuestion
  BY DEF ConsoleIInv, ScreensAnswerLastQuestion, RowsMatchFilters, ListIInv,
         ShownAnswersParams, DashboardIInv
<1> QED
  BY <1>1, ConsoleInvariance, PTL

\* A page at rest shows what its administrator did, or something later, unless
\* its reads overlapped.
THEOREM OwnChangesAreShown == ConsoleSpec => []AcknowledgedChangesAreShown
<1>1. ConsoleIInv => AcknowledgedChangesAreShown
  BY DEF ConsoleIInv, AcknowledgedChangesAreShown, DetailsIInv, ChangesAreSeen,
         ReviewIInv, ReviewsAreSeen
<1> QED
  BY <1>1, ConsoleInvariance, PTL

\* The backend refuses what a page offers, or takes a request from another
\* vendor, only when the page was out of date; a status' form that offers nothing
\* and sends what was chosen last is the exception.
THEOREM MisfiresAreStale == ConsoleSpec => PostsMisfireOnlyWhenStale
<1> DEFINE Misfires ==
      \A p \in Posts :
        /\ posts[p].at = "posted"
        /\ \/ posts[p].action = "status" /\ posts'[p].at = "refused"
                                            /\ UiTransitions[posts[p].seen.status] # {}
           \/ posts[p].action = "assign" /\ posts'[p].at = "done"
                                            /\ vendor \in Vendors
        => posts[p].seen # RowNow
    Refusals == \A d \in Decisions : RefusedReviews(d) => decisions[d].seen # survey
<1>1. ASSUME ConsoleIInv, [ConsoleNext]_consoleVars
      PROVE  [Misfires]_consoleVars /\ [Refusals]_reviewVars
  <2>1. DetailsIInv /\ ReviewIInv
    BY <1>1 DEF ConsoleIInv
  <2>2. [DetailsNext]_<<row, detailsVars>> \/ OpenPage
    BY <1>1 DEF ConsoleNext, consoleVars, Open
  <2>3. Misfires
    <3>1. CASE [DetailsNext]_<<row, detailsVars>>
      BY <2>1, <3>1, PostsMisfire
    <3>2. CASE OpenPage
      BY <3>2 DEF OpenPage
    <3> QED
      BY <2>2, <3>1, <3>2
  <2>4. [ReviewNext]_reviewVars \/ OpenSurvey
    BY <1>1 DEF ConsoleNext, consoleVars, Open
  <2>5. Refusals
    <3>1. CASE [ReviewNext]_reviewVars
      BY <2>1, <3>1, ReviewsMisfire
    <3>2. CASE OpenSurvey
      BY <3>2 DEF OpenSurvey, RefusedReviews
    <3> QED
      BY <2>4, <3>1, <3>2
  <2> QED
    BY <2>3, <2>5
<1> QED
  BY <1>1, ConsoleInvariance, PTL
     DEF ConsoleSpec, PostsMisfireOnlyWhenStale, ReviewsMisfireOnlyWhenStale

=============================================================================
