------------------------------ MODULE Sessions ------------------------------
(***************************************************************************)
(* AuthService, SessionsService and the password change of UsersService:   *)
(* the refresh tokens of one user.                                         *)
(*                                                                         *)
(* A token is a session.  Tokens are numbered in the order of their        *)
(* creation, so the expired ones are the first of them.  Logging in and    *)
(* refreshing read the sessions and then create one, at READ COMMITTED:    *)
(* what a transaction writes is seen when it commits, and what it has read *)
(* may be out of date by then.                                             *)
(*                                                                         *)
(* Signatures, hashes, account statuses and the hour of expiry are left    *)
(* out: they decide only whether a handler is refused (AbortCall, or no    *)
(* step at all).                                                           *)
(***************************************************************************)
EXTENDS Integers, FiniteSets

CONSTANTS
  MaxTokens,      \* bound: tokens ever issued to the user
  MaxSessions,    \* maxSessions of enforceMaxSessionLimit (10 in the code)
  Calls           \* handler invocations that may be in flight at once

ASSUME MaxTokensAssumption == MaxTokens \in Nat
ASSUME MaxSessionsAssumption == MaxSessions \in Nat \ {0}
ASSUME CallsAssumption == IsFiniteSet(Calls)

VARIABLES
  registered,     \* whether the account exists
  tokens,         \* the refresh_tokens rows of the user
  calls           \* what each invocation has read and is about to do

serverVars == <<registered, tokens, calls>>

Tokens == 1..MaxTokens
NoToken == 0

\* A row is active until revokedAt is set; "rotated" is a revoked row that has
\* a replacedByTokenId, whatever else revoked it.
TokenStates == {"unissued", "active", "revoked", "rotated", "deleted"}

CallStates ==
  [ op      : {"none", "register", "login", "refresh"},
    parent  : Tokens \cup {NoToken},      \* the token a refresh presented
    victims : SUBSET Tokens ]             \* those it will revoke for the limit

NoCall == [ op |-> "none", parent |-> NoToken, victims |-> {} ]

ServerTypeOK ==
  /\ registered \in BOOLEAN
  /\ tokens \in [Tokens -> TokenStates]
  /\ calls \in [Calls -> CallStates]

\* Customers register; administrators and vendors are there from the start.
ServerInit ==
  /\ registered \in BOOLEAN
  /\ tokens = [t \in Tokens |-> "unissued"]
  /\ calls = [c \in Calls |-> NoCall]

Issued == { t \in Tokens : tokens[t] # "unissued" }
Active == { t \in Tokens : tokens[t] = "active" }
NextToken == Cardinality(Issued) + 1

-----------------------------------------------------------------------------
\* enforceMaxSessionLimit counts what is not revoked, expired or not, and
\* takes the oldest, so as to leave room for one.
OverflowKept == {}
Overflow ==
  { t \in Active : Cardinality({ u \in Active : u >= t }) >= MaxSessions }

Begin(c, op, parent) ==
  /\ calls[c].op = "none"
  /\ calls' = [calls EXCEPT ![c] =
                 [ op |-> op, parent |-> parent, victims |-> Overflow ]]
  /\ UNCHANGED <<registered, tokens>>

Finish(c) == calls' = [calls EXCEPT ![c] = NoCall]

\* registerCustomer: nobody has the address or the number yet.
ReadForRegister(c) == ~registered /\ Begin(c, "register", NoToken)

\* login: the password is right.  The transaction writes lastLogin first, which
\* locks the user's row, so that logins take turns; refreshes lock nothing.
ReadForLogin(c) ==
  /\ registered
  /\ \A d \in Calls : calls[d].op # "login"
  /\ Begin(c, "login", NoToken)

\* refreshToken: the presented token is on file and not revoked.  A revoked one
\* is refused; what is written on that occasion is rolled back by the very
\* exception that refuses it.
ReadForRefresh(c, t) == tokens[t] = "active" /\ Begin(c, "refresh", t)

\* generateAndStoreTokens, and the rotation of the token that was presented.
Issue(parent, victims) ==
  /\ NextToken <= MaxTokens
  /\ tokens' = [t \in Tokens |->
                  IF t = NextToken THEN "active"
                  ELSE IF t = parent THEN "rotated"
                  ELSE IF t \in victims /\ tokens[t] = "active" THEN "revoked"
                  ELSE tokens[t]]

\* The end of the transaction.  The account is unique; the presented token must
\* still be on file.
CommitIssue(c) ==
  LET p == calls[c].parent
  IN /\ calls[c].op # "none"
     /\ calls[c].op = "register" => ~registered
     /\ p # NoToken => tokens[p] # "deleted"
     /\ Issue(p, calls[c].victims)
     /\ registered' = TRUE
     /\ Finish(c)

\* An invocation ends without writing.
AbortCall(c) ==
  /\ calls[c].op # "none"
  /\ Finish(c)
  /\ UNCHANGED <<registered, tokens>>

\* logout of one device, revokeSession; logout of all devices or with no
\* token, revokeAllSessions, changePassword.
Revoke(S) ==
  /\ tokens' = [t \in Tokens |->
                  IF t \in S /\ tokens[t] = "active" THEN "revoked" ELSE tokens[t]]
  /\ UNCHANGED <<registered, calls>>

RevokeOne(t) == tokens[t] = "active" /\ Revoke({t})
RevokeAll == Active # {} /\ Revoke(Tokens)

\* cleanupExpiredTokens, which the cleanup job calls: whatever has expired by
\* now, seven days after its creation.  A row that has been revoked for thirty
\* days has expired as well.
Cleanup(last) ==
  /\ last \in Issued
  /\ tokens[last] # "deleted"
  /\ tokens' = [t \in Tokens |-> IF t <= last THEN "deleted" ELSE tokens[t]]
  /\ UNCHANGED <<registered, calls>>

=============================================================================
