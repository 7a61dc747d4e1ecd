----------------------------- MODULE Addresses ------------------------------
(***************************************************************************)
(* AddressService and ServiceRequestsService.createRequestCustomer: the    *)
(* addresses of one customer, which of them is the default, and requests   *)
(* placed at them.                                                         *)
(*                                                                         *)
(* A handler reads outside a transaction, and writes in one at READ        *)
(* COMMITTED: its first statement, which clears the other defaults or      *)
(* looks for the heir of a deleted default, sees what is committed when it *)
(* starts; its writes are shown at the commit.  Addresses are deleted      *)
(* softly; a deleted one is never shown again, so what is written to it    *)
(* later is left out.  Which address is newest is left open.               *)
(***************************************************************************)
EXTENDS Naturals, FiniteSets

CONSTANTS
  Addresses,   \* bound: addresses that are not deleted, or held by a handler
  NoAddress,   \* the deletion found no heir
  MaxTries,    \* maxAttempts of createRequestCustomer
  Calls        \* bound: handlers in flight at once

ASSUME AddressesAssumption == IsFiniteSet(Addresses)
ASSUME NoAddressAssumption == NoAddress \notin Addresses
ASSUME MaxTriesAssumption == MaxTries \in Nat \ {0}

VARIABLES
  addresses,   \* the rows of the customer, by whether they are the default
  calls        \* what each handler has read and is about to write

vars == <<addresses, calls>>

Live == {a \in Addresses : addresses[a] # "none"}
Defaults == {a \in Addresses : addresses[a] = "default"}

\* A handler has its operation, how far it is, its address, whether it makes
\* (or has deleted) the default, the rows its first statement saw, and for a
\* request its tries and how many of them were committed.  It is undisturbed
\* as long as no other handler has changed an address.
CallStates ==
  [ op          : {"none", "create", "default", "undefault", "delete", "request"},
    at          : {"read", "tx"},
    address     : Addresses \cup {NoAddress},
    isDefault   : BOOLEAN,
    seen        : SUBSET Addresses,
    tries       : 0..MaxTries,
    placed      : 0..MaxTries,
    undisturbed : BOOLEAN ]

NoCall ==
  [ op |-> "none", at |-> "read", address |-> NoAddress, isDefault |-> FALSE,
    seen |-> {}, tries |-> 0, placed |-> 0, undisturbed |-> TRUE ]

\* One type invariant, with the most requests one submission can leave.
TypeOK ==
  /\ addresses \in [Addresses -> {"none", "live", "default"}]
  /\ calls \in [Calls -> CallStates]

Init ==
  /\ addresses = [a \in Addresses |-> "none"]
  /\ calls = [c \in Calls |-> NoCall]

-----------------------------------------------------------------------------
Idle(c) == calls[c].op = "none"

Begin(c, op, a, isDefault) ==
  /\ Idle(c)
  /\ calls' = [calls EXCEPT ![c] =
                 [NoCall EXCEPT !.op = op, !.address = a, !.isDefault = isDefault]]
  /\ UNCHANGED addresses

Finish(c) == calls' = [calls EXCEPT ![c] = NoCall]

\* A handler commits: every other one in flight has been disturbed.
FinishCommitted(c) ==
  calls' = [d \in Calls |->
              IF d = c THEN NoCall
              ELSE [calls[d] EXCEPT !.undisturbed = Idle(d)]]

Unused(a) ==
  /\ a \notin Live
  /\ \A d \in Calls : calls[d].address # a /\ a \notin calls[d].seen

\* createAddress up to the transaction: the first address is the default.
ReadForCreate(c, a) ==
  /\ Unused(a)
  /\ \E wanted \in BOOLEAN : Begin(c, "create", a, wanted \/ Live = {})

\* updateAddress with isDefault given; without it the default is left alone.
ReadForUpdate(c, a) ==
  /\ a \in Live
  /\ Begin(c, "default", a, TRUE) \/ Begin(c, "undefault", a, FALSE)

ReadForDelete(c, a) ==
  /\ a \in Live
  /\ Begin(c, "delete", a, a \in Defaults)

-----------------------------------------------------------------------------
Open(c, seen) ==
  /\ calls[c].at = "read"
  /\ calls' = [calls EXCEPT ![c].at = "tx", ![c].seen = seen]
  /\ UNCHANGED addresses

\* The updateMany that clears the default: the rows it finds.
NothingCleared == {}
Cleared == Live

ClearDefaults(c) ==
  /\ calls[c].op \in {"create", "default"} /\ calls[c].isDefault
  /\ Open(c, Cleared)

\* The deletion of a default, once the row is written: its heir, if any.
HeirsAtRead(a) == Live
Heirs(a) == Live \ {a}

PickHeir(c) ==
  LET heirs == Heirs(calls[c].address)
  IN /\ calls[c].op = "delete" /\ calls[c].isDefault
     /\ IF heirs = {} THEN Open(c, {}) ELSE \E h \in heirs : Open(c, {h})

\* A deletion in its transaction has the row locked.
Locked(c, a) ==
  \E d \in Calls \ {c} :
    calls[d].op = "delete" /\ calls[d].at = "tx" /\ calls[d].address = a

\* What a commit leaves: rows deleted meanwhile stay deleted.
After(call) ==
  LET a == call.address
      Cleared1(b) == IF b \in call.seen \cap Defaults THEN "live" ELSE addresses[b]
      Written(b) == IF b \in Live THEN "default" ELSE "none"
  IN CASE call.op = "create" ->
            [b \in Addresses |->
               IF b # a THEN Cleared1(b)
               ELSE IF call.isDefault THEN "default" ELSE "live"]
       [] call.op = "default" ->
            [b \in Addresses |-> IF b = a THEN Written(b) ELSE Cleared1(b)]
       [] call.op = "undefault" ->
            [b \in Addresses |->
               IF b = a /\ b \in Live THEN "live" ELSE addresses[b]]
       [] call.op = "delete" ->
            [b \in Addresses |->
               IF b = a THEN "none"
               ELSE IF b \in call.seen THEN Written(b) ELSE addresses[b]]

Commit(c) ==
  LET call == calls[c]
  IN /\ call.op \in {"create", "default", "undefault", "delete"}
     /\ call.isDefault => call.at = "tx"
     /\ \A a \in call.seen \cup {call.address} : ~Locked(c, a)
     /\ addresses' = After(call)
     /\ FinishCommitted(c)

-----------------------------------------------------------------------------
\* createRequestCustomer up to its loop: the address is there.  (Whether the
\* category is active is not followed: it has no operation in the backend.)
AnyAddress == Addresses
Selectable == Live

ReadForRequest(c, a) ==
  /\ a \in Selectable
  /\ Begin(c, "request", a, FALSE)

\* One try commits the request, with its first history row.
PlaceRequest(c) ==
  /\ calls[c].op = "request" /\ calls[c].at = "read"
  /\ calls' = [calls EXCEPT ![c].at = "tx", ![c].placed = @ + 1]
  /\ UNCHANGED addresses

Answered(c) ==
  /\ calls[c].op = "request" /\ calls[c].at = "tx"
  /\ Finish(c)
  /\ UNCHANGED addresses

\* The try fails, before its commit or after it: any error is taken for a
\* ticket number in use, and the next try places the request again.
MayTryAgain(tries) == tries < MaxTries

TryFails(c) ==
  LET tries == calls[c].tries + 1
  IN /\ calls[c].op = "request"
     /\ IF MayTryAgain(tries)
          THEN calls' = [calls EXCEPT ![c].at = "read", ![c].tries = tries]
          ELSE Finish(c)
     /\ UNCHANGED addresses

\* A handler ends without committing.
Abort(c) ==
  /\ calls[c].op \notin {"none", "request"}
  /\ Finish(c)
  /\ UNCHANGED addresses

AddressStep(c) ==
  \/ \E a \in Addresses :
       \/ ReadForCreate(c, a) \/ ReadForUpdate(c, a) \/ ReadForDelete(c, a)
       \/ ReadForRequest(c, a)
  \/ ClearDefaults(c) \/ PickHeir(c) \/ Commit(c) \/ Abort(c)
  \/ PlaceRequest(c) \/ Answered(c) \/ TryFails(c)

Next == \E c \in Calls : AddressStep(c)

Spec == Init /\ [][Next]_vars

-----------------------------------------------------------------------------
\* A customer with addresses has one default: the first address is it, a new
\* one takes it over and a deleted one hands it on, unless it is taken away on
\* purpose or another handler changes an address between check and commit.
OneDefault == Live = {} \/ Cardinality(Defaults) = 1

UndisturbedChangesKeepOneDefault ==
  [][ \A c \in Calls :
        /\ calls[c].op \in {"create", "default", "delete"} /\ calls[c].undisturbed
        /\ addresses' # addresses /\ calls'[c].op = "none"
        /\ OneDefault
        => OneDefault' ]_vars

\* Nothing in the database keeps a customer from having several defaults, or
\* none, once handlers have overlapped; the next undisturbed choice of a default
\* puts that right, whatever they have left.
DefaultsAreRepaired ==
  [][ \A c \in Calls :
        /\ calls[c].isDefault /\ calls[c].op # "delete" /\ calls[c].undisturbed
        /\ calls[c].at = "tx" /\ addresses' # addresses /\ calls'[c].op = "none"
        => Defaults' = {calls[c].address} ]_vars

\* A request is placed at an address the customer still has, unless addresses
\* were changed meanwhile, however often it is tried.
RequestsAtLiveAddress ==
  [][ \A c \in Calls :
        calls'[c].placed > calls[c].placed /\ calls[c].undisturbed
          => calls[c].address \in Live ]_vars

=============================================================================
