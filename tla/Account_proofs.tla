--------------------------- MODULE Account_proofs ---------------------------
(***************************************************************************)
(* The addresses of a customer and uploaded files, for any number of them, *)
(* of handlers in flight and of tries.  What is proved of each is proved   *)
(* of the behaviours of Account, which are those of one of the two.        *)
(***************************************************************************)
EXTENDS Account, FiniteSetTheorems, TLAPS

USE AddressesAssumption, NoAddressAssumption, MaxTriesAssumption, NoFileAssumption

-----------------------------------------------------------------------------
(***************************************************************************)
(* Addresses: a handler that has not been disturbed knows the addresses as *)
(* they are, since every change of one disturbs whoever is in flight.      *)
(***************************************************************************)
\* A handler's progress, whatever the others do.
ProgressHolds(call) ==
  /\ call.op # "none" => call.address \in Addresses
  /\ call.at = "read" => call.seen = {}
  /\ call.at = "tx" => call.op = "request" \/ call.isDefault
  /\ call.isDefault => call.op \in {"create", "default", "delete"}
  /\ call.op = "default" => call.isDefault
  /\ call.op = "request" =>
       /\ call.tries < MaxTries /\ call.seen = {}
       /\ call.placed <= (IF call.at = "tx" THEN call.tries + 1 ELSE call.tries)

\* What a handler read still holds, if it has not been disturbed.
ReadHolds(call) ==
  /\ call.op = "create" =>
       /\ call.address \notin Live
       /\ call.isDefault \/ Live # {}
       /\ call.at = "tx" => call.seen = Live
  /\ call.op = "default" =>
       /\ call.address \in Live
       /\ call.at = "tx" => call.seen = Live
  /\ call.op = "delete" =>
       /\ call.address \in Live
       /\ call.isDefault <=> call.address \in Defaults
       /\ call.at = "tx" =>
            \/ call.seen = {} /\ Live = {call.address}
            \/ \E h \in Live \ {call.address} : call.seen = {h}
  /\ call.op = "request" => call.address \in Live

AddressIInv ==
  /\ TypeOK
  /\ \A c \in Calls :
       /\ ProgressHolds(calls[c])
       /\ calls[c].undisturbed => ReadHolds(calls[c])

LEMMA BeginningIs ==
  ASSUME NEW c \in Calls, NEW a \in Addresses, NEW isDefault \in BOOLEAN,
         NEW op \in {"create", "default", "undefault", "delete", "request"},
         Begin(c, op, a, isDefault)
  PROVE  \E new \in CallStates :
           /\ calls' = [calls EXCEPT ![c] = new] /\ addresses' = addresses
           /\ new.op = op /\ new.at = "read" /\ new.address = a
           /\ new.isDefault = isDefault /\ new.seen = {}
           /\ new.tries = 0 /\ new.placed = 0
<1> DEFINE new == [NoCall EXCEPT !.op = op, !.address = a, !.isDefault = isDefault]
<1>1. calls' = [calls EXCEPT ![c] = new] /\ addresses' = addresses
  BY DEF Begin
<1>2. NoCall \in CallStates
  BY DEF NoCall, CallStates
<1>3. new \in CallStates
  BY <1>2 DEF CallStates
<1>4. /\ new.op = op /\ new.at = "read" /\ new.address = a
      /\ new.isDefault = isDefault /\ new.seen = {} /\ new.tries = 0 /\ new.placed = 0
  BY DEF NoCall
<1> HIDE DEF new
<1> QED
  BY <1>1, <1>3, <1>4

\* A handler goes on, or ends, and no address is changed.
LEMMA GoingOnKeeps ==
  ASSUME AddressIInv, NEW c \in Calls, NEW new \in CallStates,
         calls' = [calls EXCEPT ![c] = new], addresses' = addresses,
         ProgressHolds(new), new.undisturbed => ReadHolds(new)
  PROVE  AddressIInv'
<1>1. Live' = Live /\ Defaults' = Defaults
  BY DEF Live, Defaults
<1>2. calls \in [Calls -> CallStates]
  BY DEF AddressIInv, TypeOK
<1>3. TypeOK'
  BY <1>2 DEF AddressIInv, TypeOK
<1>4. ASSUME NEW d \in Calls
      PROVE  (/\ ProgressHolds(calls[d])
              /\ calls[d].undisturbed => ReadHolds(calls[d]))'
  <2>1. CASE d = c
    BY <1>1, <1>2, <2>1 DEF ReadHolds
  <2>2. CASE d # c
    <3>1. calls'[d] = calls[d]
      BY <1>2, <2>2
    <3> QED
      BY <1>1, <3>1 DEF AddressIInv, ReadHolds
  <2> QED
    BY <2>1, <2>2
<1> QED
  BY <1>3, <1>4 DEF AddressIInv, ProgressHolds

\* A handler begins with what it has read.
LEMMA BeginningsKeep ==
  ASSUME AddressIInv, NEW c \in Calls, NEW a \in Addresses, NEW isDefault \in BOOLEAN,
         NEW op \in {"create", "default", "undefault", "delete", "request"},
         Begin(c, op, a, isDefault),
         op = "create" => a \notin Live /\ (isDefault = TRUE \/ Live # {}),
         op # "create" => a \in Live,
         op = "default" => isDefault = TRUE,
         op = "delete" => (isDefault = TRUE <=> a \in Defaults),
         isDefault = TRUE => op \in {"create", "default", "delete"}
  PROVE  AddressIInv'
<1>0. PICK new \in CallStates :
        /\ calls' = [calls EXCEPT ![c] = new] /\ addresses' = addresses
        /\ new.op = op /\ new.at = "read" /\ new.address = a
        /\ new.isDefault = isDefault /\ new.seen = {}
        /\ new.tries = 0 /\ new.placed = 0
  BY BeginningIs
<1>3. ProgressHolds(new) /\ ReadHolds(new)
  BY <1>0 DEF ProgressHolds, ReadHolds
<1> QED
  BY <1>0, <1>3, GoingOnKeeps

LEMMA NothingHolds ==
  NoCall \in CallStates /\ ProgressHolds(NoCall) /\ ReadHolds(NoCall)
BY DEF NoCall, CallStates, ProgressHolds, ReadHolds

LEMMA EndingsKeep ==
  ASSUME AddressIInv, NEW c \in Calls, Finish(c), addresses' = addresses
  PROVE  AddressIInv'
BY NothingHolds, GoingOnKeeps DEF Finish

\* The first statement of a transaction sees the addresses as they are.
LEMMA OpeningsKeep ==
  ASSUME AddressIInv, NEW c \in Calls, ClearDefaults(c) \/ PickHeir(c)
  PROVE  AddressIInv'
<1>1. /\ calls[c] \in CallStates /\ ProgressHolds(calls[c])
      /\ calls[c].undisturbed => ReadHolds(calls[c])
  BY DEF AddressIInv, TypeOK
<1>2. PICK seen \in SUBSET Addresses :
        /\ Open(c, seen) /\ calls[c].isDefault
        /\ \/ calls[c].op \in {"create", "default"} /\ seen = Live
           \/ /\ calls[c].op = "delete"
              /\ \/ seen = {} /\ Live \ {calls[c].address} = {}
                 \/ \E h \in Live \ {calls[c].address} : seen = {h}
  BY DEF ClearDefaults, Cleared, PickHeir, Heirs, Live
<1> DEFINE new == [calls[c] EXCEPT !.at = "tx", !.seen = seen]
<1>3. calls' = [calls EXCEPT ![c] = new] /\ addresses' = addresses
  BY <1>2 DEF Open, AddressIInv, TypeOK
<1>4. /\ new \in CallStates /\ new.op = calls[c].op /\ new.at = "tx"
      /\ new.address = calls[c].address /\ new.isDefault = calls[c].isDefault
      /\ new.seen = seen /\ new.tries = calls[c].tries
      /\ new.placed = calls[c].placed /\ new.undisturbed = calls[c].undisturbed
  BY <1>1 DEF CallStates
<1> HIDE DEF new
<1>5. ProgressHolds(new)
  BY <1>1, <1>2, <1>4 DEF ProgressHolds
<1>6. ASSUME new.undisturbed
      PROVE  ReadHolds(new)
  BY <1>1, <1>2, <1>4, <1>6 DEF ReadHolds
<1> QED
  BY <1>3, <1>4, <1>5, <1>6, GoingOnKeeps

\* A try of a request, its answer or its failure.
LEMMA TriesKeep ==
  ASSUME AddressIInv, NEW c \in Calls, PlaceRequest(c) \/ Answered(c) \/ TryFails(c)
  PROVE  AddressIInv'
<1>1. /\ calls[c] \in CallStates /\ ProgressHolds(calls[c])
      /\ calls[c].undisturbed => ReadHolds(calls[c])
      /\ calls \in [Calls -> CallStates]
  BY DEF AddressIInv, TypeOK
<1>2. ASSUME PlaceRequest(c)
      PROVE  AddressIInv'
  <2> DEFINE new == [calls[c] EXCEPT !.at = "tx", !.placed = @ + 1]
  <2>1. /\ calls' = [calls EXCEPT ![c] = new] /\ addresses' = addresses
        /\ calls[c].op = "request" /\ calls[c].at = "read"
    BY <1>1, <1>2 DEF PlaceRequest
  <2>2. calls[c].placed + 1 \in 0..MaxTries
    BY <1>1, <2>1 DEF ProgressHolds, CallStates
  <2>3. new \in CallStates
    BY <1>1, <2>2 DEF CallStates
  <2>4. ProgressHolds(new) /\ (new.undisturbed => ReadHolds(new))
    BY <1>1, <2>1, <2>2 DEF ProgressHolds, ReadHolds, CallStates
  <2> HIDE DEF new
  <2> QED
    BY <2>1, <2>3, <2>4, GoingOnKeeps
<1>3. ASSUME TryFails(c), calls[c].tries + 1 < MaxTries
      PROVE  AddressIInv'
  <2> DEFINE tries == calls[c].tries + 1
             new == [calls[c] EXCEPT !.at = "read", !.tries = tries]
  <2>1. /\ calls' = [calls EXCEPT ![c] = new] /\ addresses' = addresses
        /\ calls[c].op = "request"
    BY <1>1, <1>3 DEF TryFails, MayTryAgain
  <2>2. tries \in 0..MaxTries /\ calls[c].seen \in SUBSET Addresses
    BY <1>1, <1>3 DEF CallStates
  <2>3. new \in CallStates
    BY <1>1, <2>2 DEF CallStates
  <2>5. ProgressHolds(new) /\ (new.undisturbed => ReadHolds(new))
    BY <1>1, <1>3, <2>1, <2>2 DEF ProgressHolds, ReadHolds, CallStates
  <2> HIDE DEF new
  <2> QED
    BY <2>1, <2>3, <2>5, GoingOnKeeps
<1>4. ASSUME Answered(c) \/ (TryFails(c) /\ ~(calls[c].tries + 1 < MaxTries))
      PROVE  AddressIInv'
  BY <1>4, EndingsKeep DEF Answered, TryFails, MayTryAgain
<1> QED
  BY <1>2, <1>3, <1>4

\* A commit writes addresses, and disturbs every other handler in flight.
LEMMA CommitsKeep ==
  ASSUME AddressIInv, NEW c \in Calls, Commit(c)
  PROVE  AddressIInv'
<1>1. /\ calls \in [Calls -> CallStates]
      /\ addresses \in [Addresses -> {"none", "live", "default"}]
  BY DEF AddressIInv, TypeOK
<1>2. /\ calls[c].op \in {"create", "default", "undefault", "delete"}
      /\ addresses' = After(calls[c])
  BY DEF Commit
<1>3. addresses' \in [Addresses -> {"none", "live", "default"}]
  <2>1. CASE calls[c].op = "create"
    BY <1>1, <1>2, <2>1 DEF After
  <2>2. CASE calls[c].op = "default"
    BY <1>1, <1>2, <2>2 DEF After
  <2>3. CASE calls[c].op = "undefault"
    BY <1>1, <1>2, <2>3 DEF After
  <2>4. CASE calls[c].op = "delete"
    BY <1>1, <1>2, <2>4 DEF After
  <2> QED
    BY <1>2, <2>1, <2>2, <2>3, <2>4
<1>4. calls' = [d \in Calls |-> IF d = c THEN NoCall
                                ELSE [calls[d] EXCEPT !.undisturbed = Idle(d)]]
  BY DEF Commit, FinishCommitted
<1>5. ASSUME NEW d \in Calls
      PROVE  /\ calls'[d] \in CallStates /\ ProgressHolds(calls'[d])
             /\ calls'[d].undisturbed => calls'[d].op = "none"
  <2>1. CASE d = c
    <3>1. calls'[d] = NoCall
      BY <1>4, <2>1
    <3> QED
      BY <3>1, NothingHolds DEF NoCall
  <2>2. CASE d # c
    <3>1. calls'[d] = [calls[d] EXCEPT !.undisturbed = Idle(d)]
      BY <1>4, <2>2
    <3>2. calls[d] \in CallStates /\ ProgressHolds(calls[d])
      BY <1>1 DEF AddressIInv
    <3>3. calls'[d] \in CallStates
      BY <3>1, <3>2 DEF CallStates, Idle
    <3>4. /\ calls'[d].op = calls[d].op /\ calls'[d].at = calls[d].at
          /\ calls'[d].address = calls[d].address /\ calls'[d].seen = calls[d].seen
          /\ calls'[d].isDefault = calls[d].isDefault
          /\ calls'[d].tries = calls[d].tries /\ calls'[d].placed = calls[d].placed
          /\ calls'[d].undisturbed = Idle(d)
      BY <3>1, <3>2 DEF CallStates
    <3> QED
      BY <3>2, <3>3, <3>4 DEF ProgressHolds, Idle
  <2> QED
    BY <2>1, <2>2
<1>6. TypeOK'
  <2>1. calls' = [d \in Calls |-> calls'[d]]
    BY <1>4
  <2> QED
    BY <1>3, <1>5, <2>1 DEF TypeOK
<1> QED
  BY <1>5, <1>6 DEF AddressIInv, ProgressHolds, ReadHolds

LEMMA AddressInductive ==
  /\ Init => AddressIInv
  /\ AddressIInv /\ [Next]_vars => AddressIInv'
<1>1. Init => AddressIInv
  BY NothingHolds DEF Init, AddressIInv, TypeOK, NoCall, ProgressHolds, ReadHolds
<1>2. ASSUME AddressIInv, NEW c \in Calls, AddressStep(c)
      PROVE  AddressIInv'
  <2>1. ASSUME NEW a \in Addresses, ReadForCreate(c, a)
        PROVE  AddressIInv'
    <3>1. PICK wanted \in BOOLEAN : Begin(c, "create", a, wanted \/ Live = {})
      BY <2>1 DEF ReadForCreate
    <3>2. a \notin Live
      BY <2>1 DEF ReadForCreate, Unused
    <3>3. CASE wanted \/ Live = {}
      <4>1. Begin(c, "create", a, TRUE)
        BY <3>1, <3>3
      <4> QED
        BY <1>2, <3>2, <4>1, BeginningsKeep
    <3>4. CASE ~(wanted \/ Live = {})
      <4>1. Begin(c, "create", a, FALSE)
        BY <3>1, <3>4
      <4> QED
        BY <1>2, <3>2, <3>4, <4>1, BeginningsKeep
    <3> QED
      BY <3>3, <3>4
  <2>2. ASSUME NEW a \in Addresses, ReadForUpdate(c, a)
        PROVE  AddressIInv'
    BY <1>2, <2>2, BeginningsKeep DEF ReadForUpdate
  <2>3. ASSUME NEW a \in Addresses, ReadForDelete(c, a)
        PROVE  AddressIInv'
    <3>1. CASE a \in Defaults
      <4>1. Begin(c, "delete", a, TRUE)
        BY <2>3, <3>1 DEF ReadForDelete
      <4> QED
        BY <1>2, <2>3, <3>1, <4>1, BeginningsKeep DEF ReadForDelete
    <3>2. CASE a \notin Defaults
      <4>1. Begin(c, "delete", a, FALSE)
        <5>1. (a \in Defaults) = FALSE
          BY <3>2
        <5> QED
          BY <2>3, <5>1 DEF ReadForDelete
      <4> QED
        BY <1>2, <2>3, <3>2, <4>1, BeginningsKeep DEF ReadForDelete
    <3> QED
      BY <3>1, <3>2
  <2>4. ASSUME NEW a \in Addresses, ReadForRequest(c, a)
        PROVE  AddressIInv'
    BY <1>2, <2>4, BeginningsKeep DEF ReadForRequest, Selectable
  <2>5. CASE Abort(c)
    BY <1>2, <2>5, EndingsKeep DEF Abort
  <2> QED
    BY <1>2, <2>1, <2>2, <2>3, <2>4, <2>5, OpeningsKeep, CommitsKeep, TriesKeep
       DEF AddressStep
<1>3. AddressIInv /\ UNCHANGED vars => AddressIInv'
  BY DEF AddressIInv, TypeOK, vars, ProgressHolds, ReadHolds, Live, Defaults
<1> QED
  BY <1>1, <1>2, <1>3 DEF Next

-----------------------------------------------------------------------------
\* What an undisturbed commit leaves, by what it was asked for.
LEMMA CommitLeaves ==
  ASSUME AddressIInv, NEW c \in Calls, Commit(c), calls[c].undisturbed,
         calls[c].op \in {"create", "default", "delete"}
  PROVE  IF calls[c].op # "delete" /\ calls[c].isDefault
         THEN Defaults' = {calls[c].address}
         ELSE /\ calls[c].op = "delete" => Live' = Live \ {calls[c].address}
              /\ Defaults' = (Defaults \ {calls[c].address}) \cup calls[c].seen
              /\ calls[c].isDefault => calls[c].op = "delete"
              /\ calls[c].op = "delete" =>
                   (calls[c].isDefault <=> calls[c].address \in Defaults)
              /\ calls[c].op = "create" =>
                   calls[c].address \notin Live /\ Live # {}
              /\ IF calls[c].isDefault
                 THEN \/ Live' = {} /\ calls[c].seen = {}
                      \/ \E h \in Addresses : calls[c].seen = {h}
                 ELSE calls[c].seen = {}
<1> DEFINE call == calls[c]
<1>1. /\ call \in CallStates /\ ProgressHolds(call) /\ ReadHolds(call)
      /\ addresses \in [Addresses -> {"none", "live", "default"}]
  BY DEF AddressIInv, TypeOK
<1>2. /\ addresses' = After(call)
      /\ call.isDefault => call.at = "tx"
  BY DEF Commit
<1>3. call.address \in Addresses
  BY <1>1 DEF ProgressHolds
<1> HIDE DEF call
<1>4. CASE call.op = "create"
  <2>1. \A b \in Addresses :
          addresses'[b] = IF b = call.address
                          THEN IF call.isDefault THEN "default" ELSE "live"
                          ELSE IF b \in call.seen \cap Defaults THEN "live"
                          ELSE addresses[b]
    BY <1>2, <1>4 DEF After
  <2>2. CASE call.isDefault
    <3>1. call.seen = Live
      BY <1>1, <1>2, <1>4, <2>2 DEF ReadHolds
    <3>2. Defaults' = {call.address}
      BY <1>1, <1>3, <2>1, <2>2, <3>1 DEF Defaults, Live
    <3> QED
      BY <1>4, <2>2, <3>2 DEF call
  <2>3. CASE ~call.isDefault
    <3>1. call.seen = {} /\ call.address \notin Live /\ Live # {}
      BY <1>1, <1>4, <2>3 DEF ReadHolds, ProgressHolds, CallStates
    <3>2. Defaults' = Defaults \ {call.address}
      BY <1>1, <1>3, <2>1, <2>3, <3>1 DEF Defaults
    <3> QED
      BY <1>4, <2>3, <3>1, <3>2 DEF call
  <2> QED
    BY <2>2, <2>3
<1>5. CASE call.op = "default"
  <2>1. call.isDefault /\ call.seen = Live /\ call.address \in Live
    BY <1>1, <1>2, <1>5 DEF ReadHolds, ProgressHolds
  <2>2. \A b \in Addresses :
          addresses'[b] = IF b = call.address THEN "default"
                          ELSE IF b \in call.seen \cap Defaults THEN "live"
                          ELSE addresses[b]
    BY <1>2, <1>5, <2>1 DEF After
  <2>3. Defaults' = {call.address}
    BY <1>1, <1>3, <2>1, <2>2 DEF Defaults, Live
  <2> QED
    BY <1>5, <2>1, <2>3 DEF call
<1>6. CASE call.op = "delete"
  <2>1. /\ call.address \in Live
        /\ call.isDefault <=> call.address \in Defaults
        /\ IF call.isDefault
           THEN \/ call.seen = {} /\ Live = {call.address}
                \/ \E h \in Live \ {call.address} : call.seen = {h}
           ELSE call.seen = {}
    BY <1>1, <1>2, <1>6 DEF ReadHolds, ProgressHolds, CallStates
  <2>2. call.seen \subseteq Live \ {call.address}
    BY <2>1
  <2>3. \A b \in Addresses :
          addresses'[b] = IF b = call.address THEN "none"
                          ELSE IF b \in call.seen THEN "default"
                          ELSE addresses[b]
    BY <1>2, <1>6, <2>2 DEF After
  <2>4. /\ Live' = Live \ {call.address}
        /\ Defaults' = (Defaults \ {call.address}) \cup call.seen
    BY <1>1, <2>2, <2>3 DEF Live, Defaults
  <2>5. Live \subseteq Addresses
    BY DEF Live
  <2> QED
    BY <1>6, <2>1, <2>4, <2>5 DEF call
<1> QED
  BY <1>4, <1>5, <1>6 DEF call

\* The step that changes an address and ends a call is the call's commit.
LEMMA ChangesAreCommits ==
  ASSUME AddressIInv, [Next]_vars, NEW c \in Calls, calls[c].op # "none",
         addresses' # addresses, calls'[c].op = "none"
  PROVE  Commit(c)
<1>1. PICK d \in Calls : AddressStep(d)
  BY DEF Next, vars
<1>2. Commit(d)
  BY <1>1 DEF AddressStep, ReadForCreate, ReadForUpdate, ReadForDelete, ReadForRequest,
              Begin, ClearDefaults, PickHeir, Open, PlaceRequest, Answered, TryFails, Abort
<1>3. CASE d # c
  <2>1. calls'[c] = [calls[c] EXCEPT !.undisturbed = Idle(c)]
    BY <1>2, <1>3 DEF Commit, FinishCommitted
  <2>2. calls'[c].op = calls[c].op
    BY <2>1 DEF AddressIInv, TypeOK, CallStates
  <2> QED
    BY <2>2
<1> QED
  BY <1>2, <1>3

\* A change that nothing disturbs keeps one default.
LEMMA OneDefaultKept ==
  ASSUME AddressIInv, NEW c \in Calls, Commit(c), calls[c].undisturbed,
         calls[c].op \in {"create", "default", "delete"}, OneDefault
  PROVE  OneDefault'
<1> DEFINE a == calls[c].address
<1>1. \A x : Cardinality({x}) = 1
  BY FS_Singleton
<1>2. IsFiniteSet(Defaults)
  BY FS_Subset DEF Defaults
<1>3. Live # {} => \E x : Defaults = {x}
  BY <1>2, FS_Singleton DEF OneDefault
<1>4. SUFFICES Live' = {} \/ \E x : Defaults' = {x}
  BY <1>1 DEF OneDefault
<1>5. CASE calls[c].op # "delete" /\ calls[c].isDefault
  BY <1>5, CommitLeaves
<1>6. CASE ~(calls[c].op # "delete" /\ calls[c].isDefault)
  <2>1. Defaults \subseteq Live
    BY DEF Defaults, Live
  <2>2. CASE calls[c].op = "delete" /\ calls[c].isDefault
    <3>1. Defaults = {a}
      BY <1>3, <2>1, <2>2, CommitLeaves
    <3>2. Live' = {} \/ \E h : calls[c].seen = {h}
      BY <2>2, CommitLeaves
    <3>3. Defaults' = calls[c].seen
      BY <2>2, <3>1, CommitLeaves
    <3> QED
      BY <3>2, <3>3
  <2>3. CASE ~calls[c].isDefault
    <3>0. calls[c].op # "default"
      BY <2>3 DEF AddressIInv, ProgressHolds
    <3>1. a \notin Defaults /\ Defaults' = Defaults
      BY <1>6, <2>1, <2>3, <3>0, CommitLeaves
    <3>2. CASE calls[c].op = "create"
      BY <1>3, <2>3, <3>1, <3>2, CommitLeaves
    <3>3. CASE calls[c].op = "delete"
      BY <1>3, <2>1, <2>3, <3>1, <3>3, CommitLeaves
    <3> QED
      BY <3>0, <3>2, <3>3
  <2> QED
    BY <1>6, <2>2, <2>3
<1> QED
  BY <1>5, <1>6

-----------------------------------------------------------------------------
(***************************************************************************)
(* Files: an upload has its file to itself until its row is there, and a   *)
(* file without a row, or a row without a file, is the matter of a call    *)
(* that will see to it or report it lost.                                  *)
(***************************************************************************)
Uploading(call) == call.op \in {"attach", "avatar"}

\* A call's operation, how far it is and what it holds.
FileCallHolds(call) ==
  /\ call.op = "none" => call.at = "read"
  /\ call.op = "attach" => call.at = "stored" /\ call.previous = NoFile
  /\ call.op \in {"detach", "remove"} =>
       call.at \in {"read", "unlinked"} /\ call.previous = NoFile
  /\ call.op = "avatar" =>
       /\ call.at \in {"stored", "picked", "unlinked"}
       /\ call.at = "picked" => call.previous # NoFile
       /\ call.previous # call.file
  /\ call.op # "none" => call.file \in Files

\* The file of an upload has no row, is held by no other call, and is stored
\* unless somebody has interfered through /storage.
UploadsHold ==
  \A c \in FileCalls : Uploading(fileCalls[c]) =>
    /\ fileCalls[c].file \in stored \cup loose
    /\ rows[fileCalls[c].file] = "none"
    /\ \A d \in FileCalls \ {c} : fileCalls[c].file \notin Uploads!Held(d)

\* What a call has unlinked is gone, unless the provider kept it.
Unlinked(call) ==
  IF call.at # "unlinked" THEN {}
  ELSE {IF call.op = "avatar" THEN call.previous ELSE call.file} \ {NoFile}

UnlinkedAreGone ==
  \A c \in FileCalls : Unlinked(fileCalls[c]) \cap stored \subseteq loose

\* An attachment's row does not turn into an avatar's under its deletion.
DetachesHold ==
  \A c \in FileCalls :
    fileCalls[c].op = "detach" => rows[fileCalls[c].file] # "avatar"

Matter(call) == Unlinked(call) \cup (IF Uploading(call) THEN {call.file} ELSE {})

MismatchesAreSeenTo ==
  \A f \in Files \ loose :
    (f \in stored) # (rows[f] # "none") =>
      \E c \in FileCalls : f \in Matter(fileCalls[c])

FilesIInv ==
  /\ Uploads!TypeOK
  /\ \A c \in FileCalls : FileCallHolds(fileCalls[c])
  /\ UploadsHold
  /\ UnlinkedAreGone
  /\ DetachesHold
  /\ MismatchesAreSeenTo
  /\ ImageHasAvatar

\* What the proofs use of the types.
LEMMA FileTypes ==
  ASSUME FilesIInv
  PROVE  /\ fileCalls \in [FileCalls -> Uploads!CallStates]
         /\ rows \in [Files -> {"none", "attachment", "avatar"}]
         /\ stored \subseteq Files /\ loose \subseteq Files
         /\ profileImage \in Files \cup {NoFile} /\ given \in BOOLEAN
         /\ Uploads!NoCall \in Uploads!CallStates
         /\ FileCallHolds(Uploads!NoCall)
         /\ ~Uploading(Uploads!NoCall) /\ Unlinked(Uploads!NoCall) = {}
         /\ Matter(Uploads!NoCall) = {}
BY DEF FilesIInv, Uploads!TypeOK, Uploads!NoCall, Uploads!CallStates, FileCallHolds,
       Uploading, Unlinked, Matter

\* A call goes on, or ends: what its new state must satisfy.
LEMMA FileCallsKeep ==
  ASSUME FilesIInv, NEW c \in FileCalls, NEW new \in Uploads!CallStates,
         fileCalls' = [fileCalls EXCEPT ![c] = new], FileCallHolds(new)
  PROVE  /\ fileCalls' \in [FileCalls -> Uploads!CallStates]
         /\ \A d \in FileCalls : FileCallHolds(fileCalls[d])'
         /\ fileCalls'[c] = new
         /\ \A d \in FileCalls \ {c} : fileCalls'[d] = fileCalls[d]
<1>1. fileCalls \in [FileCalls -> Uploads!CallStates]
  BY FileTypes
<1>2. /\ fileCalls' \in [FileCalls -> Uploads!CallStates]
      /\ fileCalls'[c] = new
      /\ \A d \in FileCalls \ {c} : fileCalls'[d] = fileCalls[d]
  BY <1>1
<1>3. \A d \in FileCalls : FileCallHolds(fileCalls[d])
  BY DEF FilesIInv
<1>4. \A d \in FileCalls : FileCallHolds(fileCalls'[d])
  BY <1>2, <1>3
<1> QED
  BY <1>2, <1>4 DEF FileCallHolds

\* An upload writes its file, which nothing refers to.
LEMMA StoringKeeps ==
  ASSUME FilesIInv, NEW c \in FileCalls, NEW f \in Files, NEW op \in {"attach", "avatar"},
         Uploads!StoreFile(c, op, f)
  PROVE  FilesIInv'
<1> DEFINE new == [ op |-> op, at |-> "stored", file |-> f, previous |-> NoFile ]
<1>1. /\ fileCalls[c].op = "none"
      /\ f \notin stored /\ rows[f] = "none"
      /\ \A d \in FileCalls : f \notin Uploads!Held(d)
      /\ stored' = stored \cup {f} /\ loose' = loose \ {f}
      /\ fileCalls' = [fileCalls EXCEPT ![c] = new]
      /\ UNCHANGED <<rows, profileImage, given>>
  BY DEF Uploads!StoreFile, Uploads!Idle, Uploads!Unused
<1>2. new \in Uploads!CallStates /\ FileCallHolds(new)
  BY DEF Uploads!CallStates, FileCallHolds
<1>3. /\ fileCalls' \in [FileCalls -> Uploads!CallStates]
      /\ \A d \in FileCalls : FileCallHolds(fileCalls[d])'
      /\ fileCalls'[c] = new
      /\ \A d \in FileCalls \ {c} : fileCalls'[d] = fileCalls[d]
  BY <1>1, <1>2, FileCallsKeep
<1>4. Uploads!TypeOK'
  BY <1>1, <1>3, FileTypes DEF Uploads!TypeOK
<1>5. \A d \in FileCalls : f # fileCalls[d].file /\ f \notin Unlinked(fileCalls[d])
  BY <1>1 DEF Uploads!Held, Unlinked
<1>6. UploadsHold'
  BY <1>1, <1>3, <1>5 DEF FilesIInv, UploadsHold, Uploading, Uploads!Held
<1>7. UnlinkedAreGone'
  BY <1>1, <1>3, <1>5 DEF FilesIInv, UnlinkedAreGone, Unlinked
<1>8. DetachesHold' /\ ImageHasAvatar'
  BY <1>1, <1>3 DEF FilesIInv, DetachesHold, ImageHasAvatar, Uploads!ImageHasAvatar
<1>9. MismatchesAreSeenTo'
  <2>1. f \in Matter(fileCalls'[c])
    BY <1>3 DEF Uploading, Matter
  <2>2. Matter(fileCalls[c]) = {}
    BY <1>1 DEF FilesIInv, FileCallHolds, Uploading, Unlinked, Matter
  <2>3. ASSUME NEW g \in Files \ loose, (g \in stored) # (rows[g] # "none")
        PROVE  \E d \in FileCalls \ {c} : g \in Matter(fileCalls[d])
    BY <2>2, <2>3 DEF FilesIInv, MismatchesAreSeenTo
  <2>4. ASSUME NEW g \in Files \ loose', g # f, (g \in stored') # (rows'[g] # "none")
        PROVE  \E d \in FileCalls \ {c} : g \in Matter(fileCalls'[d])
    BY <1>1, <1>3, <2>3, <2>4
  <2> QED
    BY <2>1, <2>4 DEF MismatchesAreSeenTo, Matter, Unlinked, Uploading
<1> QED
  BY <1>3, <1>4, <1>6, <1>7, <1>8, <1>9 DEF FilesIInv

\* The row of an attachment, whose file nobody else has.
LEMMA AttachingKeeps ==
  ASSUME FilesIInv, NEW c \in FileCalls, Uploads!CreateAttachment(c)
  PROVE  FilesIInv'
<1> DEFINE f == fileCalls[c].file
<1>1. /\ fileCalls[c].op = "attach"
      /\ rows' = [rows EXCEPT ![f] = "attachment"]
      /\ fileCalls' = [fileCalls EXCEPT ![c] = Uploads!NoCall]
      /\ UNCHANGED <<stored, profileImage, given, loose>>
  BY DEF Uploads!CreateAttachment, Uploads!Finish
<1>2. /\ f \in Files /\ f \in stored \cup loose /\ rows[f] = "none"
      /\ \A d \in FileCalls \ {c} : f \notin Uploads!Held(d)
      /\ fileCalls[c].at # "unlinked"
  BY <1>1 DEF FilesIInv, FileCallHolds, UploadsHold, Uploading
<1>3. /\ fileCalls' \in [FileCalls -> Uploads!CallStates]
      /\ \A d \in FileCalls : FileCallHolds(fileCalls[d])'
      /\ fileCalls'[c] = Uploads!NoCall
      /\ \A d \in FileCalls \ {c} : fileCalls'[d] = fileCalls[d]
  BY <1>1, FileTypes, FileCallsKeep
<1>4. \A d \in FileCalls \ {c} : f # fileCalls[d].file
  BY <1>2 DEF Uploads!Held
<1> HIDE DEF f
<1>5. rows' \in [Files -> {"none", "attachment", "avatar"}]
  BY <1>1, <1>2, FileTypes
<1>6. Uploads!TypeOK'
  BY <1>1, <1>3, <1>5, FileTypes DEF Uploads!TypeOK
<1>7. ASSUME NEW d \in FileCalls
      PROVE  /\ Uploading(fileCalls'[d]) => d # c /\ Uploading(fileCalls[d])
             /\ Uploads!Held(d)' \subseteq Uploads!Held(d)
             /\ Unlinked(fileCalls'[d]) \subseteq Unlinked(fileCalls[d])
  BY <1>3, FileTypes DEF Uploads!Held, Uploads!NoCall
<1>8. UploadsHold'
  BY <1>1, <1>3, <1>4, <1>7, FileTypes DEF FilesIInv, UploadsHold, Uploading
<1>9. UnlinkedAreGone'
  BY <1>1, <1>7 DEF FilesIInv, UnlinkedAreGone, Unlinked
<1>10. DetachesHold'
  BY <1>1, <1>3, <1>4, FileTypes DEF FilesIInv, DetachesHold, Uploads!NoCall
<1>11. ImageHasAvatar'
  BY <1>1, <1>2, FileTypes DEF FilesIInv, ImageHasAvatar, Uploads!ImageHasAvatar
<1>12. MismatchesAreSeenTo'
  <2>1. ASSUME NEW g \in Files \ loose, g # f, (g \in stored) # (rows[g] # "none")
        PROVE  \E d \in FileCalls \ {c} : g \in Matter(fileCalls[d])
    <3>1. Matter(fileCalls[c]) \subseteq {f}
      BY <1>2 DEF Matter, Unlinked, f
    <3> QED
      BY <2>1, <3>1 DEF FilesIInv, MismatchesAreSeenTo
  <2>2. ASSUME NEW g \in Files \ loose', (g \in stored') # (rows'[g] # "none")
        PROVE  \E d \in FileCalls : g \in Matter(fileCalls'[d])
    BY <1>1, <1>2, <1>3, <2>1, <2>2, FileTypes
  <2> QED
    BY <2>2 DEF MismatchesAreSeenTo, Matter, Unlinked, Uploading
<1> QED
  BY <1>3, <1>6, <1>8, <1>9, <1>10, <1>11, <1>12 DEF FilesIInv

\* A call reads, or fails, and what it lets go of is reported lost.
LEMMA LettingGoKeeps ==
  ASSUME FilesIInv, NEW c \in FileCalls, NEW new \in Uploads!CallStates,
         fileCalls' = [fileCalls EXCEPT ![c] = new],
         UNCHANGED <<stored, rows, profileImage, given>>,
         loose \subseteq loose', loose' \subseteq Files,
         FileCallHolds(new),
         Uploading(new) => Uploading(fileCalls[c]) /\ new.file = fileCalls[c].file,
         \A f \in {new.file, new.previous} \ {NoFile} :
           f \in Uploads!Held(c) \/ rows[f] # "none",
         Unlinked(new) \subseteq Unlinked(fileCalls[c]),
         new.op = "detach" => rows[new.file] # "avatar",
         Matter(fileCalls[c]) \subseteq Matter(new) \cup loose'
  PROVE  FilesIInv'
<1>1. /\ fileCalls' \in [FileCalls -> Uploads!CallStates]
      /\ \A d \in FileCalls : FileCallHolds(fileCalls[d])'
      /\ fileCalls'[c] = new
      /\ \A d \in FileCalls \ {c} : fileCalls'[d] = fileCalls[d]
  BY FileCallsKeep
<1>2. Uploads!TypeOK'
  BY <1>1, FileTypes DEF Uploads!TypeOK
<1>3. UploadsHold'
  <2>1. \A d \in FileCalls :
          Uploading(fileCalls'[d]) =>
            Uploading(fileCalls[d]) /\ fileCalls'[d].file = fileCalls[d].file
    BY <1>1
  <2>2. \A d \in FileCalls, f \in Files :
          rows[f] = "none" /\ f \notin Uploads!Held(d) => f \notin Uploads!Held(d)'
    BY <1>1 DEF Uploads!Held
  <2>3. \A d \in FileCalls : Uploading(fileCalls[d]) => fileCalls[d].file \in Files
    BY DEF FilesIInv, FileCallHolds, Uploading
  <2> QED
    BY <2>1, <2>2, <2>3 DEF FilesIInv, UploadsHold, Uploading
<1>4. UnlinkedAreGone'
  <2>1. \A d \in FileCalls : Unlinked(fileCalls'[d]) \subseteq Unlinked(fileCalls[d])
    BY <1>1
  <2> QED
    BY <2>1 DEF FilesIInv, UnlinkedAreGone, Unlinked
<1>5. DetachesHold' /\ ImageHasAvatar'
  BY <1>1 DEF FilesIInv, DetachesHold, ImageHasAvatar, Uploads!ImageHasAvatar
<1>6. MismatchesAreSeenTo'
  <2>1. ASSUME NEW g \in Files \ loose', (g \in stored) # (rows[g] # "none")
        PROVE  \E d \in FileCalls : g \in Matter(fileCalls'[d])
    BY <1>1, <2>1 DEF FilesIInv, MismatchesAreSeenTo
  <2> QED
    BY <2>1 DEF MismatchesAreSeenTo, Matter, Unlinked, Uploading
<1> QED
  BY <1>1, <1>2, <1>3, <1>4, <1>5, <1>6 DEF FilesIInv

LEMMA DeletionsBegin ==
  ASSUME FilesIInv, NEW c \in FileCalls, NEW f \in Files, Uploads!ReadForDelete(c, f)
  PROVE  FilesIInv'
<1> DEFINE op == IF rows[f] = "avatar" THEN "remove" ELSE "detach"
           new == [ op |-> op, at |-> "read", file |-> f, previous |-> NoFile ]
<1>1. /\ fileCalls[c].op = "none" /\ rows[f] # "none"
      /\ fileCalls' = [fileCalls EXCEPT ![c] = new]
      /\ UNCHANGED <<stored, rows, profileImage, given, loose>>
  BY DEF Uploads!ReadForDelete, Uploads!Idle
<1>2. new \in Uploads!CallStates /\ FileCallHolds(new)
  BY DEF Uploads!CallStates, FileCallHolds
<1>3. ~Uploading(new) /\ Unlinked(new) = {}
  BY DEF Uploading, Unlinked
<1>4. Matter(fileCalls[c]) = {}
  BY <1>1 DEF FilesIInv, FileCallHolds, Uploading, Unlinked, Matter
<1>5. \A g \in {new.file, new.previous} \ {NoFile} : rows[g] # "none"
  BY <1>1
<1>6. new.op = "detach" => rows[new.file] # "avatar"
  OBVIOUS
<1> HIDE DEF new
<1> QED
  BY <1>1, <1>2, <1>3, <1>4, <1>5, <1>6, FileTypes, LettingGoKeeps

LEMMA PickingKeeps ==
  ASSUME FilesIInv, NEW c \in FileCalls, Uploads!PickPrevious(c)
  PROVE  FilesIInv'
<1>1. PICK previous \in Files \cup {NoFile} :
        /\ previous # NoFile => rows[previous] # "none"
        /\ fileCalls' = [fileCalls EXCEPT ![c] =
             [ op |-> "avatar",
               at |-> IF previous = NoFile THEN "unlinked" ELSE "picked",
               file |-> @.file, previous |-> previous ]]
  BY DEF Uploads!PickPrevious, Uploads!Avatars
<1> DEFINE new == [ op |-> "avatar",
                    at |-> IF previous = NoFile THEN "unlinked" ELSE "picked",
                    file |-> fileCalls[c].file, previous |-> previous ]
<1>2. /\ fileCalls[c].op = "avatar" /\ fileCalls[c].at = "stored"
      /\ UNCHANGED <<stored, rows, profileImage, given, loose>>
  BY DEF Uploads!PickPrevious
<1>3. fileCalls' = [fileCalls EXCEPT ![c] = new]
  BY <1>1, FileTypes
<1>4. fileCalls[c].file \in Files /\ rows[fileCalls[c].file] = "none"
  BY <1>2 DEF FilesIInv, FileCallHolds, UploadsHold, Uploading
<1>5. new \in Uploads!CallStates /\ FileCallHolds(new)
  BY <1>1, <1>4 DEF Uploads!CallStates, FileCallHolds
<1>6. /\ Uploading(fileCalls[c]) /\ new.file = fileCalls[c].file
      /\ Unlinked(new) = {}
      /\ Matter(fileCalls[c]) \subseteq Matter(new)
      /\ new.op # "detach"
      /\ \A f \in {new.file, new.previous} \ {NoFile} :
           f \in Uploads!Held(c) \/ rows[f] # "none"
  BY <1>1, <1>2 DEF Uploading, Unlinked, Matter, Uploads!Held
<1> HIDE DEF new
<1> QED
  BY <1>2, <1>3, <1>5, <1>6, FileTypes, LettingGoKeeps

LEMMA FailuresKeep ==
  ASSUME FilesIInv, NEW c \in FileCalls, Uploads!Fail(c)
  PROVE  FilesIInv'
<1> DEFINE new == Uploads!NoCall
<1>1. /\ fileCalls[c].op # "none"
      /\ fileCalls' = [fileCalls EXCEPT ![c] = new]
      /\ UNCHANGED <<stored, rows, profileImage, given>>
      /\ loose' = loose
           \cup (IF fileCalls[c].op \in {"attach", "avatar"} THEN {fileCalls[c].file} ELSE {})
           \cup (IF fileCalls[c].at = "unlinked" THEN Uploads!Held(c) ELSE {})
  BY DEF Uploads!Fail, Uploads!Idle, Uploads!Finish
<1>2. fileCalls[c].file \in Files /\ Uploads!Held(c) \subseteq Files
  BY <1>1, FileTypes DEF FilesIInv, FileCallHolds, Uploads!Held, Uploads!CallStates
<1>3. loose \subseteq loose' /\ loose' \subseteq Files
  BY <1>1, <1>2, FileTypes
<1>4. Matter(fileCalls[c]) \subseteq loose'
  BY <1>1 DEF Matter, Uploading, Unlinked, Uploads!Held
<1>5. /\ new.op # "detach" /\ {new.file, new.previous} \ {NoFile} = {}
  BY DEF Uploads!NoCall
<1> HIDE DEF new
<1>6. /\ new \in Uploads!CallStates /\ FileCallHolds(new)
      /\ ~Uploading(new) /\ Unlinked(new) = {}
  BY FileTypes DEF new
<1> QED
  BY <1>1, <1>3, <1>4, <1>5, <1>6, LettingGoKeeps

\* A call unlinks what it is to delete or to replace.
LEMMA UnlinkingKeeps ==
  ASSUME FilesIInv, NEW c \in FileCalls,
         Uploads!UnlinkDeleted(c) \/ Uploads!UnlinkPrevious(c)
  PROVE  FilesIInv'
<1> DEFINE call == fileCalls[c]
           f == IF call.op = "avatar" THEN call.previous ELSE call.file
           new == [ op |-> call.op, at |-> "unlinked", file |-> call.file,
                    previous |-> call.previous ]
<1>1. /\ call.op \in {"detach", "remove", "avatar"}
      /\ call.at # "unlinked"
      /\ fileCalls' = [fileCalls EXCEPT ![c] = new]
      /\ \/ stored' = stored \ {f} /\ loose' = loose
         \/ stored' = stored /\ loose' = loose \cup {f}
      /\ UNCHANGED <<rows, profileImage, given>>
  BY FileTypes DEF Uploads!UnlinkDeleted, Uploads!UnlinkPrevious, Uploads!Unlink
<1>2. call \in Uploads!CallStates /\ FileCallHolds(call)
  BY FileTypes DEF FilesIInv
<1>3. f \in Files /\ f \in Uploads!Held(c) /\ f # NoFile
  <2>1. CASE call.op = "avatar"
    <3>1. call.at = "picked"
      BY <2>1 DEF Uploads!UnlinkDeleted, Uploads!UnlinkPrevious
    <3> QED
      BY <1>2, <2>1, <3>1 DEF FileCallHolds, Uploads!CallStates, Uploads!Held
  <2>2. CASE call.op # "avatar"
    BY <1>1, <1>2, <2>2 DEF FileCallHolds, Uploads!Held
  <2> QED
    BY <2>1, <2>2
<1>4. new \in Uploads!CallStates /\ FileCallHolds(new)
  BY <1>1, <1>2, <1>3 DEF Uploads!CallStates, FileCallHolds
<1>5. /\ new.op = call.op /\ new.file = call.file
      /\ {new.file, new.previous} = {call.file, call.previous}
      /\ Unlinked(new) = {f}
      /\ Uploading(new) <=> Uploading(call)
      /\ call.op = "avatar" => call.file # f
  BY <1>1, <1>2, <1>3 DEF Unlinked, Uploading, FileCallHolds
<1>6. Matter(call) \subseteq Matter(new)
  BY <1>1, <1>5 DEF Matter, Unlinked
<1>7. /\ fileCalls' \in [FileCalls -> Uploads!CallStates]
      /\ \A d \in FileCalls : FileCallHolds(fileCalls[d])'
      /\ fileCalls'[c] = new
      /\ \A d \in FileCalls \ {c} : fileCalls'[d] = fileCalls[d]
  BY <1>1, <1>4, FileCallsKeep
<1> HIDE DEF new, f
<1>8. Uploads!TypeOK'
  BY <1>1, <1>3, <1>7, FileTypes DEF Uploads!TypeOK
<1>9. UploadsHold'
  <2>1. ASSUME NEW d \in FileCalls, Uploading(fileCalls[d])
        PROVE  fileCalls[d].file # f
    <3>1. CASE d = c
      BY <1>1, <1>5, <2>1, <3>1 DEF Uploading
    <3>2. CASE d # c
      BY <1>3, <2>1, <3>2 DEF FilesIInv, UploadsHold
    <3> QED
      BY <3>1, <3>2
  <2>2. \A d \in FileCalls : Uploads!Held(d)' = Uploads!Held(d)
    BY <1>5, <1>7 DEF Uploads!Held
  <2>3. \A d \in FileCalls :
          /\ fileCalls'[d].file = fileCalls[d].file
          /\ Uploading(fileCalls'[d]) <=> Uploading(fileCalls[d])
    BY <1>5, <1>7
  <2> QED
    BY <1>1, <2>1, <2>2, <2>3 DEF FilesIInv, UploadsHold, Uploading
<1>10. UnlinkedAreGone'
  BY <1>1, <1>5, <1>7 DEF FilesIInv, UnlinkedAreGone, Unlinked
<1>11. DetachesHold' /\ ImageHasAvatar'
  BY <1>1, <1>5, <1>7 DEF FilesIInv, DetachesHold, ImageHasAvatar, Uploads!ImageHasAvatar
<1>12. MismatchesAreSeenTo'
  <2>1. \A d \in FileCalls : Matter(fileCalls[d]) \subseteq Matter(fileCalls'[d])
    BY <1>6, <1>7
  <2>2. f \in Matter(fileCalls'[c])
    BY <1>5, <1>7 DEF Matter
  <2>3. ASSUME NEW g \in Files \ loose', (g \in stored') # (rows'[g] # "none")
        PROVE  \E d \in FileCalls : g \in Matter(fileCalls'[d])
    BY <1>1, <2>1, <2>2, <2>3 DEF FilesIInv, MismatchesAreSeenTo
  <2> QED
    BY <2>3 DEF MismatchesAreSeenTo, Matter, Unlinked, Uploading
<1> QED
  BY <1>7, <1>8, <1>9, <1>10, <1>11, <1>12 DEF FilesIInv

\* A call writes its last rows: the row of what it unlinked goes, and that of an
\* avatar comes.
LEMMA WritingKeeps ==
  ASSUME FilesIInv, NEW c \in FileCalls, Uploads!DeleteRow(c) \/ Uploads!CommitAvatar(c)
  PROVE  FilesIInv'
<1> DEFINE call == fileCalls[c]
           new == Uploads!NoCall
<1>1. /\ call \in Uploads!CallStates /\ FileCallHolds(call)
      /\ call.file \in Files
      /\ call.at = "unlinked" /\ call.op \in {"detach", "remove", "avatar"}
      /\ fileCalls' = [fileCalls EXCEPT ![c] = new]
      /\ UNCHANGED <<stored, loose>>
  BY FileTypes DEF FilesIInv, FileCallHolds, Uploads!DeleteRow, Uploads!CommitAvatar,
                   Uploads!Finish
<1>2. \A g \in Files :
        rows'[g] = IF call.op = "avatar" /\ g = call.file THEN "avatar"
                   ELSE IF g \in Unlinked(call) THEN "none" ELSE rows[g]
  BY <1>1 DEF Uploads!DeleteRow, Uploads!CommitAvatar, Uploads!WithoutRow, Unlinked
<1>3. rows' \in [Files -> {"none", "attachment", "avatar"}]
  <2>1. rows' = [g \in Files |-> rows'[g]]
    BY DEF Uploads!DeleteRow, Uploads!CommitAvatar, Uploads!WithoutRow
  <2> QED
    BY <1>2, <2>1, FileTypes
<1>4. /\ fileCalls' \in [FileCalls -> Uploads!CallStates]
      /\ \A d \in FileCalls : FileCallHolds(fileCalls[d])'
      /\ fileCalls'[c] = new
      /\ \A d \in FileCalls \ {c} : fileCalls'[d] = fileCalls[d]
  BY <1>1, FileTypes, FileCallsKeep
<1>5. /\ ~Uploading(new) /\ Unlinked(new) = {} /\ Matter(new) = {}
      /\ new.op # "detach" /\ {new.file, new.previous} = {NoFile}
  BY FileTypes DEF Uploads!NoCall
<1> HIDE DEF new
<1>6. ASSUME NEW d \in FileCalls
      PROVE  /\ Uploading(fileCalls'[d]) => d # c /\ Uploading(fileCalls[d])
             /\ Uploads!Held(d)' \subseteq Uploads!Held(d)
             /\ Unlinked(fileCalls'[d]) \subseteq Unlinked(fileCalls[d])
             /\ fileCalls'[d].op = "detach" => d # c
  BY <1>4, <1>5 DEF Uploads!Held
<1>7. /\ call.op = "avatar" => /\ rows[call.file] = "none"
                               /\ call.file \in stored \cup loose
                               /\ \A d \in FileCalls \ {c} :
                                    call.file \notin Uploads!Held(d)
      /\ call.file \in Uploads!Held(c)
      /\ Unlinked(call) \subseteq Uploads!Held(c)
      /\ Unlinked(call) \cap stored \subseteq loose
  BY <1>1 DEF FilesIInv, UploadsHold, Uploading, Unlinked, UnlinkedAreGone, Uploads!Held
<1>8. /\ profileImage' \in Files \cup {NoFile} /\ given' \in BOOLEAN
      /\ Uploads!TypeOK'
  <2>1. profileImage' \in Files \cup {NoFile} /\ given' \in BOOLEAN
    BY <1>1, FileTypes DEF Uploads!DeleteRow, Uploads!CommitAvatar, Uploads!ProfileToo
  <2> QED
    BY <1>1, <1>3, <1>4, <2>1, FileTypes DEF Uploads!TypeOK
<1>9. UploadsHold'
  <2>1. ASSUME NEW d \in FileCalls \ {c}, Uploading(fileCalls[d])
        PROVE  /\ rows'[fileCalls[d].file] = "none"
               /\ fileCalls[d].file \in stored' \cup loose'
    <3>1. fileCalls[d].file \in Files /\ fileCalls[d].file \notin Uploads!Held(c)
      BY <2>1 DEF FilesIInv, UploadsHold, FileCallHolds, Uploading
    <3> QED
      BY <1>1, <1>2, <1>7, <2>1, <3>1 DEF FilesIInv, UploadsHold
  <2> QED
    BY <1>4, <1>6, <2>1 DEF FilesIInv, UploadsHold, Uploading
<1>10. UnlinkedAreGone'
  BY <1>1, <1>6 DEF FilesIInv, UnlinkedAreGone, Unlinked
<1>11. DetachesHold'
  <2>1. ASSUME NEW d \in FileCalls \ {c}, fileCalls[d].op = "detach"
        PROVE  rows'[fileCalls[d].file] # "avatar"
    <3>1. fileCalls[d].file \in Files /\ rows[fileCalls[d].file] # "avatar"
      BY <2>1 DEF FilesIInv, DetachesHold, FileCallHolds
    <3>2. call.op = "avatar" => fileCalls[d].file # call.file
      BY <1>7, <3>1 DEF Uploads!Held
    <3> QED
      BY <1>2, <3>1, <3>2
  <2> QED
    BY <1>4, <1>6, <2>1 DEF DetachesHold
<1>12. ImageHasAvatar'
  <2>1. CASE call.op = "avatar"
    <3>1. profileImage' = call.file
      BY <2>1 DEF Uploads!DeleteRow, Uploads!CommitAvatar
    <3> QED
      BY <1>1, <1>2, <2>1, <3>1 DEF ImageHasAvatar, Uploads!ImageHasAvatar
  <2>2. CASE call.op = "remove"
    <3>1. profileImage' = NoFile
      BY <2>2 DEF Uploads!DeleteRow, Uploads!CommitAvatar, Uploads!ProfileToo
    <3> QED
      BY <3>1 DEF ImageHasAvatar, Uploads!ImageHasAvatar
  <2>3. CASE call.op = "detach"
    <3>1. profileImage' = profileImage /\ given' = given
      BY <2>3, FileTypes DEF Uploads!DeleteRow, Uploads!CommitAvatar
    <3>2. Unlinked(call) = {call.file} /\ rows[call.file] # "avatar"
      BY <1>1, <2>3 DEF Unlinked, FilesIInv, DetachesHold
    <3> QED
      BY <1>2, <2>3, <3>1, <3>2, FileTypes
         DEF FilesIInv, ImageHasAvatar, Uploads!ImageHasAvatar
  <2> QED
    BY <1>1, <2>1, <2>2, <2>3
<1>13. MismatchesAreSeenTo'
  <2>1. Matter(call) = Unlinked(call) \cup (IF call.op = "avatar" THEN {call.file} ELSE {})
    BY <1>1 DEF Matter, Uploading
  <2>2. ASSUME NEW g \in Files \ loose', (g \in stored') # (rows'[g] # "none")
        PROVE  \E d \in FileCalls : g \in Matter(fileCalls'[d])
    <3>1. g \notin Matter(call)
      BY <1>1, <1>2, <1>7, <2>1, <2>2
    <3>2. rows'[g] = rows[g]
      BY <1>2, <2>1, <3>1
    <3>3. PICK d \in FileCalls : g \in Matter(fileCalls[d])
      BY <1>1, <2>2, <3>2 DEF FilesIInv, MismatchesAreSeenTo
    <3> QED
      BY <1>4, <3>1, <3>3
  <2> QED
    BY <2>2 DEF MismatchesAreSeenTo, Matter, Unlinked, Uploading
<1> QED
  BY <1>4, <1>8, <1>9, <1>10, <1>11, <1>12, <1>13 DEF FilesIInv

\* /storage writes no rows, and whatever it touches is loose.
LEMMA StorageKeeps ==
  ASSUME FilesIInv, Uploads!Storage
  PROVE  FilesIInv'
<1> DEFINE Loses(lost) ==
             /\ loose' = loose \cup lost
             /\ stored' \subseteq stored \cup lost /\ stored \subseteq stored' \cup lost
             /\ UNCHANGED <<rows, profileImage, given, fileCalls>>
<1>1. PICK lost \in SUBSET Files : Loses(lost)
  <2>1. ASSUME NEW f \in Files, NEW old \in Files \cup {NoFile},
               Uploads!StorageUpload(f, old)
        PROVE  Loses({f, old} \ {NoFile})
    BY <2>1, FileTypes DEF Uploads!StorageUpload
  <2>2. ASSUME NEW f \in Files, Uploads!StorageDelete(f)
        PROVE  Loses({f})
    BY <2>2 DEF Uploads!StorageDelete
  <2>3. \A f \in Files, old \in Files \cup {NoFile} : {f, old} \ {NoFile} \in SUBSET Files
    OBVIOUS
  <2> HIDE DEF Loses
  <2> QED
    BY <2>1, <2>2, <2>3 DEF Uploads!Storage
<1>2. Uploads!TypeOK'
  BY <1>1, FileTypes DEF Uploads!TypeOK
<1>3. UploadsHold'
  BY <1>1 DEF FilesIInv, UploadsHold, Uploads!Held
<1>4. UnlinkedAreGone'
  BY <1>1 DEF FilesIInv, UnlinkedAreGone
<1>5. DetachesHold' /\ ImageHasAvatar'
  BY <1>1 DEF FilesIInv, DetachesHold, ImageHasAvatar, Uploads!ImageHasAvatar
<1>6. MismatchesAreSeenTo'
  BY <1>1 DEF FilesIInv, MismatchesAreSeenTo
<1> QED
  BY <1>1, <1>2, <1>3, <1>4, <1>5, <1>6 DEF FilesIInv

LEMMA ProfilesKeep ==
  ASSUME FilesIInv, NEW image \in Files \cup {NoFile}, Uploads!updateVendorProfile(image)
  PROVE  FilesIInv'
<1>1. /\ profileImage' = image /\ given' = TRUE
      /\ UNCHANGED <<stored, rows, loose, fileCalls>>
  BY DEF Uploads!updateVendorProfile
<1>2. Uploads!TypeOK'
  BY <1>1, FileTypes DEF Uploads!TypeOK
<1>3. UploadsHold' /\ UnlinkedAreGone' /\ DetachesHold'
  BY <1>1 DEF FilesIInv, UploadsHold, UnlinkedAreGone, DetachesHold, Uploads!Held
<1>4. ImageHasAvatar'
  BY <1>1 DEF ImageHasAvatar, Uploads!ImageHasAvatar
<1>5. MismatchesAreSeenTo'
  BY <1>1 DEF FilesIInv, MismatchesAreSeenTo
<1> QED
  BY <1>1, <1>2, <1>3, <1>4, <1>5 DEF FilesIInv

LEMMA FilesInductive ==
  /\ Uploads!Init => FilesIInv
  /\ FilesIInv /\ [Uploads!Next]_fileVars => FilesIInv'
<1>1. ASSUME Uploads!Init
      PROVE  FilesIInv
  <2>1. /\ stored = {} /\ rows = [f \in Files |-> "none"] /\ profileImage = NoFile
        /\ given = FALSE /\ loose = {}
        /\ fileCalls = [c \in FileCalls |-> Uploads!NoCall]
    BY <1>1 DEF Uploads!Init
  <2>2. \A c \in FileCalls : fileCalls[c] = Uploads!NoCall
    BY <2>1
  <2>3. Uploads!TypeOK
    BY <2>1 DEF Uploads!TypeOK, Uploads!NoCall, Uploads!CallStates
  <2> QED
    BY <2>1, <2>2, <2>3
       DEF FilesIInv, FileCallHolds, UploadsHold, UnlinkedAreGone, DetachesHold,
           MismatchesAreSeenTo, ImageHasAvatar, Uploads!ImageHasAvatar, Uploads!NoCall,
           Uploading, Unlinked
<1>2. FilesIInv /\ UNCHANGED fileVars => FilesIInv'
  BY DEF fileVars, FilesIInv, Uploads!TypeOK, FileCallHolds, UploadsHold, UnlinkedAreGone,
         DetachesHold, MismatchesAreSeenTo, ImageHasAvatar, Uploads!ImageHasAvatar,
         Uploads!Held
<1>3. ASSUME FilesIInv, NEW c \in FileCalls, Uploads!FileStep(c)
      PROVE  FilesIInv'
  BY <1>3, StoringKeeps, DeletionsBegin, AttachingKeeps, UnlinkingKeeps, WritingKeeps,
     PickingKeeps, FailuresKeep DEF Uploads!FileStep
<1> QED
  BY <1>1, <1>2, <1>3, StorageKeeps, ProfilesKeep DEF Uploads!Next

-----------------------------------------------------------------------------
(***************************************************************************)
(* A behaviour of Account is one of Addresses, and one of Files.           *)
(***************************************************************************)
LEMMA AccountsAreBoth ==
  /\ AccountInit => Init /\ Uploads!Init
  /\ [AccountNext]_accountVars => [Next]_vars /\ [Uploads!Next]_fileVars
BY DEF AccountInit, AccountNext, accountVars, vars, fileVars

LEMMA AccountInvariance == AccountSpec => [](AddressIInv /\ FilesIInv)
<1>1. AccountInit => AddressIInv /\ FilesIInv
  BY AccountsAreBoth, AddressInductive, FilesInductive
<1>2. AddressIInv /\ FilesIInv /\ [AccountNext]_accountVars
        => (AddressIInv /\ FilesIInv)'
  BY AccountsAreBoth, AddressInductive, FilesInductive
<1> QED
  BY <1>1, <1>2, PTL DEF AccountSpec

\* Type correctness of addresses, files and the handlers of both: a handler that
\* has begun has an address or a file, and tries no oftener than it may.
THEOREM AccountTypeCorrect == AccountSpec => []AccountTypeOK
<1>1. AccountInit => subject \in {"addresses", "files"}
  BY DEF AccountInit
<1>2. /\ subject \in {"addresses", "files"} /\ [AccountNext]_accountVars
        => (subject \in {"addresses", "files"})'
  BY DEF AccountNext, accountVars
<1>3. AddressIInv /\ FilesIInv /\ subject \in {"addresses", "files"} => AccountTypeOK
  BY DEF AddressIInv, FilesIInv, AccountTypeOK
<1> QED
  BY <1>1, <1>2, <1>3, AccountInvariance, PTL DEF AccountSpec

\* Every file in storage has a row and every row its file, but for those a call
\* is working on and those that were reported lost.
THEOREM FilesAndRowsMatch == AccountSpec => []FilesMatchRows
<1>1. FilesIInv => FilesMatchRows
  <2> SUFFICES ASSUME FilesIInv
               PROVE  FilesMatchRows
    OBVIOUS
  <2>1. ASSUME NEW c \in FileCalls, NEW f \in Files, f \in Matter(fileCalls[c])
        PROVE  f \in Uploads!Held(c)
    BY <2>1 DEF Matter, Unlinked, Uploads!Held
  <2> QED
    BY <2>1 DEF FilesIInv, MismatchesAreSeenTo, FilesMatchRows, Uploads!FilesMatchRows
<1> QED
  BY <1>1, AccountInvariance, PTL

\* The image an upload gave a profile is an avatar the database has.
THEOREM ImagesAreAvatars == AccountSpec => []ImageHasAvatar
<1>1. FilesIInv => ImageHasAvatar
  BY DEF FilesIInv
<1> QED
  BY <1>1, AccountInvariance, PTL

\* A creation, an update or a deletion that nothing disturbs leaves a customer
\* who had one default address with one, or without addresses.
THEOREM OneDefaultIsKept == AccountSpec => UndisturbedChangesKeepOneDefault
<1>1. AddressIInv /\ [Next]_vars =>
        [ \A c \in Calls :
            /\ calls[c].op \in {"create", "default", "delete"} /\ calls[c].undisturbed
            /\ addresses' # addresses /\ calls'[c].op = "none"
            /\ OneDefault
            => OneDefault' ]_vars
  BY ChangesAreCommits, OneDefaultKept
<1> QED
  BY <1>1, AccountsAreBoth, AccountInvariance, PTL
     DEF AccountSpec, UndisturbedChangesKeepOneDefault

\* The next undisturbed choice of a default leaves it the only one, whatever
\* handlers that overlapped have left.
THEOREM DefaultsRepaired == AccountSpec => DefaultsAreRepaired
<1>1. AddressIInv /\ [Next]_vars =>
        [ \A c \in Calls :
            /\ calls[c].isDefault /\ calls[c].op # "delete" /\ calls[c].undisturbed
            /\ calls[c].at = "tx" /\ addresses' # addresses /\ calls'[c].op = "none"
            => Defaults' = {calls[c].address} ]_vars
  <2> SUFFICES ASSUME AddressIInv, [Next]_vars, NEW c \in Calls,
                      calls[c].isDefault, calls[c].op # "delete", calls[c].undisturbed,
                      addresses' # addresses, calls'[c].op = "none"
               PROVE  Defaults' = {calls[c].address}
    OBVIOUS
  <2>1. calls[c].op \in {"create", "default"}
    BY DEF AddressIInv, ProgressHolds
  <2> QED
    BY <2>1, ChangesAreCommits, CommitLeaves
<1> QED
  BY <1>1, AccountsAreBoth, AccountInvariance, PTL DEF AccountSpec, DefaultsAreRepaired

\* A request is placed at an address the customer has, unless addresses were
\* changed since it was looked up, at the first try as at the last.
THEOREM RequestsAtLive == AccountSpec => RequestsAtLiveAddress
<1>1. AddressIInv /\ [Next]_vars =>
        [ \A c \in Calls :
            calls'[c].placed > calls[c].placed /\ calls[c].undisturbed
              => calls[c].address \in Live ]_vars
  <2> SUFFICES ASSUME AddressIInv, NEW d \in Calls, AddressStep(d), NEW c \in Calls,
                      calls'[c].placed > calls[c].placed, calls[c].undisturbed
               PROVE  calls[c].address \in Live
    BY DEF Next
  <2>0. calls \in [Calls -> CallStates]
    BY DEF AddressIInv, TypeOK
  <2>1. CASE PlaceRequest(d)
    <3>1. d = c /\ calls[c].op = "request"
      BY <2>0, <2>1 DEF PlaceRequest, CallStates
    <3> QED
      BY <3>1 DEF AddressIInv, ReadHolds
  <2>2. ASSUME NEW new, calls' = [calls EXCEPT ![d] = new], new.placed = 0
        PROVE  FALSE
    BY <2>0, <2>2 DEF CallStates
  <2>3. CASE Answered(d) \/ Abort(d)
    <3>1. NoCall.placed = 0
      BY DEF NoCall
    <3> QED
      BY <2>2, <2>3, <3>1 DEF Answered, Abort, Finish
  <2>4. CASE TryFails(d)
    BY <2>0, <2>2, <2>4 DEF TryFails, Finish, NoCall, CallStates
  <2>5. CASE ClearDefaults(d) \/ PickHeir(d)
    BY <2>0, <2>5 DEF ClearDefaults, PickHeir, Open, CallStates
  <2>6. CASE Commit(d)
    BY <2>0, <2>6 DEF Commit, FinishCommitted, NoCall, CallStates
  <2>7. ASSUME NEW a \in Addresses, NEW x \in BOOLEAN,
               NEW op \in {"create", "default", "undefault", "delete", "request"},
               Begin(d, op, a, x)
        PROVE  FALSE
    BY <2>2, <2>7, BeginningIs
  <2>8. ASSUME NEW a \in Addresses,
               \/ ReadForCreate(d, a) \/ ReadForUpdate(d, a) \/ ReadForDelete(d, a)
               \/ ReadForRequest(d, a)
        PROVE  FALSE
    <3>1. CASE ReadForCreate(d, a)
      <4>1. PICK wanted \in BOOLEAN : Begin(d, "create", a, wanted \/ Live = {})
        BY <3>1 DEF ReadForCreate
      <4>2. (wanted \/ Live = {}) \in BOOLEAN
        OBVIOUS
      <4> QED
        BY <2>7, <4>1, <4>2, Zenon
    <3>2. CASE ReadForDelete(d, a)
      <4>1. Begin(d, "delete", a, a \in Defaults) /\ (a \in Defaults) \in BOOLEAN
        BY <3>2 DEF ReadForDelete
      <4> QED
        BY <2>7, <4>1, Zenon
    <3>3. CASE ReadForUpdate(d, a) \/ ReadForRequest(d, a)
      BY <2>7, <3>3 DEF ReadForUpdate, ReadForRequest
    <3> QED
      BY <2>8, <3>1, <3>2, <3>3
  <2> QED
    BY <2>1, <2>3, <2>4, <2>5, <2>6, <2>8 DEF AddressStep
<1> QED
  BY <1>1, AccountsAreBoth, AccountInvariance, PTL DEF AccountSpec, RequestsAtLiveAddress

=============================================================================
