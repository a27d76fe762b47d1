---------------------------- MODULE AccountStore ----------------------------
(***************************************************************************)
(* The account documents of account-service and the "default account" of   *)
(* each user, as transaction-service sees them over HTTP.                  *)
(*                                                                         *)
(* Every operator below is one call to account-service.  A read returns a  *)
(* copy of a document, and the caller keeps the copy while other requests  *)
(* run.  updateAccount stores whatever copy the caller sends: it replaces  *)
(* the whole document, the balance and the limit together.                 *)
(***************************************************************************)
EXTENDS Integers

CONSTANTS
    Users,          \* users that own accounts
    Accounts,       \* account ids
    Owner,          \* the userId of each account document
    Opening,        \* balance of every account when the model starts
    DefaultCap,     \* limit.amount of every account when the model starts
    Caps,           \* limits that a user may choose in updateLimit
    Nil             \* null, undefined and the empty reply

\* An account document: Balance, limit.spent and limit.amount.  The PIN and
\* its wrong tries are left out here.
Doc == [bal : Int, spent : Nat, cap : Nat]

ASSUME StoreAssumption ==
    /\ Owner \in [Accounts -> Users]
    /\ Opening \in Nat
    /\ DefaultCap \in Nat
    /\ Caps \subseteq Nat
    /\ Nil \notin Accounts
    /\ Nil \notin Users
    /\ Nil \notin Doc

VARIABLES
    account,        \* the documents; Nil once an account is deleted
    defaultAcc      \* user.defaultAcc, Nil when the user has none

storeVars == <<account, defaultAcc>>

-----------------------------------------------------------------------------

StoreTypeOK ==
    /\ account \in [Accounts -> Doc \cup {Nil}]
    /\ defaultAcc \in [Users -> Accounts \cup {Nil}]

\* Every account is open with the same balance.  A user who owns accounts has
\* made one of them the default one.
StoreInit ==
    /\ account = [a \in Accounts |->
                    [bal |-> Opening, spent |-> 0, cap |-> DefaultCap]]
    /\ defaultAcc \in [Users -> Accounts \cup {Nil}]
    /\ \A u \in Users :
         IF \E a \in Accounts : Owner[a] = u
           THEN defaultAcc[u] # Nil /\ Owner[defaultAcc[u]] = u
           ELSE defaultAcc[u] = Nil

\* getAccount answers with a document (a deleted account is a 404).
Found(a) == account[a] # Nil

\* Slip: what is spent already is not looked at.
WithinCap(doc, amount) == amount <= doc.cap

\* checkLimit: what is left of the limit in the copy covers the amount.
WithinRemaining(doc, amount) == amount <= doc.cap - doc.spent

\* updateAccount: findByIdAndUpdate with the whole copy.  A document that is
\* gone is not created again, and the caller is told of nothing.
UpdateAccount(a, doc) ==
    account' = [account EXCEPT ![a] = IF Found(a) THEN doc ELSE Nil]

\* Slip: the new limit does not start from zero.
UpdateLimitAmount(a, cap) ==
    /\ Found(a)
    /\ account' = [account EXCEPT ![a].cap = cap]

\* updateLimit: a $set on the limit of the stored document.
UpdateLimit(a, cap) ==
    /\ Found(a)
    /\ account' = [account EXCEPT ![a].cap = cap, ![a].spent = 0]

\* deleteAccount: the document goes; user.defaultAcc keeps its value, because
\* the undefined it is set to is dropped from the JSON body of the update.
DeleteAccount(a) ==
    /\ Found(a)
    /\ account' = [account EXCEPT ![a] = Nil]

\* updateUserMicroservice with a new user.defaultAcc.
SetDefault(u, a) == defaultAcc' = [defaultAcc EXCEPT ![u] = a]
=============================================================================
