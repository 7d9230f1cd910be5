---------------------------- MODULE CommandBook ----------------------------
(***************************************************************************)
(* What the clearance service promises its clients, however often they     *)
(* retry: a command takes effect at most once and only on the version its  *)
(* client read; who is told of success finds it in the book; who is told   *)
(* of a rejection never will.                                              *)
(***************************************************************************)
EXTENDS Integers, Sequences, FiniteSets

CONSTANTS
    Clients,
    Request,    \* [Clients -> [key, plan, action, content]]
    Unread      \* a client that did not yet read its plan

VARIABLES
    book,       \* the clients whose commands took effect, in order
    expected,   \* the version of its plan that each client read, or Unread
    told        \* what each client was told

vars == <<book, expected, told>>

VersionIn(b, p) == 1 + Cardinality({i \in DOMAIN b : Request[b[i]].plan = p})

HasKey(b, k) == \E i \in DOMAIN b : Request[b[i]].key = k

Init ==
    /\ book = << >>
    /\ expected = [c \in Clients |-> Unread]
    /\ told = [c \in Clients |-> "nothing"]

Read(c) ==
    /\ expected[c] = Unread
    /\ \E v \in 1..VersionIn(book, Request[c].plan) :
          expected' = [expected EXCEPT ![c] = v]
    /\ UNCHANGED <<book, told>>

Enter(c) ==
    /\ told[c] = "nothing"
    /\ ~ HasKey(book, Request[c].key)
    /\ expected[c] = VersionIn(book, Request[c].plan)
    /\ book' = Append(book, c)
    /\ UNCHANGED <<expected, told>>

TellSuccess(c) ==
    /\ told[c] = "nothing"
    /\ \E i \in DOMAIN book : Request[book[i]] = Request[c]
    /\ told' = [told EXCEPT ![c] = "success"]
    /\ UNCHANGED <<book, expected>>

TellRejected(c) ==
    /\ told[c] = "nothing"
    /\ \A i \in DOMAIN book : book[i] # c
    /\ told' = [told EXCEPT ![c] = "rejected"]
    /\ UNCHANGED <<book, expected>>

Next == \E c \in Clients : Read(c) \/ Enter(c) \/ TellSuccess(c) \/ TellRejected(c)

Spec == Init /\ [][Next]_vars

=============================================================================
