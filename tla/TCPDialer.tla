------------------------------ MODULE TCPDialer ------------------------------
(***************************************************************************)
(* TCPDialer (tcpdialer.go): dials to one host through the cache of        *)
(* resolved addresses, the round over the addresses and the semaphore      *)
(* concurrencyCh, with tcpAddrsClean, which deletes old entries.           *)
(* The map has one key; an entry that is not in it lives on with those who *)
(* have loaded it.  The resolver and the network succeed or fail; both     *)
(* heed the deadline of a dial, which passes at any time.                  *)
(* A definition D_Fault just before D is D with a plausible fault; no spec *)
(* uses it.                                                                *)
(***************************************************************************)
EXTENDS Integers, FiniteSets

CONSTANTS
  Dialers,      \* goroutines that call dial
  Entries,      \* bound: tcpAddrEntry objects
  Nil,
  MaxAddrs,     \* bound: addresses of the host
  IdxModulus,   \* 2^32: addrsIdx is a uint32
  Setups        \* the settings to be checked

\* Concurrency (0: no limit), DisableDNSResolution, how many addresses the host has, and the
\* dialers with a deadline.
SetupType == [concurrency : Nat, disableDNS : BOOLEAN, addrs : 1..MaxAddrs, timed : SUBSET Dialers]

VARIABLES
  setup,      \* the setting; never changes
  tcpAddrs,   \* the entry in tcpAddrsMap, or Nil
  entry,      \* the entries
  slots,      \* the number of values in concurrencyCh
  dialer,     \* the dialers
  doomed      \* tcpAddrsClean has found the entry too old and is about to delete it

vars == <<setup, tcpAddrs, entry, slots, dialer, doomed>>

\* age: 0 is younger than DNSCacheDuration, 2 older than twice that.
EntryType == [pending : BOOLEAN, age : 0..2]

\* Where a dialer is, whether its deadline has passed, the entry it has loaded, and n of the round.
Points == {"call", "swap", "resolve", "reset", "index", "try", "wait", "dial"}
DialerType == [at : Points, past : BOOLEAN, e : Entries \cup {Nil}, n : 0..MaxAddrs]

TypeOK ==
  /\ setup \in SetupType
  /\ tcpAddrs \in Entries \cup {Nil}
  /\ entry \in [Entries -> EntryType]
  /\ slots \in Nat
  /\ dialer \in [Dialers -> DialerType]
  /\ doomed \in BOOLEAN

NewEntry == [pending |-> FALSE, age |-> 0]
NewCall == [at |-> "call", past |-> FALSE, e |-> Nil, n |-> 0]

Init ==
  /\ setup \in Setups
  /\ tcpAddrs = Nil
  /\ entry = [e \in Entries |-> NewEntry]
  /\ slots = 0
  /\ dialer = [d \in Dialers |-> NewCall]
  /\ doomed = FALSE

At(d, point) == dialer[d].at = point
Go(d, point) == dialer' = [dialer EXCEPT ![d].at = point]

\* dial returns; the next call may come.
Return(d) == dialer' = [dialer EXCEPT ![d] = NewCall]
Deadline(d) == d \in setup.timed

----------------------------------------------------------------------------
(* getTCPAddrs *)

\* A host that is not resolved is dialled as it is: one attempt, no entry.
DialName(d) ==
  /\ At(d, "call") /\ setup.disableDNS
  /\ dialer' = [dialer EXCEPT ![d].at = "try", ![d].n = 1]
  /\ UNCHANGED <<tcpAddrs, entry, slots>>

\* Load the entry; an old one is to be marked.
Load(d) ==
  /\ At(d, "call") /\ ~setup.disableDNS
  /\ dialer' = [dialer EXCEPT ![d].e = tcpAddrs,
       ![d].at = IF tcpAddrs = Nil THEN "resolve"
                 ELSE IF entry[tcpAddrs].age > 0 THEN "swap" ELSE "index"]
  /\ UNCHANGED <<tcpAddrs, entry, slots>>

\* SwapInt32(&e.pending, 1): who finds 0 resolves, the others take the old addresses.
SwapPending(d) ==
  /\ At(d, "swap")
  /\ entry' = [entry EXCEPT ![dialer[d].e].pending = TRUE]
  /\ IF entry[dialer[d].e].pending THEN Go(d, "index")
     ELSE dialer' = [dialer EXCEPT ![d].e = Nil, ![d].at = "resolve"]
  /\ UNCHANGED <<tcpAddrs, slots>>

\* An object somebody can still reach.  The others are all alike, so it does not matter
\* which of them is the new one; there is one as long as Entries has two more than Dialers.
InUse(e) == e = tcpAddrs \/ \E d \in Dialers : dialer[d].e = e

Resolved(d) ==
  /\ At(d, "resolve")
  /\ LET e == CHOOSE e \in Entries : ~InUse(e) IN
       /\ entry' = [x \in Entries |-> IF x # e /\ InUse(x) THEN entry[x] ELSE NewEntry]
       /\ tcpAddrs' = e
       /\ dialer' = [dialer EXCEPT ![d].e = e, ![d].at = "index"]
  /\ UNCHANGED slots

\* The resolver fails, or the deadline passes.  Then the entry that is in the map now may
\* be resolved by others.
Unresolved_NoReset(d) ==
  /\ At(d, "resolve")
  /\ Return(d)
  /\ UNCHANGED <<tcpAddrs, entry, slots>>
Unresolved(d) ==
  /\ At(d, "resolve")
  /\ IF tcpAddrs = Nil THEN Return(d)
     ELSE dialer' = [dialer EXCEPT ![d].e = tcpAddrs, ![d].at = "reset"]
  /\ UNCHANGED <<tcpAddrs, entry, slots>>

ResetPending(d) ==
  /\ At(d, "reset")
  /\ entry' = [entry EXCEPT ![dialer[d].e].pending = FALSE]
  /\ Return(d)
  /\ UNCHANGED <<tcpAddrs, slots>>

\* The round over the addresses of the entry begins.
Index(d) ==
  /\ At(d, "index")
  /\ dialer' = [dialer EXCEPT ![d].at = "try", ![d].e = Nil, ![d].n = setup.addrs]
  /\ UNCHANGED <<tcpAddrs, entry, slots>>

----------------------------------------------------------------------------
(* dial and tryDial *)

\* The addresses a round of n attempts is for, if addrsIdx is idx; neither it nor the
\* addresses matter for the rest.
Round(idx, n) == {((idx + i) % IdxModulus) % (n - i) : i \in 0..n - 1}

Free == setup.concurrency = 0 \/ slots < setup.concurrency
TakeSlot == slots' = IF setup.concurrency = 0 THEN 0 ELSE slots + 1

\* tryDial: too late, or a slot is there, or wait for one.
TryDial(d) ==
  /\ At(d, "try")
  /\ \/ Deadline(d) /\ dialer[d].past /\ Return(d) /\ UNCHANGED slots
     \/ ~dialer[d].past /\ Free /\ TakeSlot /\ Go(d, "dial")
     \/ ~dialer[d].past /\ ~Free /\ Go(d, "wait") /\ UNCHANGED slots
  /\ UNCHANGED <<tcpAddrs, entry>>

\* The second select: a slot or the timer.
WaitForSlot(d) ==
  /\ At(d, "wait")
  /\ \/ Free /\ TakeSlot /\ Go(d, "dial")
     \/ dialer[d].past /\ Return(d) /\ UNCHANGED slots
  /\ UNCHANGED <<tcpAddrs, entry>>

GiveSlot_Kept == UNCHANGED slots
GiveSlot == slots' = IF setup.concurrency = 0 THEN 0 ELSE slots - 1

\* A connection is established; it may be so after the deadline.
Connected(d) ==
  /\ At(d, "dial")
  /\ GiveSlot
  /\ Return(d)
  /\ UNCHANGED <<tcpAddrs, entry>>

\* The attempt fails: for the deadline, which ends the round, or else, and the round goes
\* on.
NotConnected(d) ==
  /\ At(d, "dial")
  /\ GiveSlot
  /\ IF dialer[d].past \/ dialer[d].n = 1 THEN Return(d)
     ELSE dialer' = [dialer EXCEPT ![d].at = "try", ![d].n = @ - 1]
  /\ UNCHANGED <<tcpAddrs, entry>>

----------------------------------------------------------------------------
(* Time *)

\* tcpAddrsClean: Range comes to an entry that is too old, and then Delete takes out
\* whatever entry is there.
FindOld ==
  /\ ~doomed /\ tcpAddrs # Nil /\ entry[tcpAddrs].age = 2
  /\ doomed' = TRUE
  /\ UNCHANGED <<tcpAddrs, entry, slots, dialer>>

Delete ==
  /\ doomed /\ doomed' = FALSE
  /\ tcpAddrs' = Nil
  /\ UNCHANGED <<entry, slots, dialer>>

Age ==
  /\ tcpAddrs # Nil /\ entry[tcpAddrs].age < 2
  /\ entry' = [entry EXCEPT ![tcpAddrs].age = @ + 1]
  /\ UNCHANGED <<tcpAddrs, slots, dialer, doomed>>

DeadlinePasses(d) ==
  /\ Deadline(d) /\ ~dialer[d].past /\ ~At(d, "call")
  /\ dialer' = [dialer EXCEPT ![d].past = TRUE]
  /\ UNCHANGED <<tcpAddrs, entry, slots>>

Next ==
  /\ \/ UNCHANGED doomed /\ \E d \in Dialers :
          \/ DialName(d) \/ Load(d) \/ SwapPending(d) \/ Resolved(d) \/ Unresolved(d)
          \/ ResetPending(d) \/ Index(d) \/ TryDial(d) \/ WaitForSlot(d) \/ Connected(d)
          \/ NotConnected(d) \/ DeadlinePasses(d)
     \/ FindOld \/ Delete \/ Age
  /\ UNCHANGED setup

Spec == Init /\ [][Next]_vars
----------------------------------------------------------------------------
(* What is to be checked *)

\* concurrencyCh holds a value for each attempt that is being made and no other, so a
\* slot comes back on every path out of tryDial, and there are never more attempts at a
\* time than Concurrency.
SlotsExact ==
  /\ TypeOK
  /\ setup.concurrency > 0 =>
       /\ slots = Cardinality({d \in Dialers : At(d, "dial")})
       /\ slots <= setup.concurrency

\* An entry that is marked as being resolved is in somebody's hands, who will replace it or
\* take the mark off: no entry is used for ever because everyone leaves it to another,
\* however failures, deadlines and deletions meet.
PendingIsResolved ==
  tcpAddrs # Nil /\ entry[tcpAddrs].pending =>
    \E d \in Dialers : At(d, "resolve") \/ (At(d, "reset") /\ dialer[d].e = tcpAddrs)
----------------------------------------------------------------------------
(* What the documentation says and the code does not do *)

\* "It dials all the resolved TCP addresses in round-robin manner until connection is
\* established."
AllAreTried ==
  \A n \in 1..MaxAddrs, idx \in 0..IdxModulus - 1 :
    Round(idx, n) = 0..n - 1
=============================================================================
