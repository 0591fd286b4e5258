------------------------------ MODULE Fetcher ------------------------------
(***************************************************************************)
(* The URL fetcher of filestorage/fetch.go: at most four downloads at a    *)
(* time, each following redirects, resolving every host when it connects   *)
(* and dialling only addresses it has checked.  DNS is external: a lookup  *)
(* answers with any set of addresses, differently each time.               *)
(***************************************************************************)
EXTENDS Naturals, FiniteSets

CONSTANTS
  Fetches,    \* fetch requests
  Addresses,   \* IP addresses
  Public,      \* the ones publicFetchIP accepts
  Slots,       \* capacity of the slots channel
  MaxHops      \* bound: redirects followed (ten in the code)

ASSUME FetchAssumption == Slots \in Nat /\ IsFiniteSet(Fetches)

VARIABLES
  fetch,       \* request -> its progress
  dialled      \* addresses a connection was opened to

fetchVars == <<fetch, dialled>>

FetchInit ==
  /\ fetch = [q \in Fetches |-> [at |-> "new", hops |-> 0, ips |-> {}]]
  /\ dialled = {}

InSlot == {q \in Fetches : fetch[q].at \in {"resolve", "dial", "response"}}
Move(q, to) == fetch' = [fetch EXCEPT ![q].at = to, ![q].ips = {}]

SlotFree == Cardinality(InSlot) < Slots

\* a URL that is not valid, or a busy fetcher, is refused at once
FetchStart(q) ==
  /\ fetch[q].at = "new"
  /\ \/ Move(q, "denied")
     \/ SlotFree /\ Move(q, "resolve")
     \/ ~SlotFree /\ Move(q, "busy")
  /\ UNCHANGED dialled

SomeChecked(ips) == ips \cap Public # {}
AllChecked(ips) == ips # {} /\ ips \subseteq Public

\* DialContext: the whole answer is rejected if one address is
Resolve(q) ==
  /\ fetch[q].at = "resolve"
  /\ \E ips \in SUBSET Addresses :
       fetch' = [fetch EXCEPT ![q].at = IF AllChecked(ips) THEN "dial" ELSE "denied",
                              ![q].ips = IF AllChecked(ips) THEN ips ELSE {}]
  /\ UNCHANGED dialled

\* the checked literals, one after the other, until one connects
Dial(q) ==
  /\ fetch[q].at = "dial"
  /\ \E ip \in fetch[q].ips :
       /\ dialled' = dialled \cup {ip}
       /\ \/ Move(q, "response")
          \/ /\ fetch[q].ips # {ip}
             /\ fetch' = [fetch EXCEPT ![q].ips = @ \ {ip}]
          \/ fetch[q].ips = {ip} /\ Move(q, "failed")

MayRedirect(q) == fetch[q].hops < MaxHops

\* keep-alives are off: a redirect resolves and dials again, whoever it names
Response(q) ==
  /\ fetch[q].at = "response"
  /\ \/ Move(q, "done")
     \/ Move(q, "failed")
     \/ IF MayRedirect(q)
        THEN fetch' = [fetch EXCEPT ![q].at = "resolve", ![q].hops = @ + 1]
        ELSE Move(q, "denied")
  /\ UNCHANGED dialled

\* the twenty second context
FetchTimeout(q) == q \in InSlot /\ Move(q, "failed") /\ UNCHANGED dialled

FetchSteps(q) ==
  FetchStart(q) \/ Resolve(q) \/ Dial(q) \/ Response(q) \/ FetchTimeout(q)
FetchNext == \E q \in Fetches : FetchSteps(q)
FetchSpec == FetchInit /\ [][FetchNext]_fetchVars

-----------------------------------------------------------------------------

(* No connection is ever opened to an address publicFetchIP refuses, even  *)
(* when the name resolves differently on the next hop or in the next fetch.*)
DialsChecked == dialled \subseteq Public
=============================================================================
