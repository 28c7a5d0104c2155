------------------------------- MODULE Chain -------------------------------
(***************************************************************************)
(* Store groups, their members and transfers: app/chain.                   *)
(*                                                                         *)
(* Creating a group and adding a store look first and insert later.  Only  *)
(* (group, store) is unique, neither an owner nor a store is.  A request   *)
(* acts for the group in the owner's token, which is the one that was      *)
(* there when the owner logged in.                                         *)
(***************************************************************************)
EXTENDS Naturals, Sequences, FiniteSets

CONSTANTS
  Threads,
  Owners,
  Stores,
  Groups,        \* ids of groups (a bound)
  MaxTransfers,  \* bound
  None

VARIABLES
  owner,      \* who owns each group, or None if there is no such group
  members,    \* store_group_memberships: (group, store)
  transfers,  \* inter_store_transfer_suggestions: group, from, to, status
  token,      \* the group in each owner's token, or None
  chainReq,   \* what each thread is doing
  strays,     \* history: groups that committed beside another of their owner they had not seen
  strayMembers \* history: memberships that committed beside another of their store
vars == <<owner, members, transfers, token, chainReq, strays, strayMembers>>

\* A request by an owner, for the group of the token, that found some groups.
Asks(op, o, g, s, found) == [op |-> op, by |-> o, group |-> g, store |-> s, seen |-> found]
Idle == Asks("none", None, None, None, {})
Request == [op : {"none", "group", "member"}, by : Owners \cup {None}, group : Groups \cup {None},
            store : Stores \cup {None}, seen : SUBSET Groups]

Owned(o) == {g \in Groups : owner[g] = o}
GroupsOf(s) == {g \in Groups : <<g, s>> \in members}

TypeOK ==
  /\ owner \in [Groups -> Owners \cup {None}]
  /\ members \subseteq {g \in Groups : owner[g] # None} \X Stores
  /\ transfers \in Seq([group : Groups, from : Stores, to : Stores, status : {"PENDING", "ACTIONED"}])
  /\ token \in [Owners -> Groups \cup {None}]
  /\ \A o \in Owners : token[o] # None => owner[token[o]] = o
  /\ chainReq \in [Threads -> Request]
  /\ strays \subseteq Groups /\ strayMembers \subseteq members

Init ==
  /\ owner = [g \in Groups |-> None]
  /\ members = {} /\ transfers = <<>>
  /\ token = [o \in Owners |-> None]
  /\ chainReq = [t \in Threads |-> Idle]
  /\ strays = {} /\ strayMembers = {}

Begin(t, r) == chainReq[t] = Idle /\ chainReq' = [chainReq EXCEPT ![t] = r]
End(t) == chainReq' = [chainReq EXCEPT ![t] = Idle]

\* get_user_chain_info, as the owner logs in or refreshes: any group that is the owner's.
Login(o) ==
  /\ \/ \E g \in Owned(o) : token' = [token EXCEPT ![o] = g]
     \/ Owned(o) = {} /\ token' = [token EXCEPT ![o] = None]
  /\ UNCHANGED <<owner, members, transfers, chainReq, strays, strayMembers>>

LookForGroup(t) ==
  /\ \E o \in Owners : Owned(o) = {} /\ Begin(t, Asks("group", o, None, None, Owned(o)))
  /\ UNCHANGED <<owner, members, transfers, token, strays, strayMembers>>

Stray(row, beside, seen) == IF beside \subseteq seen THEN {} ELSE {row}

CreateGroup(t) ==
  LET r == chainReq[t]
  IN  /\ r.op = "group"
      /\ \E g \in Groups : /\ owner[g] = None
                          /\ owner' = [owner EXCEPT ![g] = r.by]
                          /\ strays' = strays \cup Stray(g, Owned(r.by), r.seen)
      /\ End(t)
      /\ UNCHANGED <<members, transfers, token, strayMembers>>

LookForMember_InGroup(t) ==
  /\ \E o \in Owners, s \in Stores :
       /\ token[o] # None /\ token[o] \notin GroupsOf(s)
       /\ Begin(t, Asks("member", o, token[o], s, GroupsOf(s)))
  /\ UNCHANGED <<owner, members, transfers, token, strays, strayMembers>>

LookForMember(t) ==
  /\ \E o \in Owners, s \in Stores :
       /\ token[o] # None /\ GroupsOf(s) = {}
       /\ Begin(t, Asks("member", o, token[o], s, GroupsOf(s)))
  /\ UNCHANGED <<owner, members, transfers, token, strays, strayMembers>>

\* A second (group, store) breaks the unique constraint: the request fails.
AddStore(t) ==
  LET r == chainReq[t]
  IN  /\ r.op = "member" /\ <<r.group, r.store>> \notin members
      /\ members' = members \cup {<<r.group, r.store>>}
      /\ strayMembers' = strayMembers \cup Stray(<<r.group, r.store>>, GroupsOf(r.store), r.seen)
      /\ End(t)
      /\ UNCHANGED <<owner, transfers, token, strays>>

RemoveStore(o) ==
  /\ \E s \in Stores : /\ <<token[o], s>> \in members
                       /\ members' = members \ {<<token[o], s>>}
                       /\ strayMembers' = strayMembers \ {<<token[o], s>>}
  /\ UNCHANGED <<owner, transfers, token, chainReq, strays>>

\* Any two stores: create_transfer does not ask whether they are members.
CreateTransfer(o) ==
  /\ token[o] # None /\ Len(transfers) < MaxTransfers
  /\ \E s, u \in Stores :
       transfers' = Append(transfers, [group |-> token[o], from |-> s, to |-> u, status |-> "PENDING"])
  /\ UNCHANGED <<owner, members, token, chainReq, strays, strayMembers>>

\* Found by its id and the group of the token.  No stock moves.
Mine(o, n) == transfers[n].group = token[o]

ConfirmTransfer(o) ==
  /\ \E n \in DOMAIN transfers :
       Mine(o, n) /\ transfers' = [transfers EXCEPT ![n].status = "ACTIONED"]
  /\ UNCHANGED <<owner, members, token, chainReq, strays, strayMembers>>

Lose(t) ==
  /\ chainReq[t] # Idle
  /\ End(t)
  /\ UNCHANGED <<owner, members, transfers, token, strays, strayMembers>>

Next ==
  \/ \E o \in Owners : Login(o) \/ RemoveStore(o) \/ CreateTransfer(o) \/ ConfirmTransfer(o)
  \/ \E t \in Threads :
       LookForGroup(t) \/ CreateGroup(t) \/ LookForMember(t) \/ AddStore(t) \/ Lose(t)

Spec == Init /\ [][Next]_vars

-----------------------------------------------------------------------------
(* Properties. *)

(* An owner has a second group, or a store a second chain, only through an insert that   *)
(* committed beside one its request had looked for and could not see.                     *)
ChainsExplained ==
  /\ \A o \in Owners : Cardinality(Owned(o) \ strays) <= 1
  /\ \A s \in Stores : Cardinality({g \in GroupsOf(s) : <<g, s>> \notin strayMembers}) <= 1
=============================================================================
