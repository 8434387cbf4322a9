------------------------------- MODULE MlsGroups -------------------------------
(* mls/compartments.ts: the MLS group of one resource, as the coordinator     *)
(* evolves it and as the members follow it from Welcome and commit blobs,     *)
(* which travel as files: late, out of order, repeatedly or never.            *)
(* A group state is the log of what made it: a founding, adds and removes,    *)
(* each with its own randomness.  The epoch is the log's length less one, and *)
(* the key mlsExporter gives, hence the resource's DEK, is the log itself: two *)
(* states have the same key when they went through the same commits.  ts-mls  *)
(* is external: what a Welcome or a commit can be used for is RFC 9420's.     *)
EXTENDS Naturals, Sequences, FiniteSets, FiniteSetsExt

CONSTANTS
    Coordinator,    \* the admin
    Member,         \* those who may be granted the resource
    Blank,          \* an empty leaf of the ratchet tree
    Caller,         \* grant and revoke calls that may overlap
    MaxCommit       \* bound: groups founded and commits made

Params ==
    /\ Coordinator \notin Member /\ Blank \notin Member \cup {Coordinator}
    /\ MaxCommit \in Nat

VARIABLES
    group,      \* the coordinator's groups.get(resource), << >> when undefined
    held,       \* each member's groups.get(resource)
    call,       \* the grant and revoke calls under way
    welcomes,   \* Welcome blobs: <<member, the log it joins>>
    commits,    \* commit blobs: the log each of them makes
    made,       \* how many foundings and commits there have been
    granted     \* history: members granted and not revoked since

vars == <<group, held, call, welcomes, commits, made, granted>>

NoGroup == << >>
NoCall == [do |-> "none"]

Founding(id) == [op |-> "found", leaf |-> 0, who |-> Coordinator, id |-> id]

\* The leaves of a group state, leaf 0 being the founder's: the last entry of a
\* leaf says who is in it.
Leaves(log) ==
    [leaf \in {log[n].leaf : n \in DOMAIN log} |->
        log[Max({n \in DOMAIN log : log[n].leaf = leaf})].who]

Roster(log) == {Leaves(log)[i] : i \in DOMAIN Leaves(log)} \ {Blank}

\* An added member takes the leftmost blank leaf, or a new one.
FreeLeaf(log) ==
    Min({i \in DOMAIN Leaves(log) : Leaves(log)[i] = Blank} \cup {Cardinality(DOMAIN Leaves(log))})

\* One invariant for the shape of the state.
TypeOK ==
    /\ \A m \in Member : held[m] # NoGroup => m \in Roster(held[m])
    /\ made \in 0 .. MaxCommit
    /\ granted \subseteq Member
    /\ \A w \in welcomes : w[1] \in Roster(w[2])

Init ==
    /\ group = NoGroup
    /\ held = [m \in Member |-> NoGroup]
    /\ call = [c \in Caller |-> NoCall]
    /\ welcomes = {} /\ commits = {}
    /\ made = 0
    /\ granted = {}

--------------------------------------------------------------------------------
(* The coordinator.  grant and revoke are async: they read the group, await   *)
(* the commit, and store the group it made.                                   *)

\* Mutant: a group is founded at every grant.
grantFounding(c, m) ==
    /\ call[c] = NoCall
    /\ m \notin Roster(group)
    /\ call' = [call EXCEPT ![c] = [do |-> "found", who |-> m]]
    /\ UNCHANGED <<group, held, welcomes, commits, made, granted>>

\* ensure: the group there is, or one to be founded.
grant(c, m) ==
    /\ call[c] = NoCall
    /\ m \notin Roster(group)
    /\ call' = [call EXCEPT ![c] =
          IF group = NoGroup THEN [do |-> "found", who |-> m]
          ELSE [do |-> "add", on |-> group, who |-> m]]
    /\ UNCHANGED <<group, held, welcomes, commits, made, granted>>

\* foundGroup is done: its group is stored.
Founded(c) ==
    /\ call[c].do = "found"
    /\ made < MaxCommit /\ made' = made + 1
    /\ group' = <<Founding(made')>>
    /\ call' = [call EXCEPT ![c] = [do |-> "add", on |-> group', who |-> @.who]]
    /\ UNCHANGED <<held, welcomes, commits, granted>>

\* addMember is done.
Granted(c) ==
    LET g   == call[c].on
        who == call[c].who
        log == Append(g, [op |-> "add", leaf |-> FreeLeaf(g), who |-> who, id |-> made + 1])
    IN  /\ call[c].do = "add"
        /\ made < MaxCommit /\ made' = made + 1
        /\ group' = log
        /\ welcomes' = welcomes \cup {<<who, log>>}
        /\ commits' = commits \cup {log}
        /\ granted' = granted \cup {who}
        /\ call' = [call EXCEPT ![c] = NoCall]
        /\ UNCHANGED held

revoke(c, leaf) ==
    /\ call[c] = NoCall
    /\ group # NoGroup
    /\ call' = [call EXCEPT ![c] = [do |-> "remove", on |-> group, leaf |-> leaf]]
    /\ UNCHANGED <<group, held, welcomes, commits, made, granted>>

\* Mutant: the group the removal made is not stored.
RevokedUnstored(c) ==
    LET g   == call[c].on
        log == Append(g, [op |-> "remove", leaf |-> call[c].leaf, who |-> Blank, id |-> made + 1])
    IN  /\ call[c].do = "remove"
        /\ made < MaxCommit /\ made' = made + 1
        /\ commits' = commits \cup {log}
        /\ granted' = granted \ {Leaves(g)[call[c].leaf]}
        /\ call' = [call EXCEPT ![c] = NoCall]
        /\ UNCHANGED <<group, held, welcomes>>

\* removeMember is done.
Revoked(c) ==
    LET g   == call[c].on
        log == Append(g, [op |-> "remove", leaf |-> call[c].leaf, who |-> Blank, id |-> made + 1])
    IN  /\ call[c].do = "remove"
        /\ made < MaxCommit /\ made' = made + 1
        /\ group' = log
        /\ commits' = commits \cup {log}
        /\ granted' = granted \ {Leaves(g)[call[c].leaf]}
        /\ call' = [call EXCEPT ![c] = NoCall]
        /\ UNCHANGED <<held, welcomes>>

--------------------------------------------------------------------------------
(* A member.                                                                  *)

\* join: any Welcome made out to the member replaces what it holds.
join(m) ==
    /\ \E w \in welcomes : w[1] = m /\ held' = [held EXCEPT ![m] = w[2]]
    /\ UNCHANGED <<group, call, welcomes, commits, made, granted>>

\* apply: a commit made on the very state the member holds advances it; any
\* other does not decrypt, and the one that removes the member says nothing.
apply(m) ==
    /\ held[m] # NoGroup
    /\ \E log \in commits :
        /\ SubSeq(log, 1, Len(log) - 1) = held[m]
        /\ m \in Roster(log)
        /\ held' = [held EXCEPT ![m] = log]
    /\ UNCHANGED <<group, call, welcomes, commits, made, granted>>

Next ==
    \/ \E c \in Caller :
        \/ Founded(c) \/ Granted(c) \/ Revoked(c)
        \/ \E m \in Member : grant(c, m)
        \/ \E leaf \in DOMAIN Leaves(group) :
            Leaves(group)[leaf] \in Member /\ revoke(c, leaf)
    \/ \E m \in Member : join(m) \/ apply(m)

Spec == Init /\ [][Next]_vars

--------------------------------------------------------------------------------

epoch(log) == Len(log) - 1
Holder == Member \cup {Coordinator}
dek(h) == IF h = Coordinator THEN group ELSE held[h]

\* "Every member gets the SAME 32 bytes for the same (group, epoch, resource)"
\* (mls/mls.ts:99), whichever Welcomes and commits reached it, and however late
\* or often, provided the coordinator's calls come one after the other.
SameEpochSameKey ==
    \A a, b \in Holder :
        dek(a) # NoGroup /\ dek(b) # NoGroup /\ epoch(dek(a)) = epoch(dek(b)) => dek(a) = dek(b)

\* "revoke(resource, leaf) = MLS remove: epoch advances, DEK rotates" (mls/
\* compartments.ts:12): the key the coordinator uses now is not one a revoked
\* member can derive, from the old files or the new ones.
RevokedLockedOut ==
    \A m \in Member : held[m] # NoGroup /\ held[m] = group => m \in granted

================================================================================
