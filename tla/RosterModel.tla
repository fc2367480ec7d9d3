------------------------------ MODULE RosterModel ------------------------------
(***************************************************************************)
(* The contacts behind the contact list: EmpathyIndividualManager, which   *)
(* follows the individuals of folks and keeps the most popular of them     *)
(* apart, and EmpathyRosterModelManager, which turns them into what a      *)
(* contact list shows: the individuals and the groups of each, "top" among *)
(* them for the favourites and the most popular.                           *)
(*                                                                         *)
(* Everything runs in the main loop and every signal calls its handlers at *)
(* once, so each step is one signal of folks followed to the end.  An      *)
(* individual is an object; two objects may carry the same identifier,     *)
(* which happens when folks links contacts and replaces one object by      *)
(* another.                                                                *)
(***************************************************************************)
EXTENDS Naturals, Sequences, FiniteSets, SequencesExt, FiniteSetsExt

CONSTANTS Individuals,  \* the objects folks may make
          IdOf,         \* the identifier of each
          Local,        \* those of the people-nearby protocol
          Group,        \* the one group a user makes here
          TopLen,       \* TOP_INDIVIDUALS_LEN (5 in the code)
          CheckEvery,   \* interactions between two checks (10 in the code)
          MaxPop        \* bound: the highest popularity

ASSUME RosterModelAssumption ==
    /\ IsFiniteSet(Individuals) /\ IdOf \in [Individuals -> STRING]
    /\ Local \subseteq Individuals
    /\ Group \notin {"top", "nearby"}
    /\ TopLen \in Nat \ {0} /\ CheckEvery \in Nat \ {0} /\ MaxPop \in Nat

VARIABLES folks,    \* what folks knows of each individual
          manager,  \* EmpathyIndividualManager
          roster,   \* EmpathyRosterModelManager, once the roster window made it
          told,     \* what the signals of the model say of each individual shown
          crashed   \* the process died of a pointer to a freed individual

rosterVars == <<folks, manager, roster, told, crashed>>

NoIndividual == [known |-> FALSE, contact |-> FALSE, favourite |-> FALSE,
                 popularity |-> 0, groups |-> {}]

----------------------------------------------------------------------------
(* A record s gathers the state a handler hands to the handlers it calls:  *)
(* the individuals of folks, members, pop and top of the manager, tops of  *)
(* the model, what is told, and crashed.  Freed memory is read on some     *)
(* paths, so an operator that may reach one gives a set of outcomes.       *)

State == [folks |-> folks, members |-> manager.members, pop |-> manager.pop,
          top |-> manager.top, tops |-> roster.tops, watching |-> roster.watching,
          told |-> told, interactions |-> manager.interactions, crashed |-> FALSE]

\* What holds an individual is folks and the manager; top_group_members is plain
\* pointers.
Alive(s, i) == s.folks[i].known \/ i \in s.members \/ Contains(s.pop, i)

Becomes(s) ==
    IF s.crashed THEN crashed' = TRUE /\ UNCHANGED <<folks, manager, roster, told>>
    ELSE /\ folks' = [i \in Individuals |-> IF Alive(s, i) THEN s.folks[i] ELSE NoIndividual]
         /\ manager' = [manager EXCEPT !.members = s.members, !.pop = s.pop, !.top = s.top,
                                       !.interactions = s.interactions]
         /\ roster' = [roster EXCEPT !.tops = s.tops]
         /\ told' = s.told
         /\ crashed' = FALSE

Popularity(s, i) == s.folks[i].popularity

ShouldBeTop(s, i) == s.folks[i].favourite \/ Contains(s.top, i)

GroupsOf(s, i) ==
    IF i \in Local THEN {"nearby"}
    ELSE s.folks[i].groups \cup (IF Contains(s.tops, i) THEN {"top"} ELSE {})

TellGroup(s, i, group, member) ==
    IF i \notin DOMAIN s.told THEN s
    ELSE [s EXCEPT !.told[i] = IF member THEN @ \cup {group} ELSE @ \ {group}]

TellAdded(s, added) ==
    [s EXCEPT !.told = [i \in DOMAIN @ \cup added |->
                          IF i \in DOMAIN @ THEN @[i] ELSE GroupsOf(s, i)]]

TellRemoved(s, removed) == [s EXCEPT !.told = [i \in DOMAIN @ \ removed |-> @[i]]]

\* What is at some positions of a list, in order.
Picked(list, positions) ==
    [n \in 1 .. Cardinality(positions) |->
       list[CHOOSE k \in positions : Cardinality({j \in positions : j <= k}) = n]]

\* top_individuals_changed_cb, the first loop: those who come in are told, once.
EnterTop(s) ==
    LET comes == {k \in 1 .. Len(s.top) : /\ ~Contains(s.tops, s.top[k])
                                         /\ \A j \in 1 .. k - 1 : s.top[j] # s.top[k]}
        new == Reverse(Picked(s.top, comes))
    IN  [s EXCEPT !.tops = new \o @,
                  !.told = [i \in DOMAIN @ |-> IF Contains(new, i) THEN @[i] \cup {"top"} ELSE @[i]]]

\* The second loop: the first who should not be there is taken off the list,
\* and then the link just freed is read.  Its data is no individual any more
\* and its next is NULL, so no listener hears of it and the loop is over; or
\* the process dies.  An individual of the list that is itself freed may give
\* any answer when it is asked whether it is a favourite, or end the process.
LeaveTop(s) ==
    LET freed == {i \in ToSet(s.tops) : ~Alive(s, i)}
        Leavers(lies) == {k \in 1 .. Len(s.tops) : IF s.tops[k] \in freed THEN s.tops[k] \in lies
                                                  ELSE ~ShouldBeTop(s, s.tops[k])}
        Next(lies) == IF Leavers(lies) = {} THEN s
                      ELSE [s EXCEPT !.tops = RemoveAt(@, Min(Leavers(lies)))]
        safe == freed = {} /\ Leavers({}) = {}
    IN  {Next(lies) : lies \in SUBSET freed}
          \cup (IF safe THEN {} ELSE {[s EXCEPT !.crashed = TRUE]})

TopIndividualsChanged(s) == IF s.watching THEN LeaveTop(EnterTop(s)) ELSE {s}

\* check_top_individuals: the notification goes out unless the new list is the
\* beginning of the old one.
FirstPopular(s) ==
    LET ends == {k \in 1 .. Len(s.pop) : Popularity(s, s.pop[k]) = 0}
                  \cup {TopLen + 1, Len(s.pop) + 1}
    IN  SubSeq(s.pop, 1, Min(ends) - 1)

CheckTopIndividuals(s) ==
    LET new == FirstPopular(s)
    IN  IF IsPrefix(new, s.top) THEN {[s EXCEPT !.top = new]}
        ELSE TopIndividualsChanged([s EXCEPT !.top = new])

\* g_sequence_insert_sorted, behind those at least as popular.
InsertSorted(s, pop, i) ==
    LET lower == {k \in 1 .. Len(pop) : Popularity(s, pop[k]) < Popularity(s, i)}
    IN  InsertAt(pop, Min(lower \cup {Len(pop) + 1}), i)

\* g_sequence_sort leaves those who are equally popular in their order.
Before(s, j, k) ==
    \/ Popularity(s, s.pop[j]) > Popularity(s, s.pop[k])
    \/ Popularity(s, s.pop[j]) = Popularity(s, s.pop[k]) /\ j <= k
Place(s, k) == Cardinality({j \in 1 .. Len(s.pop) : Before(s, j, k)})
SortByPop(s) ==
    [n \in 1 .. Len(s.pop) |-> s.pop[CHOOSE k \in 1 .. Len(s.pop) : Place(s, k) = n]]

WithIdOf(members, i) == {j \in members : IdOf[j] = IdOf[i]}

AddIndividual(s, i) ==
    CheckTopIndividuals(
        [s EXCEPT !.members = (@ \ WithIdOf(@, i)) \cup {i}, !.pop = InsertSorted(s, @, i)])

\* g_sequence_lookup finds an individual as popular as the one looked for, any
\* of them; in a sequence that is out of order it may find none.
Lookup(s, i) == {k \in 1 .. Len(s.pop) : Popularity(s, s.pop[k]) = Popularity(s, i)}

Ordered(s) == \A k \in 1 .. Len(s.pop) - 1 :
                  Popularity(s, s.pop[k]) >= Popularity(s, s.pop[k + 1])

RemoveIndividual(s, i) ==
    LET found == Lookup(s, i)
        missed == IF found = {} \/ ~Ordered(s) THEN {s} ELSE {}
        taken == UNION {CheckTopIndividuals([s EXCEPT !.pop = RemoveAt(@, k)]) : k \in found}
    IN  {[t EXCEPT !.members = @ \ WithIdOf(@, i)] : t \in missed \cup taken}

\* members_changed_cb: one who leaves is taken off the top list only when
\* nothing keeps it there.
ModelAdds(s, added) ==
    LET tops == {i \in added : ShouldBeTop(s, i) /\ ~Contains(s.tops, i)}
    IN  TellAdded([s EXCEPT !.tops = SetToSeq(tops) \o @], added)

ModelRemoves(s, removed) ==
    LET stay == {k \in 1 .. Len(s.tops) : s.tops[k] \notin removed \/ ShouldBeTop(s, s.tops[k])}
    IN  TellRemoved([s EXCEPT !.tops = Picked(@, stay)], removed)

MembersChanged(s, added, removed) ==
    IF s.watching THEN ModelRemoves(ModelAdds(s, added), removed) ELSE s

----------------------------------------------------------------------------
RosterInit ==
    /\ folks = [i \in Individuals |-> NoIndividual]
    /\ manager = [members |-> {}, pop |-> <<>>, top |-> <<>>, interactions |-> 0,
                  loaded |-> FALSE]
    /\ roster = [watching |-> FALSE, tops |-> <<>>]
    /\ told = [i \in {} |-> {}]
    /\ crashed = FALSE

\* folks may know any details of an individual before it shows it.
NewIndividual == [known : {TRUE}, contact : BOOLEAN, favourite : BOOLEAN,
                  popularity : 0 .. MaxPop, groups : SUBSET {Group}]

HandledAdditionsFirst(s, out, in) ==
    LET In(t) == UNION {AddIndividual(t, i) : i \in in}
        Out(t) == UNION {RemoveIndividual(t, i) : i \in out}
        come == IF in = {} THEN {s} ELSE In(s)
    IN  IF out = {} THEN come ELSE UNION {Out(t) : t \in come}

\* aggregator_individuals_changed_cb: the removals come first, "as one of the
\* added Individuals might have the same ID as one of the removed".  One object
\* goes out and one comes in at most.
Handled(s, out, in) ==
    LET Out(t) == UNION {RemoveIndividual(t, i) : i \in out}
        In(t) == UNION {AddIndividual(t, i) : i \in in}
        gone == IF out = {} THEN {s} ELSE Out(s)
    IN  IF in = {} THEN gone ELSE UNION {In(t) : t \in gone}

AggregatorIndividualsChanged(out, in) ==
    LET known == {i \in Individuals : folks[i].known}
        removed == {i \in out : WithIdOf(manager.members, i) # {}}
    IN  /\ out \cup in # {} /\ out \subseteq known
        /\ \A i \in in : ~Alive(State, i) /\ WithIdOf(known \ out, i) = {}
        /\ \E born \in [in -> NewIndividual] :
             LET added == {i \in in : born[i].contact}
                 now == [i \in Individuals |->
                           IF i \in in THEN born[i]
                           ELSE [folks[i] EXCEPT !.known = @ /\ i \notin out]]
             IN  \E s \in Handled([State EXCEPT !.folks = now], removed, added) :
                    Becomes(MembersChanged(s, added, removed))

\* individual_notify_personas_cb: an individual gets its first contact, or
\* loses its last.  Here the signal goes out before the manager forgets it.
PersonasChanged(i) ==
    LET had == WithIdOf(manager.members, i) # {}
        s == [State EXCEPT !.folks[i].contact = ~@]
    IN  /\ folks[i].known
        /\ \/ had /\ folks[i].contact
              /\ \E t \in RemoveIndividual(MembersChanged(s, {}, {i}), i) : Becomes(t)
           \/ ~had /\ ~folks[i].contact
              /\ \E t \in AddIndividual(s, i) : Becomes(MembersChanged(t, {i}, {}))

\* individual_group_changed_cb and groups_changed_cb hand the change on.
GroupChanged(i) ==
    /\ i \in manager.members
    /\ LET member == Group \notin folks[i].groups
           s == [State EXCEPT !.folks[i].groups = IF member THEN {Group} ELSE {}]
       IN  Becomes(IF s.watching THEN TellGroup(s, i, Group, member) ELSE s)

\* individual_notify_is_favourite_cb emits favourites-changed; the model waits
\* for notify::favourites-changed, which nobody emits.
FavouriteChanged(i) ==
    /\ i \in manager.members
    /\ Becomes([State EXCEPT !.folks[i].favourite = ~@])

\* individual_notify_im_interaction_count
InteractionCountChanged(i) ==
    LET check == manager.interactions = 0
    IN  /\ i \in manager.members
        /\ \E p \in folks[i].popularity .. MaxPop :
             LET s == [State EXCEPT !.folks[i].popularity = p,
                                    !.interactions = (@ + 1) % CheckEvery]
                 sorted == [s EXCEPT !.pop = SortByPop(s)]
             IN  \E t \in (IF check THEN CheckTopIndividuals(sorted) ELSE {sorted}) : Becomes(t)

\* Thirty days without an interaction: nothing is emitted, nothing is sorted.
PopularityExpires(i) ==
    /\ Alive(State, i) /\ folks[i].popularity > 0
    /\ Becomes([State EXCEPT !.folks[i].popularity = 0])

\* aggregator_is_quiescent_notify_cb
AggregatorIsQuiescent ==
    /\ ~manager.loaded
    /\ manager' = [manager EXCEPT !.loaded = TRUE]
    /\ UNCHANGED <<folks, roster, told, crashed>>

\* The roster window makes the model, which asks the manager for its members.
PopulateModel ==
    /\ ~roster.watching
    /\ LET s == ModelAdds(State, manager.members)
       IN  roster' = [watching |-> TRUE, tops |-> s.tops] /\ told' = s.told
    /\ UNCHANGED <<folks, manager, crashed>>

RosterNext ==
    /\ ~crashed
    /\ \/ \E out, in \in {{}} \cup {{i} : i \in Individuals} : AggregatorIndividualsChanged(out, in)
       \/ \E i \in Individuals : \/ PersonasChanged(i) \/ GroupChanged(i) \/ FavouriteChanged(i)
                                 \/ InteractionCountChanged(i) \/ PopularityExpires(i)
       \/ AggregatorIsQuiescent \/ PopulateModel

RosterSpec == RosterInit /\ [][RosterNext]_rosterVars

----------------------------------------------------------------------------
\* Whoever follows the model's signals shows exactly the individuals the manager
\* has, through links that put one object in the place of another and contacts
\* that come and go inside an individual; and it knows the groups of each: the
\* user's as they are, and "top" for all those among the most popular.  (That some
\* stay in "top" for ever is another matter: see LeaveTop and FavouriteChanged.)
\* The plain pointers of top_individuals are kept alive by the sequence they were
\* taken from, whichever of two equally popular individuals a removal takes out.
ListenersKnowTheModel ==
    /\ roster.watching => DOMAIN told = manager.members
    /\ \A i \in DOMAIN told \ Local :
         /\ told[i] \ {"top"} = folks[i].groups
         /\ Contains(manager.top, i) => "top" \in told[i]
    /\ ToSet(manager.top) \subseteq ToSet(manager.pop)
=============================================================================
