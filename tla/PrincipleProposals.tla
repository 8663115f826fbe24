-------------------------- MODULE PrincipleProposals --------------------------
(***************************************************************************)
(* The life of a user's executable rules.  A run judges the trades by the  *)
(* active principles; its report of proposals is stored by the job, or by  *)
(* a GET that finds none; the narrative stores it again with the values a  *)
(* language model answered.  POST /principles/proposals/accept applies a   *)
(* stored proposal in a transaction, POST /principles saves the user's own *)
(* choice, and thresholds may be confirmed meanwhile.  A step of a         *)
(* transaction is what others can see of it: the lock its INSERT IGNORE    *)
(* takes on the application's key, the snapshot its first plain SELECT     *)
(* opens (InnoDB, REPEATABLE READ), and its commit or rollback.  A report  *)
(* built by an earlier version under the same identity may hold other      *)
(* proposals: discoveries, and proposals that name no item.                *)
(***************************************************************************)
EXTENDS PrincipleReport

CONSTANTS
  Clients,       \* requests in flight at one time
  Sims,          \* finished simulation runs of the user
  MaxSets,       \* bound: principle sets
  MaxItems,      \* bound: principle_set_items
  FirstItems,    \* [text, rule] of the items the user starts with: sequences
  Measurements,  \* the measured trades of a run: sequences
  OldProposals,  \* reports an earlier version left: sets of proposals
  Answers,       \* [Paths -> values the model may answer for a proposal]
  Confirmable,   \* [Paths -> values a user may confirm]
  SaveLists,     \* bodies of POST /principles: sequences of entries
  NoClient, NoItem

Items == 1..MaxItems
Recs == 1..MaxItems      \* recommendationId - 4000
Proposal(p) ==
  p \in [rec : Recs, type : {"REINFORCEMENT", "DISCOVERY"}, item : Items \cup {NoItem},
         text : Texts, path : Paths, current : Values, value : Values]

ASSUME PrincipleAssumption ==
  /\ MaxSets \in Nat \ {0} /\ MaxItems \in Nat \ {0}
  /\ NoClient \notin Clients /\ NoItem \notin Items
  /\ \A first \in FirstItems :
       first \in Seq([text : Texts, rule : Rules]) /\ Len(first) \in Items
  /\ Measurements \subseteq Seq(Trades)
  /\ \A old \in OldProposals : \A p \in old : Proposal(p)
  /\ \A path \in Paths : Answers[path] \subseteq Int /\ Confirmable[path] \subseteq Values
  /\ SaveLists \subseteq Seq([rec : Nat \cup {NoItem}, text : Texts, rule : Rules, sort : Nat])

VARIABLES
  sets,       \* principle_sets of the user are 1..sets; the last is ACTIVE
  item,       \* principle_set_items, by id
  confirmed,  \* personal_bot_rule_confirmations
  drafts,     \* the reports a run's detail yields before narration, once it ran
  report,     \* proposals in the stored report of a run, once there is one
  app,        \* principle_proposal_applications: the item of an APPLIED row
  keyLock,    \* who holds the row lock on an application's key
  client,     \* requests under way
  told,       \* history: the items answered for an application
  effects     \* history: commits that carried out a proposal

tables == <<sets, item, confirmed>>
reports == <<drafts, report>>
vars == <<tables, reports, app, keyLock, client, told, effects>>

Keys == Sims \X Recs
Idle == [pc |-> "idle"]
NoReport == {NoItem}
Row(set, origin, text, rule, sort) ==
  [set |-> set, origin |-> origin, text |-> text, rule |-> rule, sort |-> sort]
Ids(table) == DOMAIN table
NextId(table) == Cardinality(Ids(table)) + 1
Put(table, id, row) == [i \in Ids(table) \cup {id} |-> IF i = id THEN row ELSE table[i]]
Key(r) == <<r.sim, r.proposal.rec>>

Init ==
  /\ sets = 1
  /\ \E first \in FirstItems :
       item = [i \in 1..Len(first) |-> Row(1, NoItem, first[i].text, first[i].rule, i)]
  /\ confirmed = NoRule
  /\ drafts = [s \in Sims |-> {}]
  /\ report = [s \in Sims |-> NoReport]
  /\ app = [k \in Keys |-> NoItem]
  /\ keyLock = [k \in Keys |-> NoClient]
  /\ client = [c \in Clients |-> Idle]
  /\ told = {}
  /\ effects = [k \in Keys |-> 0]

(* The items of the active set, in the order of sort_order, of a tie in    *)
(* that of ids.                                                            *)
Active == {i \in Ids(item) : item[i].set = sets}
Place(i) ==
  Cardinality({j \in Active : \/ item[j].sort < item[i].sort
                              \/ item[j].sort = item[i].sort /\ j <= i})

(* Run s is judged by the principles and confirmations it read: a report   *)
(* of it, whenever it is built, holds what some measurement of its trades  *)
(* proposes.                                                               *)
Proposed(trades) ==
  UNION {Suggestions(Place(i), i, item[i], confirmed, trades) : i \in Active}
Evaluate(s) ==
  /\ drafts[s] = {}
  /\ drafts' = [drafts EXCEPT ![s] = {Proposed(trades) : trades \in Measurements}]
  /\ UNCHANGED <<tables, report, app, keyLock, client, told, effects>>

(* Or an earlier version ran it and stored the report, not narrated yet. *)
Inherit(s) ==
  /\ drafts[s] = {}
  /\ \E old \in OldProposals :
       drafts' = [drafts EXCEPT ![s] = {old}] /\ report' = [report EXCEPT ![s] = old]
  /\ UNCHANGED <<tables, app, keyLock, client, told, effects>>
Inherited(s) == \E old \in OldProposals : drafts[s] = {old}

(* The job stores its report, a GET that read none builds and stores one:  *)
(* over a narrated one too, if that was stored meanwhile.                  *)
Report(s) ==
  /\ ~Inherited(s)
  /\ \E draft \in drafts[s] : report' = [report EXCEPT ![s] = draft]
  /\ UNCHANGED <<tables, drafts, app, keyLock, client, told, effects>>

(* Mutant: any value in the rule's range is taken. *)
MergeableUnchecked(p, v) == InRange(p.path, v)

(* An answered value is taken if it lies in the rule's range and, for the  *)
(* reinforcement of a known value, is not on its looser side; the current  *)
(* value itself is taken, and fractions of whole units.  Of a switch, all  *)
(* that is not 0 counts as 1.                                              *)
Mergeable(p, v) ==
  /\ InRange(p.path, v)
  /\ p.type = "REINFORCEMENT" /\ p.current # NoValue =>
       AsStrict(Direction(p.path), v, p.current)

(* What the model can make of a proposal: its value, whether it had one or *)
(* not, and the sentence a discovery will add (_merge_narratives).         *)
Narrations(p) ==
  LET worded == IF p.type = "DISCOVERY" THEN {[p EXCEPT !.text = t] : t \in Texts} ELSE {p}
      values == {p.value} \cup {v \in Answers[p.path] : Mergeable(p, v)}
  IN {[w EXCEPT !.value = v] : w \in worded, v \in values}

(* The narrative's thread merges the answers into its copy of a report not *)
(* narrated yet, and stores that over the report there is.                 *)
Narrate(s) ==
  /\ \E draft \in drafts[s] :
       \E answer \in [draft -> UNION {Narrations(p) : p \in draft}] :
         /\ \A p \in draft : answer[p] \in Narrations(p)
         /\ report' = [report EXCEPT ![s] = Range(answer)]
  /\ UNCHANGED <<tables, drafts, app, keyLock, client, told, effects>>

-----------------------------------------------------------------------------
(* accept_principle_proposal *)

(* The run is the caller's, the stored report has the proposal asked for. *)
Ask(c) ==
  /\ client[c].pc = "idle"
  /\ \E s \in Sims : \E p \in report[s] \ NoReport :
       client' = [client EXCEPT ![c] = [pc |-> "claim", sim |-> s, proposal |-> p]]
  /\ UNCHANGED <<tables, reports, app, keyLock, told, effects>>

(* Mutant: the INSERT neither waits for nor ignores a row already there. *)
ClaimAnyway(c) ==
  /\ client[c].pc = "claim"
  /\ keyLock' = [keyLock EXCEPT ![Key(client[c])] = c]
  /\ client' = [client EXCEPT ![c] =
       [pc |-> "read", sim |-> @.sim, proposal |-> @.proposal]]
  /\ UNCHANGED <<tables, reports, app, told, effects>>

(* INSERT IGNORE of the PROCESSING row: waits for whoever holds the key,   *)
(* and inserts if that one rolled back.                                    *)
Claim(c) ==
  /\ client[c].pc = "claim"
  /\ keyLock[Key(client[c])] = NoClient
  /\ app[Key(client[c])] = NoItem
  /\ keyLock' = [keyLock EXCEPT ![Key(client[c])] = c]
  /\ client' = [client EXCEPT ![c] =
       [pc |-> "read", sim |-> @.sim, proposal |-> @.proposal]]
  /\ UNCHANGED <<tables, reports, app, told, effects>>

(* Mutant: the answer names the item the proposal was made for. *)
ReplayProposal(c) ==
  /\ client[c].pc = "claim"
  /\ keyLock[Key(client[c])] = NoClient
  /\ app[Key(client[c])] # NoItem
  /\ told' = told \cup {<<Key(client[c]), client[c].proposal.item>>}
  /\ client' = [client EXCEPT ![c] = Idle]
  /\ UNCHANGED <<tables, reports, app, keyLock, effects>>

(* The key is taken: a committed row is always APPLIED, so the answer of   *)
(* that application is repeated.                                           *)
Replay(c) ==
  /\ client[c].pc = "claim"
  /\ keyLock[Key(client[c])] = NoClient
  /\ app[Key(client[c])] # NoItem
  /\ told' = told \cup {<<Key(client[c]), app[Key(client[c])]>>}
  /\ client' = [client EXCEPT ![c] = Idle]
  /\ UNCHANGED <<tables, reports, app, keyLock, effects>>

(* The items the proposal may mean: the one it names, or if it names none  *)
(* those with its sentence or a rule for its path.                         *)
Candidates(p) ==
  {i \in Active :
     IF p.item # NoItem THEN i = p.item
     ELSE item[i].text = p.text \/ p.path \in RulePaths(item[i].rule)}

NextSort(set) ==
  LET sorts == {item[i].sort : i \in {j \in Ids(item) : item[j].set = set}}
  IN IF sorts = {} THEN 1 ELSE Max(sorts) + 1

(* The plain SELECTs of one snapshot: the newest set and, for a discovery, *)
(* the next sort_order,                                                    *)
ReadPlace(c) ==
  /\ client[c].pc = "read"
  /\ client[c].proposal.type = "DISCOVERY"
  /\ client' = [client EXCEPT ![c] =
       [pc |-> "write", sim |-> @.sim, proposal |-> @.proposal,
        set |-> sets, sort |-> NextSort(sets)]]
  /\ UNCHANGED <<tables, reports, app, keyLock, told, effects>>

(* or else the item to reinforce: a first one by sort_order.               *)
ReadItem(c) ==
  LET found == Candidates(client[c].proposal) IN
  /\ client[c].pc = "read"
  /\ client[c].proposal.type = "REINFORCEMENT"
  /\ \E i \in found :
       /\ \A j \in found : item[i].sort <= item[j].sort
       /\ client' = [client EXCEPT ![c] =
            [pc |-> "write", sim |-> @.sim, proposal |-> @.proposal,
             found |-> i, seen |-> item[i].rule]]
  /\ UNCHANGED <<tables, reports, app, keyLock, told, effects>>

(* Mutant: a refusal commits nothing but does not roll back. *)
RollbackNothing(c) ==
  /\ client[c].pc \in {"claim", "read", "write"}
  /\ client' = [client EXCEPT ![c] = Idle]
  /\ UNCHANGED <<tables, reports, app, keyLock, told, effects>>

(* No item to reinforce, or a statement raised, as the INSERT does when it *)
(* waited too long: rolled back.                                           *)
Rollback(c) ==
  /\ client[c].pc \in {"claim", "read", "write"}
  /\ keyLock' = [k \in Keys |-> IF keyLock[k] = c THEN NoClient ELSE keyLock[k]]
  /\ client' = [client EXCEPT ![c] = Idle]
  /\ UNCHANGED <<tables, reports, app, told, effects>>

Patch(p) == IF p.value = NoValue THEN NoRule ELSE [NoRule EXCEPT ![p.path] = p.value]

(* Mutant: the patch replaces the rule. *)
MergeRuleReplacing(base, patch) == patch

(* _merge_rule_json *)
MergeRule(base, patch) ==
  [p \in Paths |-> IF patch[p] # NoValue THEN patch[p] ELSE base[p]]

(* What is inserted or updated: the merge of the rule that was read. *)
Written(r) ==
  LET p == r.proposal IN
  IF p.type = "DISCOVERY"
  THEN Put(item, NextId(item), Row(r.set, NoItem, p.text, Patch(p), r.sort))
  ELSE [item EXCEPT ![r.found].rule = MergeRule(r.seen, Patch(p))]

WrittenId(r) == IF r.proposal.type = "DISCOVERY" THEN NextId(item) ELSE r.found

(* The row and the mark APPLIED are committed together. *)
Apply(c) ==
  LET r == client[c] IN
  /\ r.pc = "write"
  /\ WrittenId(r) \in Items
  /\ item' = Written(r)
  /\ app' = [app EXCEPT ![Key(r)] = WrittenId(r)]
  /\ effects' = [effects EXCEPT ![Key(r)] = @ + 1]
  /\ told' = told \cup {<<Key(r), WrittenId(r)>>}
  /\ keyLock' = [keyLock EXCEPT ![Key(r)] = NoClient]
  /\ client' = [client EXCEPT ![c] = Idle]
  /\ UNCHANGED <<sets, confirmed, reports>>

-----------------------------------------------------------------------------
(* _save_principles_db_task *)

(* Some set of the user (LIMIT 1 without ORDER BY) and its snapshot. *)
SaveRead(c) ==
  /\ client[c].pc = "idle"
  /\ \E set \in 1..sets, list \in SaveLists :
       client' = [client EXCEPT ![c] =
         [pc |-> "save", set |-> set, list |-> list, view |-> item]]
  /\ UNCHANGED <<tables, reports, app, keyLock, told, effects>>

(* The item an entry replaces: by its recommendation, else by its place. *)
Existing(view, set, entry) ==
  LET rows == {i \in Ids(view) : view[i].set = set}
      same == {i \in rows : entry.rec # NoItem /\ view[i].origin = entry.rec}
  IN IF same # {} THEN same ELSE {i \in rows : view[i].sort = entry.sort}

(* One entry, written to the table and to the transaction's own view. *)
SaveEntry(set, entry, both) ==
  LET old == Existing(both.view, set, entry)
      id == IF old = {} THEN NextId(both.table) ELSE Min(old)
      origin == IF old = {} THEN entry.rec ELSE both.view[id].origin
      row == Row(set, origin, entry.text, entry.rule, entry.sort)
  IN [table |-> Put(both.table, id, row), view |-> Put(both.view, id, row)]

(* The entries of the list one after the other. *)
Saved(r) ==
  LET after[n \in 0..Len(r.list)] ==
        IF n = 0 THEN [table |-> item, view |-> r.view]
        ELSE SaveEntry(r.set, r.list[n], after[n - 1])
  IN after[Len(r.list)].table

SaveWrite(c) ==
  /\ client[c].pc = "save"
  /\ Ids(Saved(client[c])) \subseteq Items
  /\ item' = Saved(client[c])
  /\ client' = [client EXCEPT ![c] = Idle]
  /\ UNCHANGED <<sets, confirmed, reports, app, keyLock, told, effects>>

SaveRaises(c) ==
  /\ client[c].pc = "save"
  /\ client' = [client EXCEPT ![c] = Idle]
  /\ UNCHANGED <<tables, reports, app, keyLock, told, effects>>

-----------------------------------------------------------------------------
(* save_rule_confirmations *)
Confirm(path) ==
  /\ \E v \in Confirmable[path] : confirmed' = [confirmed EXCEPT ![path] = v]
  /\ UNCHANGED <<sets, item, reports, app, keyLock, client, told, effects>>

(* The principle service gives the user a new set, of one item. *)
NewSet ==
  /\ sets < MaxSets /\ NextId(item) \in Items
  /\ sets' = sets + 1
  /\ \E first \in FirstItems :
       item' = Put(item, NextId(item), Row(sets', NoItem, first[1].text, first[1].rule, 1))
  /\ UNCHANGED <<confirmed, reports, app, keyLock, client, told, effects>>

Step(c) ==
  \/ Claim(c) \/ Replay(c) \/ ReadPlace(c) \/ ReadItem(c) \/ Rollback(c) \/ Apply(c)
  \/ SaveWrite(c) \/ SaveRaises(c)

Next ==
  \/ \E s \in Sims : Evaluate(s) \/ Inherit(s) \/ Report(s) \/ Narrate(s)
  \/ \E c \in Clients : Ask(c) \/ SaveRead(c) \/ Step(c)
  \/ \E path \in Paths : Confirm(path)
  \/ NewSet

Spec == Init /\ [][Next]_vars

-----------------------------------------------------------------------------
(* The tables, the requests and the history are well formed. *)
PrincipleTypeOK ==
  /\ sets \in 1..MaxSets
  /\ Ids(item) \subseteq Items
  /\ \A i \in Ids(item) :
       /\ item[i].set \in 1..sets /\ item[i].text \in Texts
       /\ item[i].rule \in Rules /\ item[i].sort \in Nat
  /\ confirmed \in Rules
  /\ \A s \in Sims : /\ \A draft \in drafts[s] : \A p \in draft : Proposal(p)
                     /\ \A p \in report[s] \ NoReport : Proposal(p)
  /\ app \in [Keys -> Items \cup {NoItem}]
  /\ keyLock \in [Keys -> Clients \cup {NoClient}]
  /\ \A c \in Clients : client[c].pc \in {"idle", "claim", "read", "write", "save"}
  /\ told \subseteq Keys \X Items
  /\ effects \in [Keys -> Nat]

(* However often, and by however many requests at once, a proposal is      *)
(* accepted, it is carried out once, and exactly when its application is   *)
(* on record (principles.py:126-178, 273-285).                             *)
AppliedOnce == \A k \in Keys : effects[k] = IF app[k] = NoItem THEN 0 ELSE 1

(* Every client told that a proposal was applied was told of the same      *)
(* item, the recorded one, first answer or repeated (165-177, 286-294).    *)
AnswersAgree == \A answer \in told : app[answer[1]] = answer[2]

(* What a proposal's value does to the value it was judged by. *)
Tightens(p) ==
  p.value # NoValue =>
    Allowed(p.path, p.value) /\ (p.current # NoValue => Tighter(p.path, p.current, p.value))
Keeps(p) ==
  p.value # NoValue =>
    InRange(p.path, p.value) /\ (p.current # NoValue => ~Tighter(p.path, p.value, p.current))

(* A proposal the rule engine makes is strictly tighter than the value it  *)
(* was judged by, and allowed, whole units included, or it changes no      *)
(* value.  Whatever the model answers and however often a report is stored *)
(* again, a stored proposal of such a run stays in the rule's range and is *)
(* never looser than that value (build_strengthen_proposal,                *)
(* report_generator.py:328-351); it may repeat it.                         *)
ProposalsNeverLoosen ==
  \A s \in {run \in Sims : ~Inherited(run)} :
    /\ \A draft \in drafts[s] : \A p \in draft : Tightens(p)
    /\ \A p \in report[s] \ NoReport : Keeps(p)

(* Request c applies a reinforcement in this step. *)
Reinforces(c) ==
  /\ client[c].pc = "write" /\ client[c].proposal.type = "REINFORCEMENT"
  /\ client'[c] = Idle /\ app' # app

(* An acceptance changes the rule of the item its proposal names and       *)
(* nothing else of the item or of others; if the item still has the value  *)
(* the proposal was made for, it does not get a looser one, however the    *)
(* report was rewritten since; and if the item is still as the transaction *)
(* saw it, no other rule of it changes (principles.py:188-193, 227-272).   *)
FreshAcceptNeverLoosens ==
  [][\A c \in Clients : Reinforces(c) =>
       LET p == client[c].proposal
           old == item[client[c].found]
           new == item'[client[c].found]
       IN /\ p.item \in {client[c].found, NoItem}
          /\ \A i \in Ids(item) \ {client[c].found} : item'[i] = item[i]
          /\ new = [old EXCEPT !.rule = new.rule]
          /\ /\ ~Inherited(client[c].sim) /\ p.value # NoValue
             /\ p.current # NoValue /\ old.rule[p.path] = p.current
             => ~Tighter(p.path, new.rule[p.path], p.current)
          /\ client[c].seen = old.rule =>
               \A q \in Paths \ {p.path} : new.rule[q] = old.rule[q]]_vars

(* An acceptance never loosens the rule it reinforces: "Reinforcement      *)
(* tightens the execution threshold this service owns" (principles.py:190).*)
AcceptNeverLoosens ==
  [][\A c \in Clients :
       Reinforces(c) /\ ~Inherited(client[c].sim) =>
         LET path == client[c].proposal.path
             i == client[c].found
         IN ~Tighter(path, item'[i].rule[path], item[i].rule[path])]_vars

(* A key is locked only by a request that is between its INSERT and its    *)
(* commit or rollback: a refused or failed acceptance never keeps its      *)
(* proposal from being accepted later (141-178, 295-308).                  *)
KeysHeldInFlight ==
  \A k \in Keys : \A c \in Clients :
    keyLock[k] = c <=> client[c].pc \in {"read", "write"} /\ Key(client[c]) = k
=============================================================================
