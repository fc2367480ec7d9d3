------------------------- MODULE ContactListProofs -------------------------
(***************************************************************************)
(* What the main window says of the accounts, what the log window shows of *)
(* the logs, what those who follow the contacts are told and which rows    *)
(* the list of contacts has, for any accounts, contacts, days and logs.    *)
(***************************************************************************)
EXTENDS RosterModel, RosterView, RosterWindow, LogWindow, ListFacts, TLAPS

-----------------------------------------------------------------------------
(* The main window.  Only an account that is listened to has a bar, so that *)
(* the bar hears of the connection that makes it wrong.                     *)
AccountTyped ==
  [valid : BOOLEAN, enabled : BOOLEAN, status : {"off", "connecting", "on"},
   connected : BOOLEAN, paid : BOOLEAN]

WindowTyped ==
  /\ account \in [Accounts -> AccountTyped]
  /\ ready \in [prepared : BOOLEAN, loaded : BOOLEAN]
  /\ bar \in [Accounts -> {"none", "error", "upgrade"}]

BarsListen == \A a \in Accounts : bar[a] # "none" => a \in listening /\ account[a].status # "on"

(* A page that is right for the accounts as they are.                       *)
PageFits(p, now) ==
  /\ p # "loading"
  /\ p = "no account" => \A a \in Accounts : ~now[a].valid
  /\ p = "not enabled" => \A a \in Accounts : now[a].valid => ~now[a].enabled

PageTells == ready.prepared /\ ready.loaded => PageFits(page, account)

WindowInv == WindowTyped /\ BarsListen /\ PageTells

LEMMA PageForFits ==
  ASSUME NEW now
  PROVE  PageFits(PageFor(now, TRUE), now)
  BY DEF PageFits, PageFor

(* What happens before the account manager and the contacts are there, and   *)
(* what gets them there.                                                     *)
LEMMA WindowGetsReady ==
  ASSUME WindowInv, ManagerPrepared \/ ContactsLoaded
  PROVE  WindowInv'
<1>1. /\ account' = account /\ bar' = bar /\ listening \subseteq listening'
      /\ page' = PageFor(account, ready'.loaded)
      /\ ready' \in [prepared : BOOLEAN, loaded : BOOLEAN]
  BY DEF ManagerPrepared, ContactsLoaded, AddAccounts, WindowInv, WindowTyped
<1>2. WindowTyped' /\ BarsListen'
  BY <1>1 DEF WindowInv, WindowTyped, BarsListen
<1>3. ready'.loaded = TRUE => PageFits(page', account')
  BY <1>1, PageForFits
<1>4. ready'.loaded \in BOOLEAN
  BY <1>1
<1> QED BY <1>2, <1>3, <1>4 DEF WindowInv, PageTells

(* An account becomes valid or invalid, is removed, enabled or disabled: the *)
(* page follows, or what it says stays true.                                 *)
LEMMA AccountComesAndGoes ==
  ASSUME WindowInv, NEW a \in Accounts,
         BecomesValid(a) \/ BecomesInvalid(a) \/ Removed(a) \/ EnabledChanged(a)
  PROVE  WindowInv'
<1>1. /\ account \in [Accounts -> AccountTyped] /\ account[a] \in AccountTyped
      /\ bar \in [Accounts -> {"none", "error", "upgrade"}]
  BY DEF WindowInv, WindowTyped
<1>2. PICK r \in AccountTyped : account' = [account EXCEPT ![a] = r] /\ r.status = account[a].status
  <2>1. CASE BecomesValid(a)
    <3>1. account' = [account EXCEPT ![a] = [account[a] EXCEPT !.valid = TRUE]]
      BY <1>1, <2>1 DEF BecomesValid
    <3>2. [account[a] EXCEPT !.valid = TRUE] \in AccountTyped
          /\ [account[a] EXCEPT !.valid = TRUE].status = account[a].status
      BY <1>1 DEF AccountTyped
    <3> QED BY <3>1, <3>2
  <2>2. CASE BecomesInvalid(a)
    <3>1. account' = [account EXCEPT ![a] = [account[a] EXCEPT !.valid = FALSE]]
      BY <1>1, <2>2 DEF BecomesInvalid
    <3>2. [account[a] EXCEPT !.valid = FALSE] \in AccountTyped
          /\ [account[a] EXCEPT !.valid = FALSE].status = account[a].status
      BY <1>1 DEF AccountTyped
    <3> QED BY <3>1, <3>2
  <2>3. CASE Removed(a)
    <3>1. account' = [account EXCEPT ![a] = [account[a] EXCEPT !.valid = FALSE, !.enabled = FALSE]]
      BY <1>1, <2>3 DEF Removed
    <3>2. [account[a] EXCEPT !.valid = FALSE, !.enabled = FALSE] \in AccountTyped
          /\ [account[a] EXCEPT !.valid = FALSE, !.enabled = FALSE].status = account[a].status
      BY <1>1 DEF AccountTyped
    <3> QED BY <3>1, <3>2
  <2>4. CASE EnabledChanged(a)
    <3>1. account' = [account EXCEPT ![a] = [account[a] EXCEPT !.enabled = ~@]]
      BY <1>1, <2>4 DEF EnabledChanged
    <3>2. [account[a] EXCEPT !.enabled = ~@] \in AccountTyped
      BY <1>1 DEF AccountTyped
    <3>3. [account[a] EXCEPT !.enabled = ~@].status = account[a].status
      BY <1>1 DEF AccountTyped
    <3> QED BY <3>1, <3>2, <3>3
  <2> QED BY <2>1, <2>2, <2>3, <2>4
<1>3. /\ bar' = bar \/ bar' = [bar EXCEPT ![a] = "none"]
      /\ listening \subseteq listening' /\ ready' = ready
  BY DEF BecomesValid, BecomesInvalid, Removed, EnabledChanged, AddAccounts
<1>4. WindowTyped' /\ BarsListen'
  BY <1>1, <1>2, <1>3 DEF WindowInv, WindowTyped, BarsListen
<1>5. ASSUME ready.prepared, ready.loaded PROVE PageFits(page', account')
  <2>0. ready.loaded = TRUE
    BY <1>5 DEF WindowInv, WindowTyped
  <2>1. CASE page' = PageFor(account', ready.loaded)
    BY <2>0, <2>1, PageForFits
  <2>2. CASE Removed(a)
    <3>1. page' = page /\ account' = [account EXCEPT ![a] = [account[a] EXCEPT !.valid = FALSE, !.enabled = FALSE]]
      BY <1>1, <2>2 DEF Removed
    <3>2. ~account'[a].valid /\ \A b \in Accounts : b # a => account'[b] = account[b]
      BY <1>1, <3>1 DEF AccountTyped
    <3> QED BY <1>5, <3>1, <3>2 DEF WindowInv, PageTells, PageFits
  <2> QED BY <1>5, <2>1, <2>2 DEF BecomesValid, BecomesInvalid, EnabledChanged
<1> QED BY <1>3, <1>4, <1>5 DEF WindowInv, PageTells

(* A connection comes and goes, and a bar is answered.                       *)
LEMMA ConnectionTold ==
  ASSUME WindowInv, NEW a \in Accounts,
         \/ ConnectionChanged(a) \/ BarClicked(a)
         \/ \E status \in {"off", "connecting", "on"}, fails, upgrade \in BOOLEAN :
              StatusChanged(a, status, fails, upgrade)
  PROVE  WindowInv'
<1>1. /\ account \in [Accounts -> AccountTyped] /\ account[a] \in AccountTyped
      /\ bar \in [Accounts -> {"none", "error", "upgrade"}]
  BY DEF WindowInv, WindowTyped
<1>2. CASE ConnectionChanged(a)
  <2>1. /\ account' = [account EXCEPT ![a] = [account[a] EXCEPT !.connected = ~@]]
        /\ UNCHANGED <<ready, listening, bar, page>>
    BY <1>1, <1>2 DEF ConnectionChanged
  <2>2. [account[a] EXCEPT !.connected = ~@] \in AccountTyped
    BY <1>1 DEF AccountTyped
  <2>3. \A b \in Accounts : /\ account'[b].status = account[b].status
                            /\ account'[b].valid = account[b].valid
                            /\ account'[b].enabled = account[b].enabled
    BY <1>1, <2>1 DEF AccountTyped
  <2> QED BY <1>1, <2>1, <2>2, <2>3
      DEF WindowInv, WindowTyped, BarsListen, PageTells, PageFits
<1>3. CASE BarClicked(a)
  BY <1>1, <1>3 DEF BarClicked, WindowInv, WindowTyped, BarsListen, PageTells
<1>4. ASSUME NEW status \in {"off", "connecting", "on"}, NEW fails \in BOOLEAN, NEW upgrade \in BOOLEAN,
             StatusChanged(a, status, fails, upgrade)
      PROVE  WindowInv'
  <2>1. /\ account' = [account EXCEPT ![a] = [account[a] EXCEPT !.status = status]]
        /\ UNCHANGED <<ready, listening, page>>
    BY <1>1, <1>4 DEF StatusChanged
  <2>2. [account[a] EXCEPT !.status = status] \in AccountTyped
    BY <1>1 DEF AccountTyped
  <2>3. /\ \A b \in Accounts : account'[b].valid = account[b].valid /\ account'[b].enabled = account[b].enabled
        /\ account'[a].status = status /\ \A b \in Accounts : b # a => account'[b] = account[b]
    BY <1>1, <2>1 DEF AccountTyped
  <2>4. CASE a \notin listening
    <3>1. bar' = bar
      BY <1>4, <2>4 DEF StatusChanged
    <3> QED BY <1>1, <2>1, <2>2, <2>3, <2>4, <3>1
        DEF WindowInv, WindowTyped, BarsListen, PageTells, PageFits
  <2>5. CASE a \in listening
    <3>1. ErrorBar(a, upgrade) \in {"none", "error", "upgrade"}
      BY <1>1 DEF ErrorBar
    <3>2. PICK b \in {"none", "error", "upgrade"} :
            bar' = [bar EXCEPT ![a] = b] /\ (status = "on" => b = "none")
      BY <1>1, <1>4, <2>5, <3>1 DEF StatusChanged
    <3> QED BY <1>1, <2>1, <2>2, <2>3, <2>5, <3>2
        DEF WindowInv, WindowTyped, BarsListen, PageTells, PageFits
  <2> QED BY <2>4, <2>5
<1> QED BY <1>2, <1>3, <1>4

LEMMA WindowStarts == ASSUME WindowInit PROVE WindowInv
  BY DEF WindowInit, WindowInv, WindowTyped, AccountTyped, BarsListen, PageTells

LEMMA WindowStep == ASSUME WindowInv, [WindowNext]_windowVars PROVE WindowInv'
<1>1. CASE UNCHANGED windowVars
  BY <1>1 DEF windowVars, WindowInv, WindowTyped, BarsListen, PageTells
<1> QED BY <1>1, WindowGetsReady, AccountComesAndGoes, ConnectionTold DEF WindowNext

(* Whatever order any number of accounts come, fail, connect and go in: no   *)
(* error on the bar of an account that is connected, and no page that asks   *)
(* for an account while there is one.                                        *)
THEOREM WindowIsTrue == WindowSpec => []WindowTellsAccounts
<1>1. WindowInv => WindowTellsAccounts
  BY DEF WindowInv, BarsListen, PageTells, PageFits, WindowTellsAccounts, Valid
<1> QED BY <1>1, WindowStarts, WindowStep, PTL DEF WindowSpec

-----------------------------------------------------------------------------
(* The log window.  What its chain is doing: nothing, or one kind of calls   *)
(* after the other up to the action that ends the chain.                     *)
Chosen == LogAccounts \cup {"all", "none"}
Subjects == {<<>>} \cup {<<a>> : a \in Chosen} \cup {<<e>> : e \in Entities} \cup Entry
Reading == {"entities", "dates", "events"}
Ending == {"first", "select", "show"}
Asking == [do : Reading \cup Ending, of : Subjects, what : Kinds]
Calling ==
  [do : Reading \cup Ending, of : Subjects, what : Kinds, wanted : BOOLEAN]

Windows ==
  [open : BOOLEAN, account : Chosen, chat : Entities \cup {NoChat}, listed : SUBSET Entities,
   who : SUBSET (Entities \cup {Anyone}), what : Kinds, days : SUBSET Days,
   when : SUBSET (Days \cup {Anytime}), current : SUBSET (Days \cup {Anytime}),
   passes : SUBSET Entry, hits : SUBSET Entry, blocked : Nat, queue : Seq(Asking), running : BOOLEAN, calls : SUBSET Calling,
   shown : SUBSET Entry, twice : BOOLEAN, spin : BOOLEAN]

EndOf(q) == IF q = <<>> THEN "none" ELSE q[Len(q)].do
CallOf(end) == IF end = "first" THEN "entities" ELSE IF end = "select" THEN "dates" ELSE "events"

Chain(q) ==
  q # <<>> => /\ EndOf(q) \in Ending
              /\ \A i \in 1..(Len(q) - 1) : q[i].do = CallOf(EndOf(q))

OneCall(w) ==
  /\ \A c, d \in w.calls : c = d
  /\ \A c \in w.calls : c.wanted => w.queue # <<>> /\ c.do = CallOf(EndOf(w.queue))

(* The events that were asked for and not received yet: each once.           *)
Reads(ask) == ask.do = "events"
InCall(w) == {c \in w.calls : c.wanted /\ Reads(c)}
InQueue(w) == {i \in 1..Len(w.queue) : Reads(w.queue[i])}
Coming(w) == {c.of : c \in InCall(w)} \cup {w.queue[i].of : i \in InQueue(w)}

Once(w) ==
  /\ ~w.twice /\ w.shown \cap Coming(w) = {}
  /\ \A i, j \in InQueue(w) : w.queue[i].of = w.queue[j].of => i = j
  /\ \A c \in InCall(w), i \in InQueue(w) : c.of # w.queue[i].of

Sound(w) == w \in Windows /\ Chain(w.queue) /\ OneCall(w) /\ Once(w)

(* What the panes stand for.                                                 *)
HitDays(w) == {h[2] : h \in {h \in w.hits : h[1] \in Targets(w)}}
Region(w) == (Targets(w) \X ChosenDays(w)) \cap (IF w.hits = {} THEN Entry ELSE w.hits)
InRegion(w, l) == l \cap OfKind(w.what) \cap w.passes \cap Region(w)

Tells(w, l, t) ==
  /\ w.shown \subseteq InRegion(w, l)
  /\ InRegion(w, l) \ w.shown \subseteq t \cup Coming(w)
  /\ \A c \in InCall(w) : c.what = w.what /\ c.of \in Region(w)
  /\ \A i \in InQueue(w) : w.queue[i].what = w.what /\ w.queue[i].of \in Region(w)

Panes(w, l, t) ==
  w.who # {} =>
    /\ EndOf(w.queue) # "first"
    /\ EndOf(w.queue) = "select" => w.hits = {} /\ (w.when = {} \/ w.blocked > 0)
    /\ w.hits # {} => w.days = HitDays(w)
    /\ w.when # {} /\ w.blocked = 0 => Tells(w, l, t)

Steady(w) == (w.running <=> w.calls # {}) /\ (w.queue # <<>> => w.running)

LogsInv ==
  fate = "fine" => /\ logs \subseteq Entry
                   /\ Sound(win) /\ Panes(win, logs, late) /\ Steady(win)

LEMMA SetListed ==
  ASSUME NEW S, IsFiniteSet(S)
  PROVE  /\ Cardinality(S) \in Nat /\ SetToSeq(S) \in [1..Cardinality(S) -> S]
         /\ \A i, j \in 1..Cardinality(S) : SetToSeq(S)[i] = SetToSeq(S)[j] => i = j
         /\ \A s \in S : \E i \in 1..Cardinality(S) : SetToSeq(S)[i] = s
<1> DEFINE n == Cardinality(S)
           f == SetToSeq(S)
<1>1. n \in Nat /\ \E g : g \in Injection(1..n, S)
  BY FS_CardinalityType DEF ExistsBijection, Bijection
<1>2. f \in [1..n -> S] /\ IsInjective(f)
  <2>1. \E g \in [1..n -> S] : IsInjective(g)
    BY <1>1 DEF Injection
  <2> QED BY <2>1 DEF SetToSeq
<1>3. f \in Surjection(1..n, S)
  <2>1. Cardinality(1..n) = n
    BY <1>1, FS_Interval
  <2>2. f \in Injection(1..n, S)
    BY <1>2 DEF Injection
  <2> QED BY <2>1, <2>2, FS_Injection
<1> QED BY <1>1, <1>2, <1>3 DEF Surjection, IsInjective

ChainOf(q, do, end, S, what) ==
  /\ q \in Seq(Asking) /\ q # <<>> /\ EndOf(q) = end
  /\ \A i \in 1..(Len(q) - 1) : q[i].do = do /\ q[i].what = what /\ q[i].of \in S
  /\ \A i, j \in 1..(Len(q) - 1) : q[i].of = q[j].of => i = j
  /\ \A s \in S : \E i \in 1..(Len(q) - 1) : q[i].of = s

(* The calls of one kind, one for each subject, and the action at the end.   *)
LEMMA AsksMade ==
  ASSUME NEW S \in SUBSET Subjects, IsFiniteSet(S), NEW do \in Reading,
         NEW end \in Ending, NEW w, w.what \in Kinds, NEW chain, chain = Asks(do, S, w) \o Sync(end)
  PROVE  ChainOf(chain, do, end, S, w.what)
<1> DEFINE n == Cardinality(S)
           f == SetToSeq(S)
           a == Asks(do, S, w)
           b == Sync(end)
           q == a \o b
<1>1. /\ n \in Nat /\ f \in [1..n -> S]
      /\ \A i, j \in 1..n : f[i] = f[j] => i = j
      /\ \A s \in S : \E i \in 1..n : f[i] = s
  BY SetListed
<1>2. a = [i \in 1..n |-> [do |-> do, of |-> f[i], what |-> w.what]]
  BY DEF Asks, Ask
<1>3. b = <<[do |-> end, of |-> <<>>, what |-> "anything"]>>
  BY DEF Sync
<1> HIDE DEF n, f, a, b
<1>4. a \in Seq(Asking) /\ Len(a) = n
  <2>1. \A i \in 1..n : [do |-> do, of |-> f[i], what |-> w.what] \in Asking
    BY <1>1 DEF Asking
  <2> QED BY <1>1, <1>2, <2>1
<1>5. b \in Seq(Asking) /\ Len(b) = 1 /\ b[1].do = end
  <2>1. [do |-> end, of |-> <<>>, what |-> "anything"] \in Asking
    BY DEF Asking, Subjects, Kinds
  <2> QED BY <1>3, <2>1
<1>6. \A i \in 1..n : a[i].do = do /\ a[i].what = w.what /\ a[i].of = f[i]
  BY <1>2
<1>7. /\ q \in Seq(Asking) /\ Len(q) = n + 1
      /\ \A i \in 1..n : q[i] = a[i]
      /\ q[n + 1] = b[1]
  <2>1. /\ q \in Seq(Asking) /\ Len(q) = Len(a) + Len(b)
        /\ \A i \in 1..Len(a) : q[i] = a[i]
        /\ \A i \in 1..Len(b) : q[i + Len(a)] = b[i]
    <3>1. a \in Seq(Asking) /\ b \in Seq(Asking)
      BY <1>4, <1>5
    <3> QED BY <3>1, ConcatShape
  <2>2. 1 \in 1..Len(b) /\ 1 + Len(a) = n + 1 /\ Len(a) = n /\ Len(b) = 1
    BY <1>1, <1>4, <1>5
  <2> HIDE DEF q
  <2> QED BY <1>1, <2>1, <2>2
<1> HIDE DEF q
<1>8. q # <<>> /\ EndOf(q) = end
  BY <1>1, <1>5, <1>7 DEF EndOf
<1>9. Len(q) - 1 = n
  BY <1>1, <1>7
<1>10. \A i \in 1..n : q[i].do = do /\ q[i].what = w.what /\ q[i].of = f[i] /\ f[i] \in S
  BY <1>1, <1>6, <1>7
<1>11. /\ \A i \in 1..(Len(q) - 1) : q[i].do = do /\ q[i].what = w.what /\ q[i].of \in S
       /\ \A i, j \in 1..(Len(q) - 1) : q[i].of = q[j].of => i = j
       /\ \A s \in S : \E i \in 1..(Len(q) - 1) : q[i].of = s
  <2>1. \A i \in 1..n : q[i].do = do /\ q[i].what = w.what /\ q[i].of \in S
    BY <1>10
  <2>2. \A i, j \in 1..n : q[i].of = q[j].of => i = j
    BY <1>1, <1>10
  <2>3. \A s \in S : \E i \in 1..n : q[i].of = s
    BY <1>1, <1>10
  <2> QED BY <1>9, <2>1, <2>2, <2>3
<1>12. chain = q
  BY DEF q, a, b
<1> QED BY <1>7, <1>8, <1>11, <1>12 DEF ChainOf

LEMMA EntriesFinite ==
  /\ IsFiniteSet(Entry) /\ IsFiniteSet(Entities) /\ IsFiniteSet(LogAccounts)
  /\ \A S \in SUBSET Entry : IsFiniteSet(S) /\ S \in SUBSET Subjects
<1>1. IsFiniteSet(Entities) /\ IsFiniteSet(Days)
  BY LogsAssumption, FS_Interval DEF Days
<1>2. IsFiniteSet(Entry)
  BY <1>1, FS_Product DEF Entry
<1>3. IsFiniteSet(LogAccounts)
  <2>1. AccountOf \in Surjection(Entities, LogAccounts)
    BY LogsAssumption DEF Surjection, LogAccounts
  <2> QED BY <1>1, <2>1, FS_Surjection
<1> QED BY <1>1, <1>2, <1>3, FS_Subset DEF Subjects

(* Only some of the window's fields matter to what is proved of it.          *)
SameChain(x, w) == x.queue = w.queue /\ x.calls = w.calls
SameView(x, w) == x.shown = w.shown /\ x.twice = w.twice
SamePanes(x, w) ==
  /\ x.who = w.who /\ x.hits = w.hits /\ x.when = w.when /\ x.what = w.what
  /\ x.days = w.days /\ x.listed = w.listed /\ x.blocked = w.blocked /\ x.passes = w.passes

LEMMA SameIsSound ==
  ASSUME NEW w, Sound(w), NEW x \in Windows, SameChain(x, w), SameView(x, w)
  PROVE  Sound(x)
BY DEF Sound, SameChain, SameView, OneCall, Once, Coming, InCall, InQueue

LEMMA SamePanesTell ==
  ASSUME NEW w, NEW l, NEW t, Panes(w, l, t), NEW x,
         SameChain(x, w), SameView(x, w), SamePanes(x, w)
  PROVE  Panes(x, l, t)
BY DEF Panes, Tells, SameChain, SameView, SamePanes, Coming, InCall, InQueue, InRegion, Region,
       Targets, ChosenDays, HitDays

(* What was asked for is not wanted any more.                                *)
LEMMA CallsOutdated ==
  ASSUME NEW calls \in SUBSET Calling, \A c, d \in calls : c = d
  PROVE  /\ Stale(calls) \in SUBSET Calling /\ \A c, d \in Stale(calls) : c = d
         /\ \A c \in Stale(calls) : ~c.wanted
         /\ Stale(calls) = {} <=> calls = {}
<1>1. \A c \in calls : [c EXCEPT !.wanted = FALSE] \in Calling /\ ~[c EXCEPT !.wanted = FALSE].wanted
  BY DEF Calling
<1> QED BY <1>1 DEF Stale

LEMMA Outdated ==
  ASSUME NEW w, Sound(w)
  PROVE  LET e == Outdate(w)
         IN /\ Sound(e) /\ e.queue = <<>> /\ SameView(e, w) /\ SamePanes(e, w)
            /\ e.running = w.running /\ (e.calls = {} <=> w.calls = {})
            /\ \A c \in e.calls : ~c.wanted
<1> DEFINE k == Stale(w.calls)
           e == [w EXCEPT !.queue = <<>>, !.calls = k]
<1>1. w \in Windows /\ w.calls \in SUBSET Calling /\ \A c, d \in w.calls : c = d
  BY DEF Sound, Windows, OneCall
<1>2. /\ k \in SUBSET Calling /\ \A c, d \in k : c = d
      /\ \A c \in k : ~c.wanted
      /\ k = {} <=> w.calls = {}
  BY <1>1, CallsOutdated
<1>3. Outdate(w) = e
  BY DEF Outdate
<1> HIDE DEF k
<1>4. <<>> \in Seq(Asking)
  OBVIOUS
<1>5. e \in Windows
  BY <1>1, <1>2, <1>4 DEF Windows
<1>6. /\ e.queue = <<>> /\ e.calls = k /\ SameView(e, w) /\ SamePanes(e, w)
      /\ e.running = w.running
  BY <1>1 DEF Windows, SameView, SamePanes
<1> HIDE DEF e
<1>7. Chain(e.queue) /\ OneCall(e)
  BY <1>2, <1>6 DEF Chain, OneCall
<1>8. Once(e)
  <2>1. InCall(e) = {} /\ InQueue(e) = {}
    BY <1>2, <1>6 DEF InCall, InQueue
  <2> QED BY <1>6, <2>1 DEF Sound, Once, Coming, SameView
<1> QED BY <1>2, <1>3, <1>5, <1>6, <1>7, <1>8 DEF Sound

LEMMA Emptied ==
  ASSUME NEW w, Sound(w)
  PROVE  LET e == Empty(w)
         IN /\ Sound(e) /\ e.queue = <<>> /\ e.shown = {} /\ SamePanes(e, w)
            /\ e.running = w.running /\ (e.calls = {} <=> w.calls = {})
            /\ \A c \in e.calls : ~c.wanted
<1> DEFINE o == Outdate(w)
           e == [o EXCEPT !.shown = {}, !.twice = FALSE]
<1>1. /\ Sound(o) /\ o.queue = <<>> /\ SamePanes(o, w)
      /\ o.running = w.running /\ (o.calls = {} <=> w.calls = {})
      /\ \A c \in o.calls : ~c.wanted
  BY Outdated
<1>2. Empty(w) = e
  BY DEF Empty
<1> HIDE DEF o
<1>3. o \in Windows
  BY <1>1 DEF Sound
<1>4. e \in Windows
  BY <1>3 DEF Windows
<1>5. /\ e.queue = o.queue /\ e.calls = o.calls /\ e.shown = {} /\ SamePanes(e, o)
      /\ e.running = o.running /\ ~e.twice
  BY <1>3 DEF Windows, SamePanes
<1> HIDE DEF e
<1>6. Chain(e.queue) /\ OneCall(e) /\ Once(e)
  BY <1>1, <1>5 DEF Sound, Chain, OneCall, Once, InCall, InQueue, Coming
<1> QED BY <1>1, <1>2, <1>4, <1>5, <1>6 DEF Sound, SamePanes

(* All the events that the panes stand for are asked for, once.              *)
LEMMA EventsAsked ==
  ASSUME NEW w, Sound(w), w.shown = {}, \A c \in w.calls : ~c.wanted,
         w.hits # {} => w.days = HitDays(w),
         NEW v, v.what = w.what, NEW S, S = Region(w)
  PROVE  LET x == StartSpinner(w, Asks("events", S, v))
         IN /\ Sound(x) /\ EndOf(x.queue) = "show"
            /\ \A l, t : Panes(x, l, t)
            /\ x.running = w.running /\ x.calls = w.calls
<1> DEFINE q == Asks("events", S, v) \o Sync("show")
           n == Len(q) - 1
           x == [w EXCEPT !.spin = TRUE, !.queue = q]
<1>1. w \in Windows /\ v.what \in Kinds /\ S \in SUBSET Entry
  BY DEF Sound, Windows, Region
<1>2. /\ q \in Seq(Asking) /\ q # <<>> /\ EndOf(q) = "show"
      /\ \A i \in 1..n : q[i].do = "events" /\ q[i].what = w.what /\ q[i].of \in S
      /\ \A i, j \in 1..n : q[i].of = q[j].of => i = j
      /\ \A s \in S : \E i \in 1..n : q[i].of = s
  <2>1. S \in SUBSET Subjects /\ IsFiniteSet(S)
    BY <1>1, EntriesFinite
  <2>2. PICK do \in Reading, end \in Ending : do = "events" /\ end = "show"
    BY DEF Reading, Ending
  <2>3. q = Asks(do, S, v) \o Sync(end)
    BY <2>2
  <2> HIDE DEF q
  <2>4. v.what \in Kinds
    BY <1>1
  <2>5. ChainOf(q, do, end, S, v.what)
    BY <2>1, <2>3, <2>4, AsksMade
  <2> QED BY <2>2, <2>5 DEF ChainOf
<1>3. StartSpinner(w, Asks("events", S, v)) = x
  BY DEF StartSpinner
<1> HIDE DEF q
<1>4. x \in Windows
  BY <1>1, <1>2 DEF Windows
<1>5. /\ x.queue = q /\ x.calls = w.calls /\ SameView(x, w) /\ SamePanes(x, w)
      /\ x.running = w.running
  BY <1>1 DEF Windows, SameView, SamePanes
<1> HIDE DEF x
<1>6. n \in Nat /\ Len(q) = n + 1 /\ q[n + 1].do = "show"
  BY <1>2 DEF EndOf
<1>7. InCall(x) = {} /\ InQueue(x) = 1..n
  BY <1>2, <1>5, <1>6 DEF InCall, InQueue, Reads
<1> HIDE DEF n
<1>8. Coming(x) = S
  BY <1>2, <1>5, <1>7 DEF Coming
<1>9. Chain(x.queue)
  BY <1>2, <1>5, <1>6 DEF Chain, CallOf, Ending
<1>10. OneCall(x)
  BY <1>5 DEF Sound, OneCall
<1>11. Once(x)
  BY <1>2, <1>5, <1>7, <1>8 DEF Sound, Once, SameView
<1>12. ASSUME NEW l, NEW t PROVE Panes(x, l, t)
  <2>1. Region(x) = S /\ HitDays(x) = HitDays(w)
    BY <1>5 DEF SamePanes, Region, Targets, ChosenDays, HitDays
  <2>2. Tells(x, l, t)
    BY <1>2, <1>5, <1>7, <1>8, <2>1 DEF Tells, InRegion, SameView, SamePanes
  <2> QED BY <1>2, <1>5, <2>1, <2>2 DEF Panes, SamePanes
<1> QED BY <1>2, <1>3, <1>4, <1>5, <1>9, <1>10, <1>11, <1>12 DEF Sound

Ready(x, w) ==
  /\ Sound(x) /\ \A l, t : Panes(x, l, t)
  /\ x.running = w.running /\ (x.calls = {} <=> w.calls = {})

LEMMA DayEventsReady ==
  ASSUME NEW w, Sound(w), w.shown = {}, w.hits = {}
  PROVE  Ready(DayEvents(w), w) /\ EndOf(DayEvents(w).queue) = "show"
<1> DEFINE e == Outdate(w)
           S == Targets(w) \X ChosenDays(w)
<1>1. /\ Sound(e) /\ SameView(e, w) /\ SamePanes(e, w)
      /\ e.running = w.running /\ (e.calls = {} <=> w.calls = {})
      /\ \A c \in e.calls : ~c.wanted
  BY Outdated
<1>2. DayEvents(w) = StartSpinner(e, Asks("events", S, w))
  BY DEF DayEvents
<1> HIDE DEF e
<1>3. Targets(w) \subseteq Entities /\ ChosenDays(w) \subseteq Days
  BY DEF Sound, Windows, Targets, ChosenDays
<1>4. S = Region(e)
  BY <1>1, <1>3 DEF SamePanes, Region, Targets, ChosenDays, Entry
<1> HIDE DEF S
<1>5. e.shown = {} /\ (e.hits # {} => e.days = HitDays(e)) /\ w.what = e.what
  BY <1>1 DEF SameView, SamePanes
<1> DEFINE x == StartSpinner(e, Asks("events", S, w))
<1>6. /\ Sound(x) /\ EndOf(x.queue) = "show"
      /\ \A l, t : Panes(x, l, t)
      /\ x.running = e.running /\ x.calls = e.calls
  BY <1>1, <1>4, <1>5, EventsAsked
<1> HIDE DEF x
<1>7. DayEvents(w) = x
  BY <1>2 DEF x
<1> QED BY <1>1, <1>6, <1>7 DEF Ready

LEMMA HitEventsReady ==
  ASSUME NEW w, Sound(w), w.shown = {}, \A c \in w.calls : ~c.wanted,
         w.hits # {}, w.days = HitDays(w)
  PROVE  Ready(HitEvents(w), w) /\ EndOf(HitEvents(w).queue) = "show"
<1> DEFINE D == IF Anytime \in w.when THEN Days ELSE w.when
           S == w.hits \cap (Targets(w) \X D)
<1>1. HitEvents(w) = StartSpinner(w, Asks("events", S, w))
  BY DEF HitEvents
<1>2. w.hits \subseteq Entities \X Days
  BY DEF Sound, Windows, Entry
<1>3. S = Region(w)
  <2>1. CASE Anytime \in w.when
    <3>1. Region(w) = (Targets(w) \X w.days) \cap w.hits
      BY <2>1 DEF Region, ChosenDays
    <3>2. \A h \in w.hits : h[1] \in Targets(w) => h \in Targets(w) \X w.days
      BY <1>2 DEF HitDays
    <3>3. w.days \subseteq Days
      BY DEF Sound, Windows
    <3> HIDE DEF Targets, HitDays
    <3> QED BY <1>2, <2>1, <3>1, <3>2, <3>3
  <2>2. CASE Anytime \notin w.when
    BY <2>2 DEF Region, ChosenDays
  <2> QED BY <2>1, <2>2
<1> HIDE DEF S
<1> DEFINE x == StartSpinner(w, Asks("events", S, w))
<1>4. /\ Sound(x) /\ EndOf(x.queue) = "show"
      /\ \A l, t : Panes(x, l, t)
      /\ x.running = w.running /\ x.calls = w.calls
  BY <1>3, EventsAsked
<1> HIDE DEF x
<1>5. HitEvents(w) = x
  BY <1>1 DEF x
<1> QED BY <1>4, <1>5 DEF Ready

LEMMA LatestDay ==
  ASSUME NEW S \in SUBSET Days
  PROVE  Latest(S) \subseteq S /\ (S = {} => Latest(S) = {}) /\ (S # {} => Latest(S) # {})
<1>1. CASE S = {}
  BY <1>1 DEF Latest
<1>2. CASE S # {}
  <2>1. \E m \in S : \A y \in S : y <= m
    <3>1. LastDay \in Nat /\ S \subseteq 1..LastDay
      BY LogsAssumption DEF Days
    <3>2. Max(S) \in S /\ \A y \in S : Max(S) >= y
      BY <1>2, <3>1, LastOf
    <3>3. \A y \in S : y <= Max(S)
      BY <3>1, <3>2
    <3> QED BY <3>2, <3>3
  <2>2. (CHOOSE d \in S : \A o \in S : o <= d) \in S
    BY <2>1
  <2> QED BY <1>2, <2>2 DEF Latest
<1> QED BY <1>1, <1>2

(* The panes' events are asked for anew, or first what days there are.       *)
LEMMA MessagesAsked ==
  ASSUME NEW w, Sound(w), NEW force \in BOOLEAN,
         w.who # {} /\ w.hits # {} /\ ~force => w.days = HitDays(w)
  PROVE  LET x == GetMessages(w, force)
         IN /\ Ready(x, w)
            /\ w.who = {} => x = w
            /\ w.who # {} => EndOf(x.queue) \in {"none", "select", "show"}
            /\ w.who # {} /\ ~force /\ w.when # {} => EndOf(x.queue) = "show"
<1> DEFINE x == GetMessages(w, force)
           e == Empty(w)
<1>1. CASE w.who = {}
  <2>1. x = w
    BY <1>1 DEF GetMessages
  <2> QED BY <1>1, <2>1 DEF Ready, Panes
<1>2. /\ Sound(e) /\ e.queue = <<>> /\ e.shown = {} /\ SamePanes(e, w)
      /\ e.running = w.running /\ (e.calls = {} <=> w.calls = {})
      /\ \A c \in e.calls : ~c.wanted
  BY Emptied
<1>3. CASE w.who # {} /\ w.hits # {} /\ ~force
  <2>1. x = HitEvents(e)
    BY <1>3 DEF GetMessages
  <2>2. e.days = HitDays(e) /\ e.hits # {}
    BY <1>2, <1>3 DEF SamePanes, HitDays, Targets
  <2> HIDE DEF e
  <2>3. Ready(HitEvents(e), e) /\ EndOf(HitEvents(e).queue) = "show"
    BY <1>2, <2>2, HitEventsReady
  <2> QED BY <1>2, <1>3, <2>1, <2>3 DEF Ready
<1>4. CASE w.who # {} /\ w.hits = {} /\ ~(force \/ w.when = {})
  <2>1. x = DayEvents(e)
    BY <1>4 DEF GetMessages
  <2>2. e.hits = {}
    BY <1>2, <1>4 DEF SamePanes
  <2> HIDE DEF e
  <2>3. Ready(DayEvents(e), e) /\ EndOf(DayEvents(e).queue) = "show"
    BY <1>2, <2>2, DayEventsReady
  <2> QED BY <1>2, <1>4, <2>1, <2>3 DEF Ready
<1>5. CASE w.who # {} /\ w.hits = {} /\ (force \/ w.when = {})
  <2> DEFINE q == Asks("dates", {<<a>> : a \in Targets(w)}, w) \o Sync("select")
             r == [e EXCEPT !.current = w.when, !.days = {}, !.when = {}, !.queue = q]
  <2>1. x = r
    BY <1>5 DEF GetMessages
  <2> HIDE DEF e
  <2>2. /\ q \in Seq(Asking) /\ q # <<>> /\ EndOf(q) = "select"
        /\ \A i \in 1..(Len(q) - 1) : q[i].do = "dates"
    <3> DEFINE S == {<<a>> : a \in Targets(w)}
    <3>1. PICK do \in Reading, end \in Ending : do = "dates" /\ end = "select"
      BY DEF Reading, Ending
    <3>2. q = Asks(do, S, w) \o Sync(end)
      BY <3>1
    <3>3. S \in SUBSET Subjects /\ IsFiniteSet(S)
      <4>1. Targets(w) \in SUBSET Entities
        BY DEF Sound, Windows, Targets
      <4>2. IsFiniteSet(Targets(w))
        BY <4>1, EntriesFinite, FS_Subset
      <4>3. [a \in Targets(w) |-> <<a>>] \in Surjection(Targets(w), S)
        BY DEF Surjection
      <4>4. S \in SUBSET Subjects
        BY <4>1 DEF Subjects
      <4> QED BY <4>2, <4>3, <4>4, FS_Surjection
    <3>4. w.what \in Kinds
      BY DEF Sound, Windows
    <3> HIDE DEF q, S
    <3>5. ChainOf(q, do, end, S, w.what)
      BY <3>2, <3>3, <3>4, AsksMade
    <3> QED BY <3>1, <3>5 DEF ChainOf
  <2> HIDE DEF q
  <2>3. e \in Windows /\ w.when \in SUBSET (Days \cup {Anytime})
    BY <1>2 DEF Sound, Windows
  <2>4. r \in Windows
    BY <2>2, <2>3 DEF Windows
  <2>5. /\ r.queue = q /\ r.calls = e.calls /\ SameView(r, e) /\ r.when = {} /\ r.who = e.who
        /\ r.hits = e.hits /\ r.running = e.running
    BY <2>3 DEF Windows, SameView
  <2> HIDE DEF r
  <2>6. Chain(r.queue)
    BY <2>2, <2>5 DEF Chain, CallOf, Ending
  <2>7. OneCall(r)
    BY <1>2, <2>5 DEF Sound, OneCall
  <2>8. Once(r)
    <3>1. InCall(r) = {}
      BY <1>2, <2>5 DEF InCall
    <3>2. InQueue(r) = {}
      <4>1. \A i \in 1..Len(q) : q[i].do # "events"
        <5>1. \A i \in 1..Len(q) : i \in 1..(Len(q) - 1) \/ i = Len(q)
          BY <2>2
        <5>2. q[Len(q)].do = "select"
          BY <2>2 DEF EndOf
        <5> QED BY <2>2, <5>1, <5>2
      <4> QED BY <2>5, <4>1 DEF InQueue, Reads
    <3> QED BY <1>2, <2>5, <3>1, <3>2 DEF Sound, Once, Coming, SameView
  <2>9. \A l, t : Panes(r, l, t)
    BY <1>2, <1>5, <2>2, <2>5 DEF Panes, SamePanes
  <2> QED BY <1>2, <1>5, <2>1, <2>2, <2>4, <2>5, <2>6, <2>7, <2>8, <2>9 DEF Ready, Sound
<1>6. CASE w.who # {} /\ w.hits # {} /\ force
  <2> DEFINE days == HitDays(w)
             r == [e EXCEPT !.days = days, !.when = Latest(days)]
  <2>1. x = IF days = {} \/ w.blocked > 0 THEN r ELSE HitEvents(Empty(r))
    BY <1>6 DEF GetMessages, HitDays
  <2> HIDE DEF e
  <2>2. days \in SUBSET Days
    BY DEF Sound, Windows, Entry, HitDays
  <2>3. e \in Windows /\ Latest(days) \in SUBSET (Days \cup {Anytime})
    BY <1>2, <2>2, LatestDay DEF Sound
  <2> HIDE DEF days
  <2>4. r \in Windows
    BY <2>2, <2>3 DEF Windows
  <2>5. /\ SameChain(r, e) /\ SameView(r, e) /\ r.days = days /\ r.when = Latest(days)
        /\ r.who = e.who /\ r.hits = e.hits /\ r.what = e.what /\ r.listed = e.listed
        /\ r.blocked = e.blocked /\ r.running = e.running
    BY <2>3 DEF Windows, SameChain, SameView
  <2> HIDE DEF r
  <2>6. Sound(r)
    BY <1>2, <2>4, <2>5, SameIsSound
  <2>7. HitDays(r) = days
    BY <1>2, <2>5 DEF HitDays, Targets, SamePanes, days
  <2>8. CASE days = {} \/ w.blocked > 0
    <3>1. \A l, t : Panes(r, l, t)
      BY <1>2, <1>6, <2>2, <2>5, <2>7, <2>8, LatestDay DEF Panes, SamePanes, SameChain, EndOf
    <3>2. EndOf(r.queue) = "none"
      BY <1>2, <2>5 DEF SameChain, EndOf
    <3> QED BY <1>2, <1>6, <2>1, <2>5, <2>6, <2>8, <3>1, <3>2 DEF Ready, SameChain
  <2>9. CASE ~(days = {} \/ w.blocked > 0)
    <3> DEFINE f == Empty(r)
    <3>1. /\ Sound(f) /\ f.queue = <<>> /\ f.shown = {} /\ SamePanes(f, r)
          /\ f.running = r.running /\ (f.calls = {} <=> r.calls = {})
          /\ \A c \in f.calls : ~c.wanted
      BY <2>6, Emptied
    <3> HIDE DEF f
    <3>2. f.days = HitDays(f) /\ f.hits # {}
      BY <1>2, <1>6, <2>5, <2>7, <3>1 DEF SamePanes, HitDays, Targets
    <3>3. Ready(HitEvents(f), f) /\ EndOf(HitEvents(f).queue) = "show"
      BY <3>1, <3>2, HitEventsReady
    <3>4. x = HitEvents(f)
      BY <2>1, <2>9 DEF f
    <3> QED BY <1>2, <1>6, <2>5, <3>1, <3>3, <3>4 DEF Ready, SameChain
  <2> QED BY <2>8, <2>9
<1> HIDE DEF x
<1> QED BY <1>1, <1>3, <1>4, <1>5, <1>6 DEF x

(* Lemmas about the two actions that end a chain by selecting something.     *)
LEMMA FirstSelected ==
  ASSUME NEW w, Sound(w), w.queue = <<>>, w.who = {}
  PROVE  LET x == SelectFirstEntity(w)
         IN Ready(x, w) /\ EndOf(x.queue) \in {"none", "select", "show"}
<1> DEFINE x == SelectFirstEntity(w)
           y == [w EXCEPT !.who = {Anyone}]
<1>1. CASE w.listed = {} \/ w.who = {Anyone}
  <2>1. x = w
    BY <1>1 DEF SelectFirstEntity
  <2> HIDE DEF x
  <2> QED BY <2>1 DEF Ready, Panes, EndOf, x
<1>2. CASE ~(w.listed = {} \/ w.who = {Anyone})
  <2>1. x = GetMessages(y, TRUE)
    BY <1>2 DEF SelectFirstEntity
  <2>2. w \in Windows
    BY DEF Sound
  <2>3. {Anyone} \in SUBSET (Entities \cup {Anyone})
    OBVIOUS
  <2>4. y \in Windows
    BY <2>2, <2>3 DEF Windows
  <2>5. SameChain(y, w) /\ SameView(y, w) /\ y.who = {Anyone} /\ y.running = w.running
    BY <2>2 DEF Windows, SameChain, SameView
  <2> HIDE DEF x, y
  <2>6. Sound(y) /\ y.who # {}
    BY <2>4, <2>5, SameIsSound
  <2> DEFINE g == GetMessages(y, TRUE)
  <2>7. Ready(g, y) /\ EndOf(g.queue) \in {"none", "select", "show"}
    BY <2>6, MessagesAsked
  <2> HIDE DEF g
  <2>8. x = g
    BY <2>1 DEF g
  <2> QED BY <2>5, <2>7, <2>8 DEF Ready, SameChain, x
<1> QED BY <1>1, <1>2

LEMMA DateSelected ==
  ASSUME NEW w, Sound(w), w.queue = <<>>,
         w.who # {} => w.hits = {} /\ (w.when = {} \/ w.blocked > 0)
  PROVE  LET x == SelectDate(w)
         IN Ready(x, w) /\ EndOf(x.queue) \in {"none", "show"}
<1> DEFINE before == IF w.days = {} THEN {} ELSE w.current \cap (w.days \cup {Anytime})
           when == IF before = {} THEN Latest(w.days)
                   ELSE IF Anytime \in before THEN {Anytime} ELSE before
           y == [w EXCEPT !.when = when]
           x == SelectDate(w)
<1>1. x = IF when = w.when \/ w.blocked > 0 THEN y ELSE GetMessages(y, FALSE)
  BY DEF SelectDate
<1>2. w \in Windows
  BY DEF Sound
<1>3. when \in SUBSET (Days \cup {Anytime})
  <2>1. w.days \in SUBSET Days /\ w.current \in SUBSET (Days \cup {Anytime})
    BY <1>2 DEF Windows
  <2>2. Latest(w.days) \subseteq Days
    BY <2>1, LatestDay
  <2> QED BY <2>1, <2>2
<1> HIDE DEF when, x
<1>4. y \in Windows
  BY <1>2, <1>3 DEF Windows
<1>5. /\ SameChain(y, w) /\ SameView(y, w) /\ y.when = when /\ y.running = w.running
      /\ y.who = w.who /\ y.hits = w.hits /\ y.blocked = w.blocked
  BY <1>2 DEF Windows, SameChain, SameView
<1> HIDE DEF y
<1>6. Sound(y) /\ y.queue = <<>>
  BY <1>4, <1>5, SameIsSound DEF SameChain
<1>7. w.blocked \in Nat
  BY <1>2 DEF Windows
<1>8. CASE when = w.when \/ w.blocked > 0
  <2>1. EndOf(y.queue) = "none"
    BY <1>6 DEF EndOf
  <2>2. w.blocked > 0 => w.blocked # 0
    BY <1>7
  <2>3. \A l, t : Panes(y, l, t)
    BY <1>5, <1>8, <2>1, <2>2 DEF Panes
  <2>4. x = y
    BY <1>1, <1>8
  <2> QED BY <1>5, <1>6, <2>1, <2>3, <2>4 DEF Ready, SameChain, x
<1>9. CASE ~(when = w.when \/ w.blocked > 0)
  <2> DEFINE g == GetMessages(y, FALSE)
  <2>1. y.who # {} => y.when # {} /\ y.hits = {}
    BY <1>5, <1>9
  <2>2. /\ Ready(g, y)
        /\ y.who = {} => g = y
        /\ y.who # {} /\ y.when # {} => EndOf(g.queue) = "show"
    BY <1>6, <2>1, MessagesAsked
  <2> HIDE DEF g
  <2>3. x = g
    BY <1>1, <1>9 DEF g
  <2>4. EndOf(g.queue) \in {"none", "show"}
    BY <1>6, <2>1, <2>2 DEF EndOf
  <2> QED BY <1>5, <2>2, <2>3, <2>4 DEF Ready, SameChain, x
<1> QED BY <1>8, <1>9

(* The first of a chain is a call, or it ends the chain.                     *)
LEMMA Heads ==
  ASSUME NEW q \in Seq(Asking), q # <<>>, Chain(q)
  PROVE  /\ Head(q) = q[1] /\ Head(q) \in Asking
         /\ Head(q).do \in Ending => Tail(q) = <<>> /\ Len(q) = 1 /\ EndOf(q) = Head(q).do
         /\ Head(q).do \notin Ending =>
              /\ Len(q) > 1 /\ Head(q).do = CallOf(EndOf(q))
              /\ Tail(q) \in Seq(Asking) /\ Tail(q) # <<>> /\ Len(Tail(q)) = Len(q) - 1
              /\ \A i \in 1..(Len(q) - 1) : Tail(q)[i] = q[i + 1]
              /\ EndOf(Tail(q)) = EndOf(q) /\ Chain(Tail(q))
<1> DEFINE n == Len(q)
           r == Tail(q)
<1>1. n \in Nat /\ n >= 1 /\ Head(q) = q[1] /\ Head(q) \in Asking
  OBVIOUS
<1>2. r \in Seq(Asking) /\ Len(r) = n - 1 /\ \A i \in 1..(n - 1) : r[i] = q[i + 1]
  OBVIOUS
<1>3. EndOf(q) = q[n].do /\ EndOf(q) \in Ending
  BY DEF Chain, EndOf
<1>4. \A i \in 1..(n - 1) : q[i].do = CallOf(EndOf(q)) /\ q[i].do \notin Ending
  BY <1>3 DEF Chain, CallOf, Ending
<1> HIDE DEF n, r
<1>5. CASE n = 1
  <2>1. r = <<>>
    BY <1>2, <1>5
  <2> QED BY <1>1, <1>3, <1>5, <2>1 DEF n, r
<1>6. CASE n > 1
  <2>1. 1 \in 1..(n - 1) /\ n - 1 \in 1..(n - 1) /\ (n - 1) + 1 = n
    BY <1>1, <1>6
  <2>2. q[1].do = CallOf(EndOf(q)) /\ q[1].do \notin Ending
    BY <1>4, <2>1
  <2>3. r # <<>> /\ r[Len(r)] = q[n]
    BY <1>2, <2>1
  <2>4. EndOf(r) = EndOf(q)
    BY <1>3, <2>3 DEF EndOf
  <2>5. \A i \in 1..(Len(r) - 1) : r[i].do = CallOf(EndOf(r))
    <3>1. \A i \in 1..(Len(r) - 1) : i \in 1..(n - 1) /\ i + 1 \in 1..(n - 1)
      BY <1>1, <1>2
    <3> QED BY <1>2, <1>4, <2>4, <3>1
  <2>6. Chain(r)
    BY <1>3, <2>4, <2>5 DEF Chain
  <2> QED BY <1>1, <1>2, <1>6, <2>2, <2>3, <2>4, <2>6 DEF n, r
<1> QED BY <1>1, <1>5, <1>6

Made(x, l, t) == Sound(x) /\ Panes(x, l, t) /\ Steady(x)

(* The next call is made, or the chain has ended.                            *)
LEMMA CallsMade ==
  ASSUME NEW l, NEW t, NEW w, Sound(w), Panes(w, l, t), w.calls = {},
         w.queue # <<>> => Head(w.queue).do # "first" /\ Head(w.queue).do # "select"
  PROVE  Made(Calls(w), l, t)
<1> DEFINE q == w.queue
           x == Calls(w)
<1>1. w \in Windows /\ q \in Seq(Asking) /\ Chain(q)
  BY DEF Sound, Windows
<1>2. CASE q = <<>>
  <2> DEFINE y == [w EXCEPT !.running = FALSE]
  <2>1. x = y
    BY <1>2 DEF Calls, ChainEnds
  <2>2. y \in Windows
    BY <1>1 DEF Windows
  <2>3. SameChain(y, w) /\ SameView(y, w) /\ SamePanes(y, w) /\ ~y.running
    BY <1>1 DEF Windows, SameChain, SameView, SamePanes
  <2> HIDE DEF x, y
  <2>4. Sound(y) /\ Panes(y, l, t)
    BY <2>2, <2>3, SameIsSound, SamePanesTell
  <2>5. Steady(y)
    BY <1>2, <2>3 DEF Steady, SameChain
  <2> QED BY <2>1, <2>4, <2>5 DEF Made, x
<1>3. CASE q # <<>> /\ Head(q).do = "show"
  <2> DEFINE z == [w EXCEPT !.queue = Tail(q), !.spin = FALSE]
             y == [z EXCEPT !.running = FALSE]
  <2>1. x = y
    BY <1>3 DEF Calls, ChainEnds
  <2>2. Tail(q) = <<>> /\ Len(q) = 1 /\ q[1].do = "show" /\ EndOf(q) = "show"
    BY <1>1, <1>3, Heads DEF Ending
  <2>3. Tail(q) \in Seq(Asking)
    BY <1>1, <1>3
  <2>4. z \in Windows /\ y \in Windows
    BY <1>1, <2>3 DEF Windows
  <2>5. /\ y.queue = <<>> /\ y.calls = {} /\ SameView(y, w) /\ SamePanes(y, w) /\ ~y.running
    BY <1>1, <2>2 DEF Windows, SameView, SamePanes
  <2> HIDE DEF x, y, z
  <2>6. Chain(y.queue) /\ OneCall(y)
    BY <2>5 DEF Chain, OneCall
  <2>7. /\ InCall(y) = {} /\ InQueue(y) = {} /\ Coming(y) = {}
        /\ InCall(w) = {} /\ InQueue(w) = {} /\ Coming(w) = {}
    <3>1. InCall(y) = {} /\ InQueue(y) = {}
      BY <2>5 DEF InCall, InQueue
    <3>2. InCall(w) = {} /\ InQueue(w) = {}
      BY <2>2 DEF InCall, InQueue, Reads
    <3> QED BY <3>1, <3>2 DEF Coming
  <2>8. Once(y)
    BY <2>5, <2>7 DEF Sound, Once, SameView
  <2>9. Panes(y, l, t)
    <3>1. InRegion(y, l) = InRegion(w, l) /\ HitDays(y) = HitDays(w)
      BY <2>5 DEF SamePanes, InRegion, Region, Targets, ChosenDays, HitDays
    <3>2. Tells(w, l, t) => Tells(y, l, t)
      BY <2>5, <2>7, <3>1 DEF Tells, SameView
    <3>3. EndOf(y.queue) = "none"
      BY <2>5 DEF EndOf
    <3> QED BY <2>5, <3>1, <3>2, <3>3 DEF Panes, SamePanes
  <2>10. Steady(y)
    BY <2>5 DEF Steady
  <2> QED BY <2>1, <2>4, <2>6, <2>8, <2>9, <2>10 DEF Made, Sound, x
<1>4. CASE q # <<>> /\ Head(q).do # "show"
  <2> DEFINE c == Call(Head(q))
             k == w.calls \cup {c}
             b == Len(q) > 1
             y == [w EXCEPT !.queue = Tail(q), !.running = b, !.calls = k]
             n == Len(q) - 1
  <2>1. x = y
    BY <1>4 DEF Calls
  <2>2. /\ Len(q) > 1 /\ q[1].do = CallOf(EndOf(q)) /\ q[1] \in Asking /\ Head(q) = q[1]
        /\ Tail(q) \in Seq(Asking) /\ Tail(q) # <<>> /\ Len(Tail(q)) = n
        /\ \A i \in 1..n : Tail(q)[i] = q[i + 1]
        /\ EndOf(Tail(q)) = EndOf(q) /\ Chain(Tail(q))
    <3>1. Head(q).do \notin Ending
      BY <1>4 DEF Ending
    <3> QED BY <1>1, <1>4, <3>1, Heads
  <2>3. c \in Calling /\ c.do = q[1].do /\ c.of = q[1].of /\ c.what = q[1].what /\ c.wanted
    BY <2>2 DEF Asking, Calling, Call
  <2> HIDE DEF c
  <2>4. k = {c} /\ k \in SUBSET Calling /\ b \in BOOLEAN /\ b
    BY <2>2, <2>3
  <2> HIDE DEF k, b
  <2>5. y \in Windows
    BY <1>1, <2>2, <2>4 DEF Windows
  <2>6. /\ y.queue = Tail(q) /\ y.calls = {c} /\ SameView(y, w) /\ SamePanes(y, w)
        /\ y.running <=> b
    BY <1>1, <2>4 DEF Windows, SameView, SamePanes
  <2> HIDE DEF x, y
  <2>7. n \in Nat /\ 1 \in 1..Len(q) /\ \A i \in 1..n : i + 1 \in 1..Len(q) /\ i + 1 # 1
    BY <1>1, <2>2
  <2>8. \A i \in 1..Len(q) : i = 1 \/ \E j \in 1..n : i = j + 1
    <3>1. \A i \in 1..Len(q) : i = 1 \/ (i - 1 \in 1..n /\ i = (i - 1) + 1)
      BY <1>1, <2>2
    <3> QED BY <3>1
  <2> HIDE DEF n
  <2>9. \A d \in InCall(y) : 1 \in InQueue(w) /\ d = c /\ d.of = q[1].of /\ d.what = q[1].what
    BY <2>3, <2>6, <2>7 DEF InCall, InQueue, Reads
  <2>10. \A i \in InQueue(y) : i + 1 \in InQueue(w) /\ i + 1 # 1 /\ i \in 1..n /\ y.queue[i] = q[i + 1]
    BY <2>2, <2>6, <2>7 DEF InQueue, Reads
  <2>11. \A i \in InQueue(w) : \/ c \in InCall(y) /\ c.of = q[i].of
                               \/ \E j \in InQueue(y) : y.queue[j] = q[i]
    <3> TAKE i \in InQueue(w)
    <3>1. i \in 1..Len(q) /\ q[i].do = "events"
      BY DEF InQueue, Reads
    <3>2. CASE i = 1
      BY <2>3, <2>6, <3>1, <3>2 DEF InCall, Reads
    <3>3. CASE i # 1
      <4>1. PICK j \in 1..n : i = j + 1
        BY <2>8, <3>1, <3>3
      <4>2. Tail(q)[j] = q[i]
        BY <2>2, <4>1
      <4> QED BY <2>2, <2>6, <3>1, <4>1, <4>2 DEF InQueue, Reads
    <3> QED BY <3>2, <3>3
  <2>12. Coming(y) = Coming(w)
    <3>1. InCall(w) = {}
      BY DEF InCall
    <3>2. Coming(y) \subseteq Coming(w)
      BY <2>9, <2>10 DEF Coming
    <3>3. Coming(w) \subseteq Coming(y)
      BY <2>11, <3>1 DEF Coming
    <3> QED BY <3>2, <3>3
  <2>13. OneCall(y)
    BY <2>2, <2>3, <2>6 DEF OneCall
  <2>14. Once(y)
    <3>1. \A i, j \in InQueue(w) : q[i].of = q[j].of => i = j
      BY DEF Sound, Once
    <3>2. \A i, j \in InQueue(y) : y.queue[i].of = y.queue[j].of => i = j
      <4> SUFFICES ASSUME NEW i \in InQueue(y), NEW j \in InQueue(y), y.queue[i].of = y.queue[j].of
                   PROVE  i = j
        OBVIOUS
      <4>1. i + 1 = j + 1
        BY <2>10, <3>1
      <4> QED BY <2>7, <2>10, <4>1
    <3>3. \A d \in InCall(y), i \in InQueue(y) : d.of # y.queue[i].of
      BY <2>9, <2>10, <3>1
    <3> QED BY <2>6, <2>12, <3>2, <3>3 DEF Sound, Once, SameView
  <2>15. Panes(y, l, t)
    <3>1. Region(y) = Region(w) /\ InRegion(y, l) = InRegion(w, l) /\ HitDays(y) = HitDays(w)
      BY <2>6 DEF SamePanes, InRegion, Region, Targets, ChosenDays, HitDays
    <3>2. ASSUME Tells(w, l, t) PROVE Tells(y, l, t)
      <4>1. y.shown \subseteq InRegion(y, l) /\ InRegion(y, l) \ y.shown \subseteq t \cup Coming(y)
        BY <2>6, <2>12, <3>1, <3>2 DEF Tells, SameView
      <4>2. \A i \in InQueue(w) : q[i].what = w.what /\ q[i].of \in Region(w)
        BY <3>2 DEF Tells
      <4>3. \A d \in InCall(y) : d.what = y.what /\ d.of \in Region(y)
        BY <2>6, <2>9, <3>1, <4>2 DEF SamePanes
      <4>4. \A i \in InQueue(y) : y.queue[i].what = y.what /\ y.queue[i].of \in Region(y)
        BY <2>6, <2>10, <3>1, <4>2 DEF SamePanes
      <4> QED BY <4>1, <4>3, <4>4 DEF Tells
    <3> QED BY <2>2, <2>6, <3>1, <3>2 DEF Panes, SamePanes
  <2>16. Steady(y)
    BY <2>4, <2>6 DEF Steady
  <2>17. Chain(y.queue)
    BY <2>2, <2>6
  <2> QED BY <2>1, <2>5, <2>13, <2>14, <2>15, <2>16, <2>17 DEF Made, Sound, x
<1> QED BY <1>2, <1>3, <1>4

LEMMA DatesMade ==
  ASSUME NEW l, NEW t, NEW w, Sound(w), Panes(w, l, t), w.calls = {},
         w.queue # <<>> => Head(w.queue).do # "first"
  PROVE  Made(Dates(w), l, t)
<1> DEFINE q == w.queue
<1>1. w \in Windows /\ q \in Seq(Asking) /\ Chain(q)
  BY DEF Sound, Windows
<1>2. CASE ~(q # <<>> /\ Head(q).do = "select")
  <2>1. Dates(w) = Calls(w)
    BY <1>2 DEF Dates
  <2> QED BY <1>2, <2>1, CallsMade
<1>3. CASE q # <<>> /\ Head(q).do = "select"
  <2> DEFINE y == [w EXCEPT !.queue = Tail(q), !.running = TRUE]
             x == SelectDate(y)
  <2>1. Dates(w) = Calls(x)
    BY <1>3 DEF Dates
  <2>2. Tail(q) = <<>> /\ EndOf(q) = "select" /\ Tail(q) \in Seq(Asking)
    <3>1. Head(q).do \in Ending
      BY <1>3 DEF Ending
    <3> QED BY <1>1, <1>3, <3>1, Heads
  <2>3. y \in Windows
    BY <1>1, <2>2 DEF Windows
  <2>4. y.queue = <<>> /\ y.calls = {} /\ SameView(y, w) /\ SamePanes(y, w)
    BY <1>1, <2>2 DEF Windows, SameView, SamePanes
  <2> HIDE DEF y
  <2>5. Chain(y.queue) /\ OneCall(y)
    BY <2>4 DEF Chain, OneCall
  <2>6. Once(y)
    <3>1. InCall(y) = {} /\ InQueue(y) = {}
      BY <2>4 DEF InCall, InQueue
    <3> QED BY <2>4, <3>1 DEF Sound, Once, Coming, SameView
  <2>7. Sound(y)
    BY <2>3, <2>5, <2>6 DEF Sound
  <2>8. y.who # {} => y.hits = {} /\ (y.when = {} \/ y.blocked > 0)
    BY <2>2, <2>4 DEF Panes, SamePanes
  <2>9. Ready(x, y) /\ EndOf(x.queue) \in {"none", "show"}
    BY <2>4, <2>7, <2>8, DateSelected
  <2> HIDE DEF x
  <2>10. x.queue # <<>> => Head(x.queue).do # "first" /\ Head(x.queue).do # "select"
    <3>1. x.queue \in Seq(Asking) /\ Chain(x.queue)
      BY <2>9 DEF Ready, Sound, Windows
    <3> QED BY <2>9, <3>1, Heads DEF Ending
  <2>11. Made(Calls(x), l, t)
    BY <2>4, <2>9, <2>10, CallsMade DEF Ready
  <2> QED BY <2>1, <2>11
<1> QED BY <1>2, <1>3

LEMMA Continued ==
  ASSUME NEW l, NEW t, NEW w, Sound(w), Panes(w, l, t), w.calls = {}
  PROVE  Made(Continue(w), l, t)
<1> DEFINE q == w.queue
<1>1. w \in Windows /\ q \in Seq(Asking) /\ Chain(q)
  BY DEF Sound, Windows
<1>2. CASE ~(q # <<>> /\ Head(q).do = "first")
  <2>1. Continue(w) = Dates(w)
    BY <1>2 DEF Continue
  <2> QED BY <1>2, <2>1, DatesMade
<1>3. CASE q # <<>> /\ Head(q).do = "first"
  <2> DEFINE y == [w EXCEPT !.queue = Tail(q), !.running = TRUE]
             x == SelectFirstEntity(y)
  <2>1. Continue(w) = Dates(x)
    BY <1>3 DEF Continue
  <2>2. Tail(q) = <<>> /\ EndOf(q) = "first" /\ Tail(q) \in Seq(Asking)
    <3>1. Head(q).do \in Ending
      BY <1>3 DEF Ending
    <3> QED BY <1>1, <1>3, <3>1, Heads
  <2>3. y \in Windows
    BY <1>1, <2>2 DEF Windows
  <2>4. y.queue = <<>> /\ y.calls = {} /\ SameView(y, w) /\ SamePanes(y, w)
    BY <1>1, <2>2 DEF Windows, SameView, SamePanes
  <2> HIDE DEF y
  <2>5. Chain(y.queue) /\ OneCall(y)
    BY <2>4 DEF Chain, OneCall
  <2>6. Once(y)
    <3>1. InCall(y) = {} /\ InQueue(y) = {}
      BY <2>4 DEF InCall, InQueue
    <3> QED BY <2>4, <3>1 DEF Sound, Once, Coming, SameView
  <2>7. Sound(y)
    BY <2>3, <2>5, <2>6 DEF Sound
  <2>8. y.who = {}
    BY <2>2, <2>4 DEF Panes, SamePanes
  <2>9. Ready(x, y) /\ EndOf(x.queue) \in {"none", "select", "show"}
    BY <2>4, <2>7, <2>8, FirstSelected
  <2> HIDE DEF x
  <2>10. x.queue # <<>> => Head(x.queue).do # "first"
    <3>1. x.queue \in Seq(Asking) /\ Chain(x.queue)
      BY <2>9 DEF Ready, Sound, Windows
    <3> QED BY <2>9, <3>1, Heads DEF Ending
  <2>11. Made(Dates(x), l, t)
    BY <2>4, <2>9, <2>10, DatesMade DEF Ready
  <2> QED BY <2>1, <2>11
<1> QED BY <1>2, <1>3

(* A chain that runs waits for an answer; another one makes its first call.  *)
LEMMA Started ==
  ASSUME NEW l, NEW t, NEW w, Sound(w), Panes(w, l, t), w.running <=> w.calls # {}
  PROVE  Made(Start(w), l, t)
<1>1. CASE w.running \/ w.queue = <<>>
  BY <1>1 DEF Start, Made, Steady
<1>2. CASE ~(w.running \/ w.queue = <<>>)
  BY <1>2, Continued DEF Start
<1> QED BY <1>1, <1>2

LEMMA StartedAnew ==
  ASSUME NEW w, w.running <=> w.calls # {}, NEW x, Ready(x, w), NEW l, NEW t
  PROVE  Made(Start(x), l, t)
<1>1. Sound(x) /\ Panes(x, l, t) /\ (x.running <=> x.calls # {})
  BY DEF Ready
<1> QED BY <1>1, Started

LEMMA HitsPopulated ==
  ASSUME NEW w, Sound(w), w.running <=> w.calls # {}, NEW l, NEW t
  PROVE  Made(PopulateHits(w), l, t)
<1> DEFINE listed == {e \in {h[1] : h \in w.hits} : w.account \in {"all", "none", AccountOf[e]}}
           who == IF listed = {} THEN {} ELSE {Anyone}
           x == [w EXCEPT !.listed = listed, !.who = who]
           g == GetMessages(x, TRUE)
<1>1. PopulateHits(w) = Start(g)
  BY DEF PopulateHits
<1>2. w \in Windows
  BY DEF Sound
<1>3. listed \in SUBSET Entities /\ who \in SUBSET (Entities \cup {Anyone})
  BY <1>2 DEF Windows, Entry
<1> HIDE DEF listed, who
<1>4. x \in Windows
  BY <1>2, <1>3 DEF Windows
<1>5. SameChain(x, w) /\ SameView(x, w) /\ x.running = w.running
  BY <1>2 DEF Windows, SameChain, SameView
<1> HIDE DEF x
<1>6. Sound(x) /\ (x.running <=> x.calls # {})
  BY <1>4, <1>5, SameIsSound DEF SameChain
<1>7. Ready(g, x)
  BY <1>6, MessagesAsked
<1> HIDE DEF g
<1>8. Made(Start(g), l, t)
  BY <1>6, <1>7, StartedAnew
<1> QED BY <1>1, <1>8

LEMMA WhoPopulated ==
  ASSUME NEW w, Sound(w), w.running <=> w.calls # {}, NEW l, NEW t
  PROVE  Made(WhoPopulate(w), l, t)
<1> DEFINE y == [w EXCEPT !.listed = {}, !.who = {}]
           x == Outdate(y)
           accounts == IF w.account = "all" THEN LogAccounts ELSE {w.account}
           S == {<<a>> : a \in accounts}
           q == Asks("entities", S, w) \o Sync("first")
           z == [x EXCEPT !.queue = q]
<1>1. WhoPopulate(w) = IF w.hits # {} THEN PopulateHits(w)
                       ELSE IF w.account = "none" THEN x ELSE Start(z)
  BY DEF WhoPopulate
<1>2. w \in Windows
  BY DEF Sound
<1>3. y \in Windows
  BY <1>2 DEF Windows
<1>4. SameChain(y, w) /\ SameView(y, w) /\ y.who = {} /\ y.running = w.running
  BY <1>2 DEF Windows, SameChain, SameView
<1> HIDE DEF y
<1>5. Sound(y)
  BY <1>3, <1>4, SameIsSound
<1>6. /\ Sound(x) /\ x.queue = <<>> /\ SameView(x, y) /\ SamePanes(x, y)
      /\ x.running = y.running /\ (x.calls = {} <=> y.calls = {})
      /\ \A c \in x.calls : ~c.wanted
  BY <1>5, Outdated
<1> HIDE DEF x
<1>7. x.who = {} /\ (x.running <=> x.calls # {})
  BY <1>4, <1>6 DEF SamePanes, SameChain
<1>8. CASE w.hits # {}
  BY <1>1, <1>8, HitsPopulated
<1>9. CASE w.hits = {} /\ w.account = "none"
  <2>1. Panes(x, l, t) /\ Steady(x)
    BY <1>6, <1>7 DEF Panes, Steady
  <2> QED BY <1>1, <1>6, <1>9, <2>1 DEF Made
<1>10. CASE w.hits = {} /\ w.account # "none"
  <2>1. S \in SUBSET Subjects /\ IsFiniteSet(S)
    <3>1. w.account \in Chosen /\ LogAccounts \subseteq Chosen
      BY <1>2 DEF Windows, Chosen
    <3>2. accounts \subseteq Chosen /\ IsFiniteSet(accounts)
      BY <3>1, EntriesFinite, FS_Singleton
    <3>3. [a \in accounts |-> <<a>>] \in Surjection(accounts, S)
      BY DEF Surjection
    <3> HIDE DEF accounts
    <3> QED BY <3>2, <3>3, FS_Surjection DEF Subjects
  <2>2. w.what \in Kinds
    BY <1>2 DEF Windows
  <2>3. PICK do \in Reading, end \in Ending : do = "entities" /\ end = "first"
    BY DEF Reading, Ending
  <2>4. q = Asks(do, S, w) \o Sync(end)
    BY <2>3
  <2> HIDE DEF q, S
  <2>5. ChainOf(q, do, end, S, w.what)
    BY <2>1, <2>2, <2>4, AsksMade
  <2>6. /\ q \in Seq(Asking) /\ q # <<>> /\ EndOf(q) = "first"
        /\ \A i \in 1..(Len(q) - 1) : q[i].do = "entities"
    BY <2>3, <2>5 DEF ChainOf
  <2>7. x \in Windows
    BY <1>6 DEF Sound
  <2>8. z \in Windows
    BY <2>6, <2>7 DEF Windows
  <2>9. z.queue = q /\ z.calls = x.calls /\ SameView(z, x) /\ z.who = x.who /\ z.running = x.running
    BY <2>7 DEF Windows, SameView
  <2> HIDE DEF z
  <2>10. Chain(z.queue)
    BY <2>6, <2>9 DEF Chain, CallOf, Ending
  <2>11. OneCall(z)
    BY <1>6, <2>9 DEF Sound, OneCall
  <2>12. Once(z)
    <3>1. InCall(z) = {}
      BY <1>6, <2>9 DEF InCall
    <3>2. InQueue(z) = {}
      <4>1. \A i \in 1..Len(q) : q[i].do # "events"
        <5>1. \A i \in 1..Len(q) : i \in 1..(Len(q) - 1) \/ i = Len(q)
          BY <2>6
        <5>2. q[Len(q)].do = "first"
          BY <2>6 DEF EndOf
        <5> QED BY <2>6, <5>1, <5>2
      <4> QED BY <2>9, <4>1 DEF InQueue, Reads
    <3> QED BY <1>6, <2>9, <3>1, <3>2 DEF Sound, Once, Coming, SameView
  <2>13. Panes(z, l, t)
    BY <1>7, <2>9 DEF Panes
  <2>14. Made(Start(z), l, t)
    <3>1. Sound(z) /\ (z.running <=> z.calls # {})
      BY <1>7, <2>8, <2>9, <2>10, <2>11, <2>12 DEF Sound
    <3> QED BY <2>13, <3>1, Started
  <2> QED BY <1>1, <1>10, <2>14
<1> QED BY <1>8, <1>9, <1>10

(* What each answer brings.                                                  *)
LEMMA EntitiesGot ==
  ASSUME NEW w, Sound(w), w.calls = {}, w.who = {}, w.running, NEW a
  PROVE  LET g == GotEntities(w, a)
         IN Sound(g) /\ g.calls = {} /\ \A l, t : Panes(g, l, t)
<1> DEFINE new == {e \in Entities : AccountOf[e] = a /\ \E d \in Days : <<e, d>> \in logs}
           k == w.listed \cup new
           x == [w EXCEPT !.listed = k]
           asked == w.chat # NoChat /\ AccountOf[w.chat] = a /\ new # {}
           who == x.who \cup {w.chat}
           y == [x EXCEPT !.chat = NoChat, !.who = who]
           z == [x EXCEPT !.chat = NoChat]
           m == GetMessages(y, TRUE)
           g == GotEntities(w, a)
<1>1. g = IF ~asked THEN x ELSE IF w.chat \in x.listed \ x.who THEN Start(m) ELSE z
  BY DEF GotEntities
<1>2. w \in Windows
  BY DEF Sound
<1>3. k \in SUBSET Entities
  BY <1>2 DEF Windows
<1> HIDE DEF k, g
<1>4. x \in Windows
  BY <1>2, <1>3 DEF Windows
<1>5. SameChain(x, w) /\ SameView(x, w) /\ x.who = {} /\ x.running = w.running
  BY <1>2 DEF Windows, SameChain, SameView
<1> HIDE DEF x
<1>6. Sound(x)
  BY <1>4, <1>5, SameIsSound
<1>7. z \in Windows
  BY <1>4 DEF Windows
<1>8. SameChain(z, w) /\ SameView(z, w) /\ z.who = {}
  BY <1>4, <1>5 DEF Windows, SameChain, SameView
<1>9. Sound(z)
  BY <1>7, <1>8, SameIsSound
<1> HIDE DEF z
<1>10. CASE ~asked
  BY <1>1, <1>5, <1>6, <1>10 DEF SameChain, Panes, g
<1>11. CASE asked /\ ~(w.chat \in x.listed \ x.who)
  BY <1>1, <1>8, <1>9, <1>11 DEF SameChain, Panes, g
<1>12. CASE asked /\ w.chat \in x.listed \ x.who
  <2>1. who \in SUBSET (Entities \cup {Anyone})
    BY <1>4, <1>12 DEF Windows
  <2> HIDE DEF who
  <2>2. y \in Windows
    BY <1>4, <2>1 DEF Windows
  <2>3. SameChain(y, w) /\ SameView(y, w) /\ y.running = w.running
    BY <1>4, <1>5 DEF Windows, SameChain, SameView
  <2> HIDE DEF y
  <2>4. Sound(y)
    BY <2>2, <2>3, SameIsSound
  <2>5. Ready(m, y)
    BY <2>4, MessagesAsked
  <2>6. g = Start(m)
    BY <1>1, <1>12
  <2> HIDE DEF m
  <2>7. Start(m) = m
    BY <2>3, <2>5 DEF Ready, Start
  <2> QED BY <2>3, <2>5, <2>6, <2>7 DEF Ready, SameChain, g
<1> QED BY <1>10, <1>11, <1>12

LEMMA DatesGot ==
  ASSUME NEW l, NEW t, NEW w, Sound(w), w.calls = {}, NEW c,
         Panes(w, l, t), EndOf(w.queue) = "select"
  PROVE  LET g == GotDates(w, c)
         IN Sound(g) /\ g.calls = {} /\ Panes(g, l, t)
<1> DEFINE k == w.days \cup {d \in Days : <<c.of[1], d>> \in logs \cap OfKind(c.what)}
           g == [w EXCEPT !.days = k]
<1>1. GotDates(w, c) = g
  BY DEF GotDates
<1>2. w \in Windows /\ w.blocked \in Nat
  BY DEF Sound, Windows
<1>3. k \in SUBSET Days
  BY <1>2 DEF Windows
<1> HIDE DEF k
<1>4. g \in Windows
  BY <1>2, <1>3 DEF Windows
<1>5. /\ SameChain(g, w) /\ SameView(g, w) /\ g.who = w.who /\ g.hits = w.hits /\ g.when = w.when
      /\ g.blocked = w.blocked
  BY <1>2 DEF Windows, SameChain, SameView
<1> HIDE DEF g
<1>6. Sound(g) /\ g.calls = {}
  BY <1>4, <1>5, SameIsSound DEF SameChain
<1>7. Panes(g, l, t)
  BY <1>2, <1>5 DEF Panes, SameChain
<1> QED BY <1>1, <1>6, <1>7

(* The events of one contact and day, that were asked for once.              *)
LEMMA EventsGot ==
  ASSUME NEW l \in SUBSET Entry, l = logs, NEW t, NEW w, Sound(w), Panes(w, l, t),
         NEW c, c \in w.calls, c.wanted, c.do = "events",
         NEW v \in Windows, v.queue = w.queue, v.calls = {}, SameView(v, w), SamePanes(v, w)
  PROVE  LET g == GotEvents(v, c)
         IN /\ Sound(g) /\ g.calls = {} /\ Panes(g, l, t \ {c.of})
            /\ Sound(v) /\ Panes(v, l, t \cup {c.of})
<1> DEFINE new == {c.of} \cap logs \cap OfKind(c.what) \cap v.passes
           k == v.shown \cup new
           b == v.twice \/ new \cap v.shown # {}
           g == [v EXCEPT !.shown = k, !.twice = b]
<1>1. GotEvents(v, c) = g
  BY DEF GotEvents, ToAppend
<1>2. w \in Windows /\ InQueue(v) = InQueue(w) /\ InCall(v) = {}
  BY DEF Sound, InQueue, InCall
<1>3. c \in InCall(w) /\ \A d \in InCall(w) : d = c
  BY DEF Sound, OneCall, InCall, Reads
<1>4. Coming(w) = {c.of} \cup Coming(v) /\ c.of \notin Coming(v) /\ c.of \notin w.shown
  <2>1. Coming(w) = {c.of} \cup Coming(v)
    BY <1>2, <1>3 DEF Coming
  <2>2. c.of \notin Coming(v)
    BY <1>2, <1>3 DEF Sound, Once, Coming
  <2>3. c.of \notin w.shown
    BY <1>3, <2>1 DEF Sound, Once
  <2> QED BY <2>1, <2>2, <2>3
<1>5. ~v.twice /\ new \cap v.shown = {}
  BY <1>4 DEF Sound, Once, SameView
<1>6. k \in SUBSET Entry /\ b \in BOOLEAN /\ ~b
  BY <1>5 DEF Windows
<1>7. new \subseteq {c.of}
  OBVIOUS
<1>8. c.of \in l /\ c.of \in OfKind(c.what) /\ c.of \in w.passes => c.of \in k
  BY DEF SamePanes
<1> HIDE DEF b
<1>9. /\ g.queue = v.queue /\ g.calls = {} /\ SamePanes(g, v) /\ g.shown = k
      /\ (g.twice <=> b)
  <2> HIDE DEF k
  <2> QED BY DEF Windows, SamePanes
<1>10. g \in Windows
  <2> HIDE DEF k
  <2> QED BY <1>6 DEF Windows
<1> HIDE DEF g
<1>11. InQueue(g) = InQueue(w) /\ InCall(g) = {} /\ Coming(g) = Coming(v)
  BY <1>2, <1>9 DEF InQueue, InCall, Coming
<1>12. /\ Chain(g.queue) /\ OneCall(g) /\ Chain(v.queue) /\ OneCall(v)
  BY <1>9 DEF Sound, OneCall
<1>13. Once(v)
  BY <1>2, <1>4, <1>5 DEF Sound, Once, SameView
<1>14. Once(g)
  BY <1>2, <1>4, <1>6, <1>7, <1>9, <1>11, <1>13 DEF Once
<1>15. /\ Region(g) = Region(w) /\ InRegion(g, l) = InRegion(w, l) /\ HitDays(g) = HitDays(w)
       /\ Region(v) = Region(w) /\ InRegion(v, l) = InRegion(w, l) /\ HitDays(v) = HitDays(w)
  BY <1>9 DEF SamePanes, InRegion, Region, Targets, ChosenDays, HitDays
<1>16. ASSUME Tells(w, l, t) PROVE Tells(v, l, t \cup {c.of})
  <2>1. v.shown \subseteq InRegion(v, l)
    BY <1>15, <1>16 DEF Tells, SameView
  <2>2. InRegion(v, l) \ v.shown \subseteq (t \cup {c.of}) \cup Coming(v)
    BY <1>4, <1>15, <1>16 DEF Tells, SameView
  <2> QED BY <1>2, <1>15, <1>16, <2>1, <2>2 DEF Tells, SamePanes
<1>17. ASSUME Tells(w, l, t) PROVE Tells(g, l, t \ {c.of})
  <2>1. c.what = w.what /\ c.of \in Region(w)
    BY <1>3, <1>17 DEF Tells
  <2>2. new \subseteq InRegion(w, l)
    BY <2>1 DEF InRegion, SamePanes
  <2>3. g.shown \subseteq InRegion(g, l)
    BY <1>9, <1>15, <1>17, <2>2 DEF Tells, SameView
  <2>4. InRegion(g, l) \ g.shown \subseteq (t \ {c.of}) \cup Coming(g)
    <3> SUFFICES ASSUME NEW h \in InRegion(w, l), h \notin k
                 PROVE  h \in (t \ {c.of}) \cup Coming(v)
      BY <1>9, <1>11, <1>15
    <3>1. h # c.of
      BY <1>8, <2>1 DEF InRegion
    <3>2. h \in t \cup Coming(w)
      BY <1>17 DEF Tells, SameView
    <3> QED BY <1>4, <3>1, <3>2
  <2> QED BY <1>9, <1>11, <1>15, <1>17, <2>3, <2>4 DEF Tells, SamePanes
<1>18. Panes(v, l, t \cup {c.of}) /\ Panes(g, l, t \ {c.of})
  BY <1>9, <1>15, <1>16, <1>17 DEF Panes, SamePanes
<1> QED BY <1>1, <1>9, <1>10, <1>12, <1>13, <1>14, <1>18 DEF Sound

LEMMA AnswerHeard ==
  ASSUME NEW w, Steady(w), NEW t, logs \subseteq Entry, Sound(w), Panes(w, logs, t),
         NEW c \in w.calls, NEW ok \in BOOLEAN, NEW s,
         s = IF c.do # "events" \/ ~c.wanted THEN t
             ELSE IF ok THEN t \ {c.of} ELSE t \cup {c.of}
  PROVE  Made(Answered([w EXCEPT !.calls = @ \ {c}], c, ok), logs, s)
<1> DEFINE k == w.calls \ {c}
           v == [w EXCEPT !.calls = k]
           g == IF c.wanted /\ ok THEN Got(v, c) ELSE v
<1>1. Answered(v, c, ok) = Continue(g)
  BY DEF Answered
<1>2. w \in Windows /\ w.running
  BY DEF Sound, Windows, Steady
<1>3. k = {} /\ k \in SUBSET Calling
  BY DEF Sound, OneCall
<1> HIDE DEF k
<1>4. v \in Windows
  BY <1>2, <1>3 DEF Windows
<1>5. /\ v.queue = w.queue /\ v.calls = {} /\ SameView(v, w) /\ SamePanes(v, w)
      /\ v.running
  BY <1>2, <1>3 DEF Windows, SameView, SamePanes
<1> HIDE DEF v, g
<1>6. InCall(v) = {} /\ InQueue(v) = InQueue(w)
  BY <1>5 DEF InCall, InQueue
<1>7. Sound(v)
  <2>1. Coming(v) \subseteq Coming(w)
    BY <1>5, <1>6 DEF Coming
  <2>2. Once(v)
    BY <1>5, <1>6, <2>1 DEF Sound, Once, SameView
  <2> QED BY <1>4, <1>5, <2>2 DEF Sound, OneCall
<1>8. Sound(g) /\ g.calls = {} /\ Panes(g, logs, s)
  <2>1. CASE ~c.wanted
    <3>1. InCall(w) = {} /\ g = v /\ s = t
      BY <2>1 DEF Sound, OneCall, InCall, g
    <3>2. Coming(v) = Coming(w)
      BY <1>5, <1>6, <3>1 DEF Coming
    <3>3. Panes(v, logs, t)
      <4>1. /\ Region(v) = Region(w) /\ InRegion(v, logs) = InRegion(w, logs)
            /\ HitDays(v) = HitDays(w)
        BY <1>5 DEF SamePanes, InRegion, Region, Targets, ChosenDays, HitDays
      <4>2. Tells(w, logs, t) => Tells(v, logs, t)
        BY <1>5, <1>6, <3>2, <4>1 DEF Tells, SameView, SamePanes
      <4> QED BY <1>5, <4>1, <4>2 DEF Panes, SamePanes
    <3> QED BY <1>5, <1>7, <3>1, <3>3
  <2>2. CASE c.wanted /\ c.do = "events"
    <3>1. s = IF ok THEN t \ {c.of} ELSE t \cup {c.of}
      BY <2>2
    <3> DEFINE h == GotEvents(v, c)
    <3>2. /\ Sound(h) /\ h.calls = {} /\ Panes(h, logs, t \ {c.of})
          /\ Sound(v) /\ Panes(v, logs, t \cup {c.of})
      <4>1. PICK l \in SUBSET Entry : l = logs
        OBVIOUS
      <4> QED BY <1>4, <1>5, <2>2, <4>1, EventsGot
    <3> HIDE DEF h
    <3>3. g = IF ok THEN h ELSE v
      BY <2>2 DEF g, h, Got
    <3> QED BY <1>5, <3>1, <3>2, <3>3
  <2>3. CASE c.wanted /\ c.do # "events"
    <3>1. s = t /\ c.do = CallOf(EndOf(w.queue)) /\ InCall(w) = {}
      BY <2>3 DEF Sound, OneCall, InCall, Reads
    <3>2. Coming(v) = Coming(w)
      BY <1>5, <1>6, <3>1 DEF Coming
    <3>3. Panes(v, logs, t)
      <4>1. /\ Region(v) = Region(w) /\ InRegion(v, logs) = InRegion(w, logs)
            /\ HitDays(v) = HitDays(w)
        BY <1>5 DEF SamePanes, InRegion, Region, Targets, ChosenDays, HitDays
      <4>2. Tells(w, logs, t) => Tells(v, logs, t)
        BY <1>5, <1>6, <3>1, <3>2, <4>1 DEF Tells, SameView, SamePanes
      <4> QED BY <1>5, <4>1, <4>2 DEF Panes, SamePanes
    <3>4. CASE ~ok
      <4>1. g = v
        BY <3>4 DEF g
      <4> QED BY <1>5, <1>7, <3>1, <3>3, <4>1
    <3>5. CASE ok /\ EndOf(w.queue) = "first"
      <4> DEFINE h == GotEntities(v, c.of[1])
      <4>1. w.who = {}
        BY <3>5 DEF Panes
      <4>2. v.who = {}
        BY <1>5, <4>1 DEF SamePanes
      <4>3. Sound(h) /\ h.calls = {} /\ \A l, u : Panes(h, l, u)
        BY <1>5, <1>7, <4>2, EntitiesGot
      <4> HIDE DEF h
      <4>4. c.do = "entities"
        BY <3>1, <3>5 DEF CallOf
      <4>5. g = h
        BY <2>3, <3>5, <4>4 DEF g, h, Got
      <4> QED BY <4>3, <4>5
    <3>6. CASE ok /\ EndOf(w.queue) # "first"
      <4> DEFINE h == GotDates(v, c)
      <4>1. EndOf(v.queue) = "select" /\ c.do = "dates"
        BY <1>5, <2>3, <3>1, <3>6 DEF CallOf
      <4>2. Sound(h) /\ h.calls = {} /\ Panes(h, logs, t)
        BY <1>5, <1>7, <3>3, <4>1, DatesGot
      <4> HIDE DEF h
      <4>3. g = h
        BY <2>3, <3>6, <4>1 DEF g, h, Got
      <4> QED BY <3>1, <4>2, <4>3
    <3> QED BY <3>4, <3>5, <3>6
  <2> QED BY <2>1, <2>2, <2>3
<1>9. Made(Continue(g), logs, s)
  BY <1>8, Continued
<1> QED BY <1>1, <1>9 DEF v, k

LEMMA ClearedIsSound ==
  ASSUME NEW w, Sound(w), NEW x \in Windows, SameChain(x, w), x.shown = {}, ~x.twice
  PROVE  Sound(x)
BY DEF Sound, SameChain, OneCall, Once, Coming, InCall, InQueue

LEMMA NewWindows ==
  ASSUME NEW o \in BOOLEAN, NEW chat \in Entities \cup {NoChat}, NEW a \in Chosen
  PROVE  /\ \A w \in {[New EXCEPT !.open = o], [New EXCEPT !.chat = chat, !.account = a]} :
              Sound(w) /\ Steady(w) /\ \A l, t : Panes(w, l, t)
<1>1. New \in Windows
  <2>1. "all" \in Chosen /\ "anything" \in Kinds /\ NoChat \in Entities \cup {NoChat}
    BY DEF Chosen, Kinds
  <2>2. <<>> \in Seq(Asking) /\ 0 \in Nat
    OBVIOUS
  <2> QED BY <2>1, <2>2 DEF New, Windows
<1>2. /\ New.queue = <<>> /\ New.calls = {} /\ New.shown = {} /\ New.who = {}
      /\ ~New.twice /\ ~New.running
  BY DEF New
<1> HIDE DEF New
<1> SUFFICES ASSUME NEW w \in {[New EXCEPT !.open = o], [New EXCEPT !.chat = chat, !.account = a]}
             PROVE  Sound(w) /\ Steady(w) /\ \A l, t : Panes(w, l, t)
  OBVIOUS
<1>3. w \in Windows
  <2>1. [New EXCEPT !.open = o] \in Windows
    BY <1>1 DEF Windows
  <2>2. [New EXCEPT !.chat = chat, !.account = a] \in Windows
    BY <1>1 DEF Windows
  <2> QED BY <2>1, <2>2
<1>4. w.queue = <<>> /\ w.calls = {} /\ w.shown = {} /\ w.who = {} /\ ~w.twice /\ ~w.running
  BY <1>1, <1>2 DEF Windows
<1>5. InCall(w) = {} /\ InQueue(w) = {}
  BY <1>4 DEF InCall, InQueue
<1> QED BY <1>3, <1>4, <1>5 DEF Sound, Steady, Panes, Chain, OneCall, Once, Coming

LEMMA Kept ==
  ASSUME logs' \subseteq Entry, Made(win', logs', late')
  PROVE  LogsInv'
BY DEF LogsInv, Made

LEMMA Begun ==
  ASSUME LogsInv, fate = "fine"
  PROVE  /\ logs \subseteq Entry /\ Sound(win) /\ win \in Windows
         /\ Panes(win, logs, late) /\ Steady(win) /\ (win.running <=> win.calls # {})
BY DEF LogsInv, Sound, Steady

LEMMA LogsBegin == LogsInit => LogsInv
<1> SUFFICES ASSUME LogsInit PROVE LogsInv
  OBVIOUS
<1>1. logs \subseteq Entry /\ win = [New EXCEPT !.open = FALSE]
  BY DEF LogsInit
<1>2. PICK chat \in Entities \cup {NoChat}, a \in Chosen, o \in BOOLEAN : o = FALSE
  BY DEF Chosen
<1>3. Sound(win) /\ Steady(win) /\ Panes(win, logs, late)
  BY <1>1, <1>2, NewWindows
<1> QED BY <1>1, <1>3 DEF LogsInv

LEMMA AnswerKeeps ==
  ASSUME LogsInv, Answer
  PROVE  LogsInv'
<1>1. PICK c \in win.calls, ok \in BOOLEAN :
        /\ fate = "fine"
        /\ win' = Answered([win EXCEPT !.calls = @ \ {c}], c, ok)
        /\ late' = (IF c.do # "events" \/ ~c.wanted THEN late
                    ELSE IF ok THEN late \ {c.of} ELSE late \cup {c.of})
        /\ UNCHANGED <<logs, strays, found, acts, fate>>
  BY DEF Answer
<1>2. logs \subseteq Entry /\ Sound(win) /\ Panes(win, logs, late) /\ Steady(win)
  BY <1>1, Begun
<1>3. Made(Answered([win EXCEPT !.calls = @ \ {c}], c, ok), logs, late')
  BY <1>1, <1>2, AnswerHeard
<1>4. Made(win', logs', late')
  BY <1>1, <1>3
<1> QED BY <1>1, <1>2, <1>4, Kept

LEMMA StrayAnswerKeeps ==
  ASSUME LogsInv, StrayAnswer
  PROVE  LogsInv'
<1>1. CASE Closed
  BY <1>1 DEF LogsInv, StrayAnswer
<1>2. CASE ~Closed
  BY <1>2 DEF LogsInv, StrayAnswer
<1> QED BY <1>1, <1>2

LEMMA SearchedKeeps ==
  ASSUME LogsInv, Searched
  PROVE  LogsInv'
<1>1. fate = "fine" /\ UNCHANGED <<logs, strays, late, acts, fate>>
  BY DEF Searched
<1>2. logs \subseteq Entry /\ Sound(win) /\ win \in Windows /\ (win.running <=> win.calls # {})
  BY <1>1, Begun
<1>3. CASE UNCHANGED win
  BY <1>1, <1>3 DEF LogsInv
<1>4. CASE ~UNCHANGED win
  <2>1. PICK hits \in SUBSET logs :
          win' = PopulateHits([win EXCEPT !.hits = hits, !.blocked = IF @ = 0 THEN 0 ELSE @ - 1])
    BY <1>4 DEF Searched
  <2> DEFINE b == IF win.blocked = 0 THEN 0 ELSE win.blocked - 1
             x == [win EXCEPT !.hits = hits, !.blocked = b]
  <2>2. b \in Nat
    BY <1>2 DEF Windows
  <2>3. win' = PopulateHits(x)
    BY <2>1
  <2> HIDE DEF b
  <2>4. x \in Windows
    BY <1>2, <2>2 DEF Windows
  <2>5. SameChain(x, win) /\ SameView(x, win) /\ x.running = win.running
    BY <1>2 DEF Windows, SameChain, SameView
  <2> HIDE DEF x
  <2>6. Sound(x) /\ (x.running <=> x.calls # {})
    BY <1>2, <2>4, <2>5, SameIsSound DEF SameChain
  <2>7. Made(win', logs', late')
    BY <2>3, <2>6, HitsPopulated
  <2> QED BY <1>1, <1>2, <2>7, Kept
<1> QED BY <1>3, <1>4

(* What the user does.                                                       *)
LEMMA SelectWhoKeeps ==
  ASSUME LogsInv, NEW S \in (SUBSET win.listed) \cup (IF win.listed = {} THEN {} ELSE {{Anyone}}),
         SelectWho(S)
  PROVE  LogsInv'
<1> DEFINE x == [win EXCEPT !.who = S]
           g == GetMessages(x, TRUE)
<1>1. fate = "fine" /\ win' = Start(g) /\ logs' = logs
  BY DEF SelectWho, Act, Show
<1>2. logs \subseteq Entry /\ Sound(win) /\ win \in Windows /\ (win.running <=> win.calls # {})
  BY <1>1, Begun
<1>3. S \in SUBSET (Entities \cup {Anyone})
  BY <1>2 DEF Windows
<1>4. x \in Windows
  BY <1>2, <1>3 DEF Windows
<1>5. SameChain(x, win) /\ SameView(x, win) /\ x.running = win.running
  BY <1>2 DEF Windows, SameChain, SameView
<1> HIDE DEF x
<1>6. Sound(x) /\ (x.running <=> x.calls # {})
  BY <1>2, <1>4, <1>5, SameIsSound DEF SameChain
<1>7. Ready(g, x)
  BY <1>6, MessagesAsked
<1> HIDE DEF g
<1>8. Made(win', logs', late')
  BY <1>1, <1>6, <1>7, StartedAnew
<1> QED BY <1>1, <1>2, <1>8, Kept

LEMMA SelectWhenKeeps ==
  ASSUME LogsInv, NEW S \in (SUBSET win.days) \cup (IF win.days = {} THEN {} ELSE {{Anytime}}),
         SelectWhen(S)
  PROVE  LogsInv'
<1> DEFINE x == [win EXCEPT !.when = S]
           g == GetMessages(x, FALSE)
<1>1. /\ fate = "fine" /\ win' = (IF win.blocked > 0 THEN x ELSE Start(g))
      /\ logs' = logs /\ late' = late
  BY DEF SelectWhen, Act, Show
<1>2. /\ logs \subseteq Entry /\ Sound(win) /\ win \in Windows /\ Panes(win, logs, late)
      /\ Steady(win) /\ (win.running <=> win.calls # {})
  BY <1>1, Begun
<1>3. S \in SUBSET (Days \cup {Anytime}) /\ win.blocked \in Nat
  BY <1>2 DEF Windows
<1>4. x \in Windows
  BY <1>2, <1>3 DEF Windows
<1>5. /\ SameChain(x, win) /\ SameView(x, win) /\ x.running = win.running
      /\ x.who = win.who /\ x.hits = win.hits /\ x.days = win.days /\ x.blocked = win.blocked
      /\ x.listed = win.listed
  BY <1>2 DEF Windows, SameChain, SameView
<1> HIDE DEF x
<1>6. Sound(x) /\ (x.running <=> x.calls # {})
  BY <1>2, <1>4, <1>5, SameIsSound DEF SameChain
<1>7. x.who # {} /\ x.hits # {} => x.days = HitDays(x)
  BY <1>2, <1>5 DEF Panes, HitDays, Targets
<1>8. CASE win.blocked > 0
  <2>1. x.blocked # 0
    BY <1>3, <1>5, <1>8
  <2>2. Panes(x, logs, late)
    BY <1>2, <1>5, <1>7, <1>8, <2>1 DEF Panes, SameChain
  <2>3. Steady(x)
    BY <1>2, <1>5 DEF Steady, SameChain
  <2>4. win' = x
    BY <1>1, <1>8
  <2>5. Made(win', logs', late')
    BY <1>1, <1>6, <2>2, <2>3, <2>4 DEF Made
  <2> QED BY <1>1, <1>2, <2>5, Kept
<1>9. CASE ~(win.blocked > 0)
  <2>1. Ready(g, x)
    BY <1>6, <1>7, MessagesAsked
  <2>2. win' = Start(g)
    BY <1>1, <1>9
  <2> HIDE DEF g
  <2>3. Made(win', logs', late')
    BY <1>6, <2>1, <2>2, StartedAnew
  <2> QED BY <1>1, <1>2, <2>3, Kept
<1> QED BY <1>8, <1>9

LEMMA SelectWhatKeeps ==
  ASSUME LogsInv, NEW kind \in Kinds, SelectWhat(kind)
  PROVE  LogsInv'
<1> DEFINE x == [win EXCEPT !.what = kind]
           force == win.hits = {}
           g == GetMessages(x, force)
<1>1. fate = "fine" /\ win' = Start(g) /\ logs' = logs
  BY DEF SelectWhat, Act, Show
<1>2. /\ logs \subseteq Entry /\ Sound(win) /\ win \in Windows /\ Panes(win, logs, late)
      /\ (win.running <=> win.calls # {})
  BY <1>1, Begun
<1>3. x \in Windows
  BY <1>2 DEF Windows
<1>4. /\ SameChain(x, win) /\ SameView(x, win) /\ x.running = win.running
      /\ x.who = win.who /\ x.hits = win.hits /\ x.days = win.days /\ x.listed = win.listed
  BY <1>2 DEF Windows, SameChain, SameView
<1> HIDE DEF x
<1>5. Sound(x) /\ (x.running <=> x.calls # {})
  BY <1>2, <1>3, <1>4, SameIsSound DEF SameChain
<1>6. x.who # {} /\ x.hits # {} => x.days = HitDays(x)
  BY <1>2, <1>4 DEF Panes, HitDays, Targets
<1>7. force \in BOOLEAN
  OBVIOUS
<1> HIDE DEF force
<1>8. Ready(g, x)
  BY <1>5, <1>6, <1>7, MessagesAsked
<1> HIDE DEF g
<1>9. Made(win', logs', late')
  BY <1>1, <1>5, <1>8, StartedAnew
<1> QED BY <1>1, <1>2, <1>9, Kept

LEMMA ObservedKeeps ==
  ASSUME LogsInv, NEW e, Observed(e)
  PROVE  LogsInv'
<1> DEFINE g == GetMessages(win, FALSE)
<1>1. fate = "fine" /\ win' = Start(g) /\ logs' = logs
  BY DEF Observed, Act, Show
<1>2. /\ logs \subseteq Entry /\ Sound(win) /\ Panes(win, logs, late)
      /\ (win.running <=> win.calls # {})
  BY <1>1, Begun
<1>3. win.who # {} /\ win.hits # {} => win.days = HitDays(win)
  BY <1>2 DEF Panes
<1>4. Ready(g, win)
  BY <1>2, <1>3, MessagesAsked
<1> HIDE DEF g
<1>5. Made(win', logs', late')
  BY <1>1, <1>2, <1>4, StartedAnew
<1> QED BY <1>1, <1>2, <1>5, Kept

LEMMA ChooseAccountKeeps ==
  ASSUME LogsInv, NEW a \in Chosen, ChooseAccount(a)
  PROVE  LogsInv'
<1> DEFINE x == [win EXCEPT !.account = a, !.shown = {}, !.twice = FALSE]
<1>1. fate = "fine" /\ win' = WhoPopulate(x) /\ logs' = logs
  BY DEF ChooseAccount, Act, Show
<1>2. logs \subseteq Entry /\ Sound(win) /\ win \in Windows /\ (win.running <=> win.calls # {})
  BY <1>1, Begun
<1>3. x \in Windows
  BY <1>2 DEF Windows
<1>4. SameChain(x, win) /\ x.shown = {} /\ ~x.twice /\ x.running = win.running
  BY <1>2 DEF Windows, SameChain
<1> HIDE DEF x
<1>5. Sound(x) /\ (x.running <=> x.calls # {})
  BY <1>2, <1>3, <1>4, ClearedIsSound DEF SameChain
<1>6. Made(win', logs', late')
  BY <1>1, <1>5, WhoPopulated
<1> QED BY <1>1, <1>2, <1>6, Kept

LEMMA SearchKeeps ==
  ASSUME LogsInv, Search
  PROVE  LogsInv'
<1>0. PICK calls \in SUBSET CallLogs :
        win' = [win EXCEPT !.passes = (Entry \ CallLogs) \cup calls,
                  !.shown = {}, !.twice = FALSE, !.listed = {}, !.who = {}, !.days = {},
                  !.when = {}, !.blocked = @ + 1]
  BY DEF Search, Show
<1> DEFINE n == win.blocked + 1
           p == (Entry \ CallLogs) \cup calls
           x == [win EXCEPT !.passes = p, !.shown = {}, !.twice = FALSE, !.listed = {}, !.who = {},
                   !.days = {}, !.when = {}, !.blocked = n]
<1>1. fate = "fine" /\ win' = x /\ logs' = logs
  BY <1>0 DEF Search, Act
<1>2. logs \subseteq Entry /\ Sound(win) /\ win \in Windows /\ Steady(win)
  BY <1>1, Begun
<1>3. n \in Nat /\ p \in SUBSET Entry
  <2>1. CallLogs \subseteq Entry
    BY LogsAssumption DEF Entry, Days
  <2> QED BY <1>2, <2>1 DEF Windows
<1> HIDE DEF n, p
<1>4. x \in Windows
  BY <1>2, <1>3 DEF Windows
<1>5. SameChain(x, win) /\ x.shown = {} /\ ~x.twice /\ x.who = {} /\ x.running = win.running
  BY <1>2 DEF Windows, SameChain
<1> HIDE DEF x
<1>6. Sound(x)
  BY <1>2, <1>4, <1>5, ClearedIsSound
<1>7. Made(win', logs', late')
  BY <1>1, <1>2, <1>5, <1>6 DEF Made, Panes, Steady, SameChain
<1> QED BY <1>1, <1>2, <1>7, Kept

LEMMA ClearSearchKeeps ==
  ASSUME LogsInv, ClearSearch
  PROVE  LogsInv'
<1> DEFINE x == [win EXCEPT !.shown = {}, !.twice = FALSE, !.listed = {}, !.who = {},
                   !.days = {}, !.when = {}, !.passes = Entry, !.hits = {}]
<1>1. fate = "fine" /\ win' = WhoPopulate(x) /\ logs' = logs
  BY DEF ClearSearch, Act, Show
<1>2. logs \subseteq Entry /\ Sound(win) /\ win \in Windows /\ (win.running <=> win.calls # {})
  BY <1>1, Begun
<1>3. x \in Windows
  BY <1>2 DEF Windows
<1>4. SameChain(x, win) /\ x.shown = {} /\ ~x.twice /\ x.running = win.running
  BY <1>2 DEF Windows, SameChain
<1> HIDE DEF x
<1>5. Sound(x) /\ (x.running <=> x.calls # {})
  BY <1>2, <1>3, <1>4, ClearedIsSound DEF SameChain
<1>6. Made(win', logs', late')
  BY <1>1, <1>5, WhoPopulated
<1> QED BY <1>1, <1>2, <1>6, Kept

LEMMA DeleteLogsKeeps ==
  ASSUME LogsInv, NEW accounts, DeleteLogs(accounts)
  PROVE  LogsInv'
<1> DEFINE x == [win EXCEPT !.shown = {}, !.twice = FALSE]
<1>1. fate = "fine" /\ win' = WhoPopulate(x) /\ logs' \subseteq logs
  BY DEF DeleteLogs, Act, Show
<1>2. logs \subseteq Entry /\ Sound(win) /\ win \in Windows /\ (win.running <=> win.calls # {})
  BY <1>1, Begun
<1>3. x \in Windows
  BY <1>2 DEF Windows
<1>4. SameChain(x, win) /\ x.shown = {} /\ ~x.twice /\ x.running = win.running
  BY <1>2 DEF Windows, SameChain
<1> HIDE DEF x
<1>5. Sound(x) /\ (x.running <=> x.calls # {})
  BY <1>2, <1>3, <1>4, ClearedIsSound DEF SameChain
<1>6. Made(win', logs', late')
  BY <1>1, <1>5, WhoPopulated
<1> QED BY <1>1, <1>2, <1>6, Kept

LEMMA LoggedKeeps ==
  ASSUME LogsInv, NEW e \in Entities, Logged(e)
  PROVE  LogsInv'
<1>1. /\ fate = "fine" /\ win' = win /\ logs' = logs \cup {<<e, LastDay>>}
      /\ late' = late \cup {<<e, LastDay>>}
  BY DEF Logged, Act
<1>2. logs \subseteq Entry /\ Sound(win) /\ Panes(win, logs, late) /\ Steady(win)
  BY <1>1, Begun
<1>3. logs' \subseteq Entry
  BY <1>1, <1>2, LogsAssumption DEF Entry, Days
<1>4. Tells(win, logs, late) => Tells(win, logs', late')
  <2>1. InRegion(win, logs') \subseteq InRegion(win, logs) \cup {<<e, LastDay>>}
    BY <1>1 DEF InRegion
  <2>2. InRegion(win, logs) \subseteq InRegion(win, logs')
    BY <1>1 DEF InRegion
  <2> QED BY <1>1, <2>1, <2>2 DEF Tells
<1>5. Panes(win, logs', late')
  BY <1>2, <1>4 DEF Panes
<1>6. Made(win', logs', late')
  BY <1>1, <1>2, <1>5 DEF Made
<1> QED BY <1>3, <1>6, Kept

LEMMA CloseLogsKeeps ==
  ASSUME LogsInv, CloseLogs
  PROVE  LogsInv'
<1>1. fate = "fine" /\ win' = [New EXCEPT !.open = FALSE] /\ logs' = logs
  BY DEF CloseLogs
<1>2. PICK chat \in Entities \cup {NoChat}, a \in Chosen, o \in BOOLEAN : o = FALSE
  BY DEF Chosen
<1>3. Made(win', logs', late')
  BY <1>1, <1>2, NewWindows DEF Made
<1>4. logs \subseteq Entry
  BY <1>1, Begun
<1> QED BY <1>1, <1>3, <1>4, Kept

LEMMA ShowLogsKeeps ==
  ASSUME LogsInv, NEW chat \in Entities \cup {NoChat}, ShowLogs(chat)
  PROVE  LogsInv'
<1> DEFINE a == IF chat = NoChat THEN "all" ELSE AccountOf[chat]
           x == [New EXCEPT !.chat = chat, !.account = a]
<1>1. fate = "fine" /\ win' = WhoPopulate(x) /\ logs' = logs
  BY DEF ShowLogs, Opened
<1>2. a \in Chosen
  BY DEF Chosen, LogAccounts
<1> HIDE DEF a
<1>3. Sound(x) /\ Steady(x)
  BY <1>2, NewWindows
<1> HIDE DEF x
<1>4. Made(win', logs', late')
  BY <1>1, <1>3, WhoPopulated DEF Steady
<1>5. logs \subseteq Entry
  BY <1>1, Begun
<1> QED BY <1>1, <1>4, <1>5, Kept

LEMMA LogsKept == LogsInv /\ [LogsNext]_logVars => LogsInv'
<1> SUFFICES ASSUME LogsInv, [LogsNext]_logVars PROVE LogsInv'
  OBVIOUS
<1>1. CASE Answer
  BY <1>1, AnswerKeeps
<1>2. CASE StrayAnswer
  BY <1>2, StrayAnswerKeeps
<1>3. CASE Searched
  BY <1>3, SearchedKeeps
<1>4. CASE Search
  BY <1>4, SearchKeeps
<1>5. CASE ClearSearch
  BY <1>5, ClearSearchKeeps
<1>6. CASE CloseLogs
  BY <1>6, CloseLogsKeeps
<1>7. CASE \E chat \in Entities \cup {NoChat} : ShowLogs(chat)
  BY <1>7, ShowLogsKeeps
<1>8. CASE \E S \in (SUBSET win.listed) \cup (IF win.listed = {} THEN {} ELSE {{Anyone}}) : SelectWho(S)
  BY <1>8, SelectWhoKeeps
<1>9. CASE \E S \in (SUBSET win.days) \cup (IF win.days = {} THEN {} ELSE {{Anytime}}) : SelectWhen(S)
  BY <1>9, SelectWhenKeeps
<1>10. CASE \E kind \in Kinds : SelectWhat(kind)
  BY <1>10, SelectWhatKeeps
<1>11. CASE \E a \in LogAccounts \cup {"all", "none"} : ChooseAccount(a)
  BY <1>11, ChooseAccountKeeps DEF Chosen
<1>12. CASE \E accounts \in {LogAccounts} \cup {{a} : a \in LogAccounts} : DeleteLogs(accounts)
  BY <1>12, DeleteLogsKeeps
<1>13. CASE \E e \in Entities : Logged(e) \/ Observed(e)
  BY <1>13, LoggedKeeps, ObservedKeeps
<1>14. CASE UNCHANGED logVars
  BY <1>14 DEF LogsInv, logVars
<1> QED BY <1>1, <1>2, <1>3, <1>4, <1>5, <1>6, <1>7, <1>8, <1>9, <1>10, <1>11, <1>12, <1>13, <1>14
        DEF LogsNext

(* EventsFollowPanes for any contacts, days and logs: while the logger's     *)
(* answers go to the window that asked, one call is made at a time, and when *)
(* all is answered the events shown are those of the panes, each once, but   *)
(* for the calls that do not contain the text searched for                   *)
(* (log_window_append_call (), empathy-log-window.c:1327-1340).              *)
THEOREM EventsAreThePanes == LogsSpec => []EventsFollowPanes
<1>1. LogsInv => EventsFollowPanes
  <2> SUFFICES ASSUME LogsInv, fate = "fine" PROVE EventsFollowPanes
    BY DEF EventsFollowPanes
  <2>1. Sound(win) /\ Panes(win, logs, late) /\ Steady(win)
    BY Begun
  <2>2. Cardinality(win.calls) <= 1
    <3>1. CASE win.calls = {}
      <4>1. Cardinality(win.calls) = 0
        BY <3>1, FS_EmptySet
      <4> QED BY <4>1
    <3>2. CASE win.calls # {}
      <4>1. PICK c \in win.calls : win.calls = {c}
        BY <2>1, <3>2 DEF Sound, OneCall
      <4>2. Cardinality(win.calls) = 1
        BY <4>1, FS_Singleton
      <4> QED BY <4>2
    <3> QED BY <3>1, <3>2
  <2>3. ~win.twice /\ (win.queue # <<>> => win.running /\ win.calls # {})
    BY <2>1 DEF Sound, Once, Steady
  <2>4. ASSUME AtRest, win.who # {}, win.when # {}
        PROVE  win.shown \subseteq Wanted /\ Wanted \ win.shown \subseteq late
    <3>1. Tells(win, logs, late)
      BY <2>1, <2>4 DEF Panes, AtRest
    <3>2. Coming(win) = {}
      <4>1. InCall(win) = {} /\ InQueue(win) = {}
        BY <2>4 DEF AtRest, InCall, InQueue
      <4> QED BY <4>1 DEF Coming
    <3>3. Wanted = InRegion(win, logs)
      BY DEF Wanted, InRegion, Region
    <3> QED BY <3>1, <3>2, <3>3 DEF Tells
  <2> QED BY <2>2, <2>3, <2>4 DEF EventsFollowPanes
<1> QED BY <1>1, LogsBegin, LogsKept, PTL DEF LogsSpec

-----------------------------------------------------------------------------
(* The contacts behind the list.  What a handler hands to the handlers it    *)
(* calls has these types,                                                    *)
Details ==
  [known : BOOLEAN, contact : BOOLEAN, favourite : BOOLEAN, popularity : Nat, groups : SUBSET {Group}]
Tellings == UNION {[shown -> SUBSET {Group, "top", "nearby"}] : shown \in SUBSET Individuals}

Handling ==
  [folks : [Individuals -> Details], members : SUBSET Individuals, pop : Seq(Individuals),
   top : Seq(Individuals), tops : Seq(Individuals), watching : BOOLEAN, told : Tellings,
   interactions : Nat, crashed : BOOLEAN]

(* and tells, from one call to the next, of those who are shown and of those *)
(* among the most popular.                                                   *)
TopsTold(s) ==
  /\ ~s.watching => DOMAIN s.told = {}
  /\ \A i \in DOMAIN s.told \ Local :
       /\ s.told[i] \ {"top"} = s.folks[i].groups
       /\ Contains(s.tops, i) => "top" \in s.told[i]

TopsIn(s) == \A i \in DOMAIN s.told : Contains(s.top, i) => Contains(s.tops, i)
Popular(s) == \A i : Contains(s.top, i) => Contains(s.pop, i)
Fits(s) == s \in Handling /\ TopsTold(s) /\ TopsIn(s)

SameContacts(t, s) ==
  /\ t.folks = s.folks /\ t.members = s.members /\ t.watching = s.watching
  /\ DOMAIN t.told = DOMAIN s.told

(* What is known has one object for each identifier, the members are of it,  *)
(* and once the model listens it has told of the members and of nobody else. *)
KnownTo(s) == {i \in Individuals : s.folks[i].known}
OneOfEach(known) == \A i, j \in known : IdOf[i] = IdOf[j] => i = j
Settled(s) ==
  /\ Fits(s) /\ Popular(s)
  /\ s.watching => DOMAIN s.told = s.members
  /\ s.members \subseteq KnownTo(s) /\ OneOfEach(KnownTo(s))

RosterInv ==
  /\ manager \in [members : SUBSET Individuals, pop : Seq(Individuals), top : Seq(Individuals),
                  interactions : Nat, loaded : BOOLEAN]
  /\ roster \in [watching : BOOLEAN, tops : Seq(Individuals)]
  /\ Settled(State)

LEMMA ContainsIsIn ==
  ASSUME NEW S, NEW s \in Seq(S), NEW e
  PROVE  Contains(s, e) <=> e \in ToSet(s)
BY DEF Contains, ToSet

LEMMA PickedShape ==
  ASSUME NEW S, NEW s \in Seq(S), NEW K \in SUBSET (1..Len(s))
  PROVE  /\ Picked(s, K) \in Seq(S)
         /\ \A e : Contains(Picked(s, K), e) <=> \E k \in K : s[k] = e
<1> DEFINE n == Cardinality(K)
           At(m) == CHOOSE k \in K : Cardinality({j \in K : j <= k}) = m
           q == [m \in 1..n |-> s[At(m)]]
<1>0. Len(s) \in Nat /\ K \subseteq 1..Len(s) /\ \A k \in K : s[k] \in S
  OBVIOUS
<1>1. /\ n \in Nat
      /\ \A k \in K : Cardinality({j \in K : j <= k}) \in 1..n
      /\ \A m \in 1..n : \E k \in K : Cardinality({j \in K : j <= k}) = m
      /\ \A i, k \in K :
           Cardinality({j \in K : j <= i}) = Cardinality({j \in K : j <= k}) => i = k
  BY <1>0, Ranks
<1>2. \A m \in 1..n : At(m) \in K
  BY <1>1
<1>3. \A k \in K : \E m \in 1..n : At(m) = k
  <2> TAKE k \in K
  <2> DEFINE m == Cardinality({j \in K : j <= k})
  <2>1. m \in 1..n
    BY <1>1
  <2>2. At(m) \in K /\ Cardinality({j \in K : j <= At(m)}) = m
    BY <1>1, <2>1
  <2>3. At(m) = k
    BY <1>1, <2>2
  <2> QED BY <2>1, <2>3
<1> HIDE DEF At, n
<1>4. q \in Seq(S)
  <2>1. \A m \in 1..n : s[At(m)] \in S
    BY <1>0, <1>2
  <2>2. q \in [1..n -> S]
    BY <2>1
  <2> QED BY <1>1, <2>2
<1>5. ASSUME NEW e PROVE Contains(q, e) <=> \E k \in K : s[k] = e
  <2>1. Len(q) = n
    BY <1>1
  <2> QED BY <1>2, <1>3, <2>1 DEF Contains
<1>6. Picked(s, K) = q
  BY DEF Picked, q, At, n
<1> HIDE DEF q
<1> QED BY <1>4, <1>5, <1>6

LEMMA ReverseShape ==
  ASSUME NEW S, NEW s \in Seq(S)
  PROVE  /\ Reverse(s) \in Seq(S)
         /\ \A e : Contains(Reverse(s), e) <=> Contains(s, e)
<1> DEFINE n == Len(s)
           q == [i \in 1..n |-> s[(n - i) + 1]]
<1>1. n \in Nat /\ \A i \in 1..n : (n - i) + 1 \in 1..n /\ (n - ((n - i) + 1)) + 1 = i
  OBVIOUS
<1>2. q \in Seq(S) /\ Len(q) = n
  BY <1>1
<1>3. ASSUME NEW e PROVE Contains(q, e) <=> Contains(s, e)
  <2>1. Contains(q, e) => Contains(s, e)
    BY <1>1, <1>2 DEF Contains
  <2>2. ASSUME NEW i \in 1..n, s[i] = e PROVE Contains(q, e)
    <3>1. q[(n - i) + 1] = e
      BY <1>1, <2>2
    <3> QED BY <1>1, <1>2, <3>1 DEF Contains
  <2> QED BY <2>1, <2>2 DEF Contains
<1>4. Reverse(s) = q
  BY DEF Reverse
<1> HIDE DEF q
<1> QED BY <1>2, <1>3, <1>4

LEMMA ConcatContains ==
  ASSUME NEW S, NEW a \in Seq(S), NEW b \in Seq(S)
  PROVE  \A e : Contains(a \o b, e) <=> Contains(a, e) \/ Contains(b, e)
<1> DEFINE q == a \o b
<1>1. /\ q \in Seq(S) /\ Len(q) = Len(a) + Len(b)
      /\ \A j \in 1..Len(a) : q[j] = a[j]
      /\ \A j \in 1..Len(b) : q[j + Len(a)] = b[j]
  BY ConcatShape
<1>2. Len(a) \in Nat /\ Len(b) \in Nat
  OBVIOUS
<1> HIDE DEF q
<1> SUFFICES ASSUME NEW e PROVE Contains(q, e) <=> Contains(a, e) \/ Contains(b, e)
  BY DEF q
<1>3. ASSUME NEW i \in 1..Len(q), q[i] = e PROVE Contains(a, e) \/ Contains(b, e)
  <2>1. CASE i \in 1..Len(a)
    BY <1>1, <1>3, <2>1 DEF Contains
  <2>2. CASE i \notin 1..Len(a)
    <3>1. i - Len(a) \in 1..Len(b) /\ (i - Len(a)) + Len(a) = i
      BY <1>1, <1>2, <2>2
    <3>2. q[(i - Len(a)) + Len(a)] = b[i - Len(a)]
      BY <1>1, <3>1
    <3> QED BY <1>3, <3>1, <3>2 DEF Contains
  <2> QED BY <2>1, <2>2
<1>4. ASSUME NEW i \in 1..Len(a), a[i] = e PROVE Contains(q, e)
  BY <1>1, <1>2, <1>4 DEF Contains
<1>5. ASSUME NEW i \in 1..Len(b), b[i] = e PROVE Contains(q, e)
  <2>1. i + Len(a) \in 1..Len(q)
    BY <1>1, <1>2
  <2> QED BY <1>1, <1>5, <2>1 DEF Contains
<1> QED BY <1>3, <1>4, <1>5 DEF Contains

LEMMA MinOf ==
  ASSUME NEW T, \A k \in T : k \in Nat, T # {}
  PROVE  Min(T) \in T /\ \A k \in T : Min(T) <= k
<1>1. \E m \in T : \A k \in T : m <= k
  BY LeastNumber
<1> QED BY <1>1 DEF Min

(* The lists of the individual manager hold individuals.                     *)
LEMMA InsertedSorted ==
  ASSUME NEW s, NEW pop \in Seq(Individuals), NEW i \in Individuals
  PROVE  InsertSorted(s, pop, i) \in Seq(Individuals)
<1> DEFINE lower == {k \in 1 .. Len(pop) : Popularity(s, pop[k]) < Popularity(s, i)}
           n == Min(lower \cup {Len(pop) + 1})
<1>1. Len(pop) \in Nat
  OBVIOUS
<1>2. n \in 1..(Len(pop) + 1)
  <2>1. lower \cup {Len(pop) + 1} # {} /\ \A k \in lower \cup {Len(pop) + 1} : k \in 1..(Len(pop) + 1)
    BY <1>1
  <2> HIDE DEF lower
  <2>2. \A k \in lower \cup {Len(pop) + 1} : k \in Nat
    BY <1>1, <2>1
  <2>3. n \in lower \cup {Len(pop) + 1}
    BY <2>1, <2>2, MinOf
  <2> QED BY <2>1, <2>3
<1>3. InsertSorted(s, pop, i) = InsertAt(pop, n, i)
  BY DEF InsertSorted
<1> HIDE DEF n
<1>4. InsertAt(pop, n, i) \in Seq(Individuals)
  <2> DEFINE a == SubSeq(pop, 1, n - 1)
             b == SubSeq(pop, n, Len(pop))
  <2>1. a \in Seq(Individuals)
    BY <1>1, <1>2
  <2>2. b \in Seq(Individuals)
    BY <1>1, <1>2
  <2>3. <<i>> \in Seq(Individuals)
    OBVIOUS
  <2> HIDE DEF a, b
  <2>4. a \o <<i>> \o b \in Seq(Individuals)
    BY <2>1, <2>2, <2>3
  <2> QED BY <2>4 DEF InsertAt, a, b
<1> QED BY <1>3, <1>4

LEMMA FirstAreIn ==
  ASSUME NEW s, s.pop \in Seq(Individuals)
  PROVE  /\ FirstPopular(s) \in Seq(Individuals)
         /\ \A i : Contains(FirstPopular(s), i) => Contains(s.pop, i)
<1> DEFINE pop == s.pop
           ends == {k \in 1 .. Len(pop) : Popularity(s, pop[k]) = 0} \cup {TopLen + 1, Len(pop) + 1}
           m == Min(ends)
<1>1. Len(pop) \in Nat /\ TopLen \in Nat
  BY RosterModelAssumption
<1>2. m \in 1..(Len(pop) + 1)
  <2>1. Len(pop) + 1 \in ends /\ \A k \in ends : k \in Nat /\ k >= 1
    BY <1>1
  <2> HIDE DEF ends
  <2>2. m \in ends /\ \A k \in ends : m <= k
    BY <2>1, MinOf
  <2> QED BY <1>1, <2>1, <2>2
<1>3. FirstPopular(s) = SubSeq(pop, 1, m - 1)
  BY DEF FirstPopular
<1> HIDE DEF m
<1> DEFINE q == SubSeq(pop, 1, m - 1)
<1>4. q \in Seq(Individuals) /\ Len(q) = m - 1 /\ \A k \in 1..(m - 1) : q[k] = pop[k] /\ k \in 1..Len(pop)
  BY <1>1, <1>2
<1> HIDE DEF q
<1>5. \A i : Contains(q, i) => Contains(pop, i)
  BY <1>4 DEF Contains
<1> QED BY <1>3, <1>4, <1>5 DEF q

(* Those before the one at a position, counted, are as many as its place.    *)
LEMMA SortedHasAll ==
  ASSUME NEW s \in Handling
  PROVE  /\ SortByPop(s) \in Seq(Individuals)
         /\ \A i : Contains(SortByPop(s), i) <=> Contains(s.pop, i)
<1> DEFINE n == Len(s.pop)
           B(k) == {j \in 1..n : Before(s, j, k)}
           P == [k \in 1..n |-> Cardinality(B(k))]
           At(m) == CHOOSE k \in 1..n : Place(s, k) = m
           q == [m \in 1..n |-> s.pop[At(m)]]
<1>1. /\ n \in Nat /\ s.pop \in Seq(Individuals)
      /\ \A k \in 1..n : Popularity(s, s.pop[k]) \in Nat
  <2>1. s.pop \in Seq(Individuals) /\ s.folks \in [Individuals -> Details]
    BY DEF Handling
  <2> QED BY <2>1 DEF Popularity, Details
<1>2. IsFiniteSet(1..n) /\ Cardinality(1..n) = n
  BY <1>1, FS_Interval
<1>3. \A k \in 1..n : B(k) \subseteq 1..n /\ k \in B(k)
  BY <1>1 DEF Before
<1>4. \A j, k \in 1..n : j \in B(k) => B(j) \subseteq B(k)
  BY <1>1 DEF Before
<1>5. \A j, k \in 1..n : j \in B(k) \/ k \in B(j)
  BY <1>1 DEF Before
<1>6. \A j, k \in 1..n : j \in B(k) /\ k \in B(j) => j = k
  BY <1>1 DEF Before
<1> HIDE DEF B
<1>7. \A k \in 1..n : IsFiniteSet(B(k)) /\ Cardinality(B(k)) \in 1..n
  <2> SUFFICES ASSUME NEW k \in 1..n PROVE IsFiniteSet(B(k)) /\ Cardinality(B(k)) \in 1..n
    OBVIOUS
  <2>1. IsFiniteSet(B(k)) /\ Cardinality(B(k)) <= n
    BY <1>2, <1>3, FS_Subset
  <2>2. Cardinality(B(k)) \in Nat /\ Cardinality(B(k)) # 0
    BY <1>3, <2>1, FS_CardinalityType, FS_EmptySet
  <2> QED BY <1>1, <2>1, <2>2
<1>8. P \in [1..n -> 1..n]
  BY <1>7
<1>9. \A j, k \in 1..n : P[j] = P[k] => j = k
  <2>1. ASSUME NEW j \in 1..n, NEW k \in 1..n, j \in B(k), Cardinality(B(j)) = Cardinality(B(k))
        PROVE  j = k
    <3>1. B(j) \subseteq B(k) /\ IsFiniteSet(B(k))
      BY <1>4, <1>7, <2>1
    <3>2. B(j) = B(k)
      BY <2>1, <3>1, FS_Subset
    <3>3. k \in B(j)
      BY <1>3, <3>2
    <3> QED BY <1>6, <2>1, <3>3
  <2> QED BY <1>5, <2>1
<1>10. \A m \in 1..n : \E k \in 1..n : P[k] = m
  <2>1. P \in Injection(1..n, 1..n)
    BY <1>8, <1>9 DEF Injection, IsInjective
  <2>2. P \in Surjection(1..n, 1..n)
    BY <1>2, <2>1, FS_Injection
  <2> HIDE DEF P
  <2> QED BY <2>2 DEF Surjection
<1>11. SortByPop(s) = q
  BY DEF SortByPop
<1>12. \A k \in 1..n : P[k] = Place(s, k)
  BY DEF Place, B
<1> HIDE DEF P
<1>13. \A m \in 1..n : At(m) \in 1..n /\ P[At(m)] = m
  BY <1>10, <1>12
<1>14. \A k \in 1..n : P[k] \in 1..n /\ At(P[k]) = k
  BY <1>8, <1>9, <1>13
<1> HIDE DEF At
<1>15. q \in Seq(Individuals) /\ Len(q) = n
  <2>1. q \in [1..n -> Individuals]
    BY <1>1, <1>13
  <2> QED BY <1>1, <2>1
<1>16. ASSUME NEW i PROVE Contains(q, i) <=> Contains(s.pop, i)
  <2>1. Contains(q, i) => Contains(s.pop, i)
    BY <1>13, <1>15 DEF Contains
  <2>2. ASSUME NEW k \in 1..n, s.pop[k] = i PROVE Contains(q, i)
    <3>1. q[P[k]] = i
      BY <1>14, <2>2
    <3> QED BY <1>14, <1>15, <3>1 DEF Contains
  <2> QED BY <2>1, <2>2 DEF Contains
<1> HIDE DEF q
<1> QED BY <1>11, <1>15, <1>16

(* Those who come to the top are told so, and are among the top.             *)
LEMMA TopEntered ==
  ASSUME NEW s \in Handling, TopsTold(s), s.watching
  PROVE  LET e == EnterTop(s)
         IN /\ e \in Handling /\ TopsTold(e) /\ SameContacts(e, s) /\ e.top = s.top /\ e.pop = s.pop
            /\ \A i : Contains(e.top, i) => Contains(e.tops, i)
<1> DEFINE comes == {k \in 1 .. Len(s.top) : /\ ~Contains(s.tops, s.top[k])
                                             /\ \A j \in 1 .. k - 1 : s.top[j] # s.top[k]}
           new == Reverse(Picked(s.top, comes))
           tops == new \o s.tops
           says == [i \in DOMAIN s.told |->
                      IF Contains(new, i) THEN s.told[i] \cup {"top"} ELSE s.told[i]]
           e == [s EXCEPT !.tops = tops, !.told = says]
<1>1. s.top \in Seq(Individuals) /\ s.tops \in Seq(Individuals) /\ s.told \in Tellings
  BY DEF Handling
<1>2. comes \in SUBSET (1..Len(s.top))
  OBVIOUS
<1>3. /\ new \in Seq(Individuals)
      /\ \A i : Contains(new, i) <=> \E k \in comes : s.top[k] = i
  <2> HIDE DEF comes
  <2>1. /\ Picked(s.top, comes) \in Seq(Individuals)
        /\ \A i : Contains(Picked(s.top, comes), i) <=> \E k \in comes : s.top[k] = i
    BY <1>1, <1>2, PickedShape
  <2> QED BY <2>1, ReverseShape
<1>4. \A i : Contains(s.top, i) => Contains(s.tops, i) \/ Contains(new, i)
  <2> SUFFICES ASSUME NEW i, Contains(s.top, i), ~Contains(s.tops, i) PROVE Contains(new, i)
    OBVIOUS
  <2> DEFINE T == {k \in 1..Len(s.top) : s.top[k] = i}
  <2>1. Len(s.top) \in Nat /\ T # {} /\ \A k \in T : k \in Nat
    BY <1>1 DEF Contains
  <2>2. PICK m \in T : \A k \in T : m <= k
    BY <2>1, LeastNumber
  <2>3. \A j \in 1..(m - 1) : j \in 1..Len(s.top) /\ ~(m <= j)
    BY <2>1, <2>2
  <2>4. m \in comes
    BY <2>2, <2>3
  <2> QED BY <1>3, <2>4
<1>5. EnterTop(s) = e
  BY DEF EnterTop
<1> HIDE DEF comes, new
<1>6. tops \in Seq(Individuals) /\ \A i : Contains(tops, i) <=> Contains(new, i) \/ Contains(s.tops, i)
  BY <1>1, <1>3, ConcatContains
<1>7. says \in Tellings /\ DOMAIN says = DOMAIN s.told
  <2>1. PICK D \in SUBSET Individuals : s.told \in [D -> SUBSET {Group, "top", "nearby"}]
    BY <1>1 DEF Tellings
  <2>2. says \in [D -> SUBSET {Group, "top", "nearby"}]
    BY <2>1
  <2> QED BY <2>1, <2>2 DEF Tellings
<1>8. \A i \in DOMAIN s.told : /\ says[i] \ {"top"} = s.told[i] \ {"top"}
                               /\ Contains(new, i) => "top" \in says[i]
                               /\ "top" \in s.told[i] => "top" \in says[i]
  OBVIOUS
<1> HIDE DEF tops, says
<1>9. e \in Handling
  BY <1>6, <1>7 DEF Handling
<1>10. /\ e.tops = tops /\ e.told = says /\ e.folks = s.folks /\ e.members = s.members
       /\ e.watching = s.watching /\ e.top = s.top /\ e.pop = s.pop
  BY DEF Handling
<1> HIDE DEF e
<1>11. TopsTold(e)
  BY <1>6, <1>7, <1>8, <1>10 DEF TopsTold
<1> QED BY <1>4, <1>5, <1>6, <1>7, <1>9, <1>10, <1>11 DEF SameContacts

(* Those who leave it are not, or they are freed.                            *)
LEMMA TopLeft ==
  ASSUME NEW s \in Handling, TopsTold(s), Popular(s),
         \A i : Contains(s.top, i) => Contains(s.tops, i), NEW t \in LeaveTop(s)
  PROVE  Fits(t) /\ SameContacts(t, s) /\ t.top = s.top /\ t.pop = s.pop
<1> DEFINE freed == {i \in ToSet(s.tops) : ~Alive(s, i)}
           L(lies) == {k \in 1 .. Len(s.tops) : IF s.tops[k] \in freed THEN s.tops[k] \in lies
                                                ELSE ~ShouldBeTop(s, s.tops[k])}
           c == [s EXCEPT !.crashed = TRUE]
<1>1. Fits(s) /\ SameContacts(s, s)
  BY DEF Fits, TopsIn, SameContacts
<1>2. Fits(c) /\ SameContacts(c, s) /\ c.top = s.top /\ c.pop = s.pop
  <2>1. c \in Handling
    BY DEF Handling
  <2>2. /\ c.folks = s.folks /\ c.members = s.members /\ c.watching = s.watching /\ c.told = s.told
        /\ c.tops = s.tops /\ c.top = s.top /\ c.pop = s.pop
    BY DEF Handling
  <2> HIDE DEF c
  <2> QED BY <1>1, <2>1, <2>2 DEF Fits, TopsIn, TopsTold, SameContacts
<1>3. \/ t = s \/ t = c
      \/ \E lies \in SUBSET freed : L(lies) # {} /\ t = [s EXCEPT !.tops = RemoveAt(@, Min(L(lies)))]
  BY DEF LeaveTop
<1>4. ASSUME NEW lies \in SUBSET freed, L(lies) # {},
             t = [s EXCEPT !.tops = RemoveAt(@, Min(L(lies)))]
      PROVE  Fits(t) /\ SameContacts(t, s) /\ t.top = s.top /\ t.pop = s.pop
  <2> DEFINE m == Min(L(lies))
             tops == RemoveAt(s.tops, m)
             n == Len(s.tops)
  <2>1. n \in Nat /\ s.tops \in Seq(Individuals)
    BY DEF Handling
  <2>2. m \in L(lies)
    <3>1. \A k \in L(lies) : k \in Nat
      OBVIOUS
    <3> HIDE DEF L
    <3> QED BY <1>4, <3>1, MinOf
  <2>3. m \in 1..n /\ ~Contains(s.top, s.tops[m])
    <3>1. Contains(s.top, s.tops[m]) => Alive(s, s.tops[m]) /\ ShouldBeTop(s, s.tops[m])
      BY DEF Popular, Alive, ShouldBeTop
    <3> QED BY <2>2, <3>1
  <2> HIDE DEF L, m
  <2>4. /\ tops \in Seq(Individuals) /\ Len(tops) = n - 1
        /\ \A j \in 1..(n - 1) : tops[j] = IF j < m THEN s.tops[j] ELSE s.tops[j + 1]
    BY <2>1, <2>3, RemoveAtShape
  <2> HIDE DEF tops
  <2>5. \A i : Contains(tops, i) => Contains(s.tops, i)
    <3>1. \A j \in 1..(n - 1) : j \in 1..n /\ j + 1 \in 1..n
      BY <2>1
    <3> QED BY <2>4, <3>1 DEF Contains
  <2>6. \A i : Contains(s.top, i) => Contains(tops, i)
    <3> SUFFICES ASSUME NEW i, Contains(s.top, i) PROVE Contains(tops, i)
      OBVIOUS
    <3>1. PICK k \in 1..n : s.tops[k] = i
      BY DEF Contains
    <3>2. k # m
      BY <2>3, <3>1
    <3>3. CASE k < m
      <4>1. k \in 1..(n - 1)
        BY <2>1, <2>3, <3>3
      <4> QED BY <2>4, <3>1, <3>3, <4>1 DEF Contains
    <3>4. CASE ~(k < m)
      <4>1. k - 1 \in 1..(n - 1) /\ ~(k - 1 < m) /\ (k - 1) + 1 = k
        BY <2>1, <2>3, <3>2, <3>4
      <4>2. tops[k - 1] = i
        BY <2>4, <3>1, <4>1
      <4> QED BY <2>4, <4>1, <4>2 DEF Contains
    <3> QED BY <3>3, <3>4
  <2>7. t = [s EXCEPT !.tops = tops]
    BY <1>4 DEF tops, m
  <2>8. t \in Handling
    BY <2>4, <2>7 DEF Handling
  <2>9. /\ t.tops = tops /\ t.told = s.told /\ t.folks = s.folks /\ t.members = s.members
        /\ t.watching = s.watching /\ t.top = s.top /\ t.pop = s.pop
    BY <2>7 DEF Handling
  <2> QED BY <2>5, <2>6, <2>8, <2>9 DEF Fits, TopsTold, TopsIn, SameContacts
<1> QED BY <1>1, <1>2, <1>3, <1>4

LEMMA TopChecked ==
  ASSUME NEW s \in Handling, TopsTold(s), TopsIn(s), NEW t \in CheckTopIndividuals(s)
  PROVE  Fits(t) /\ Popular(t) /\ SameContacts(t, s) /\ t.pop = s.pop
<1> DEFINE new == FirstPopular(s)
           x == [s EXCEPT !.top = new]
<1>1. t \in IF IsPrefix(new, s.top) THEN {x} ELSE TopIndividualsChanged(x)
  BY DEF CheckTopIndividuals
<1>2. new \in Seq(Individuals) /\ \A i : Contains(new, i) => Contains(s.pop, i)
  BY FirstAreIn DEF Handling
<1>3. IsPrefix(new, s.top) => \A i : Contains(new, i) => Contains(s.top, i)
  <2> SUFFICES ASSUME IsPrefix(new, s.top), NEW i, Contains(new, i) PROVE Contains(s.top, i)
    OBVIOUS
  <2> HIDE DEF new
  <2>1. s.top \in Seq(Individuals)
    BY DEF Handling
  <2>2. PICK k \in 1..Len(new) : new[k] = i
    BY DEF Contains
  <2>3. Len(new) \in Nat /\ Len(s.top) \in Nat /\ Len(new) <= Len(s.top)
    BY <1>2, <2>1 DEF IsPrefix
  <2>4. SubSeq(new, 1, Len(new))[k] = new[k] /\ SubSeq(s.top, 1, Len(new))[k] = s.top[k]
    BY <1>2, <2>1, <2>3
  <2>5. s.top[k] = i /\ k \in 1..Len(s.top)
    BY <2>2, <2>3, <2>4 DEF IsPrefix
  <2> QED BY <2>5 DEF Contains
<1> HIDE DEF new
<1>4. x \in Handling
  BY <1>2 DEF Handling
<1>5. /\ x.folks = s.folks /\ x.members = s.members /\ x.watching = s.watching /\ x.told = s.told
      /\ x.tops = s.tops /\ x.top = new /\ x.pop = s.pop
  BY DEF Handling
<1> HIDE DEF x
<1>6. TopsTold(x) /\ Popular(x) /\ SameContacts(x, s)
  BY <1>2, <1>5 DEF TopsTold, Popular, SameContacts
<1>7. CASE IsPrefix(new, s.top)
  <2>1. t = x
    BY <1>1, <1>7
  <2>2. TopsIn(x)
    BY <1>3, <1>5, <1>7 DEF TopsIn
  <2> QED BY <1>4, <1>5, <1>6, <2>1, <2>2 DEF Fits
<1>8. CASE ~IsPrefix(new, s.top) /\ ~s.watching
  <2>1. t = x
    BY <1>1, <1>5, <1>8 DEF TopIndividualsChanged
  <2>2. TopsIn(x)
    BY <1>5, <1>6, <1>8 DEF TopsTold, TopsIn
  <2> QED BY <1>4, <1>5, <1>6, <2>1, <2>2 DEF Fits
<1>9. CASE ~IsPrefix(new, s.top) /\ s.watching
  <2> DEFINE e == EnterTop(x)
  <2>1. t \in LeaveTop(e)
    BY <1>1, <1>5, <1>9 DEF TopIndividualsChanged
  <2>2. /\ e \in Handling /\ TopsTold(e) /\ SameContacts(e, x) /\ e.top = x.top /\ e.pop = x.pop
        /\ \A i : Contains(e.top, i) => Contains(e.tops, i)
    BY <1>4, <1>5, <1>6, <1>9, TopEntered
  <2> HIDE DEF e
  <2>3. Popular(e)
    BY <1>6, <2>2 DEF Popular
  <2>4. Fits(t) /\ SameContacts(t, e) /\ t.top = e.top /\ t.pop = e.pop
    BY <2>1, <2>2, <2>3, TopLeft
  <2> QED BY <1>5, <1>6, <2>2, <2>3, <2>4 DEF Popular, SameContacts
<1> QED BY <1>7, <1>8, <1>9

(* The members and what is told of them follow what folks does.              *)
LEMMA IndividualAdds ==
  ASSUME NEW s, Fits(s), NEW i \in Individuals, NEW t \in AddIndividual(s, i)
  PROVE  /\ Fits(t) /\ Popular(t) /\ t.folks = s.folks /\ t.watching = s.watching
         /\ DOMAIN t.told = DOMAIN s.told
         /\ t.members = (s.members \ WithIdOf(s.members, i)) \cup {i}
<1> DEFINE members == (s.members \ WithIdOf(s.members, i)) \cup {i}
           pop == InsertSorted(s, s.pop, i)
           x == [s EXCEPT !.members = members, !.pop = pop]
<1>1. s \in Handling /\ TopsTold(s) /\ TopsIn(s)
  BY DEF Fits
<1>2. pop \in Seq(Individuals) /\ members \in SUBSET Individuals
  <2>1. s.pop \in Seq(Individuals) /\ s.members \in SUBSET Individuals
    BY <1>1 DEF Handling
  <2> QED BY <2>1, InsertedSorted
<1>3. t \in CheckTopIndividuals(x)
  BY DEF AddIndividual
<1> HIDE DEF members, pop
<1>4. x \in Handling
  BY <1>1, <1>2 DEF Handling
<1>5. /\ x.folks = s.folks /\ x.members = members /\ x.watching = s.watching /\ x.told = s.told
      /\ x.tops = s.tops /\ x.top = s.top
  BY <1>1 DEF Handling
<1> HIDE DEF x
<1>6. TopsTold(x) /\ TopsIn(x)
  BY <1>1, <1>5 DEF TopsTold, TopsIn
<1>7. Fits(t) /\ Popular(t) /\ SameContacts(t, x)
  BY <1>3, <1>4, <1>6, TopChecked
<1> QED BY <1>5, <1>7 DEF SameContacts, members

LEMMA IndividualRemoves ==
  ASSUME NEW s, Fits(s), Popular(s), NEW i \in Individuals, NEW t \in RemoveIndividual(s, i)
  PROVE  /\ Fits(t) /\ Popular(t) /\ t.folks = s.folks /\ t.watching = s.watching
         /\ DOMAIN t.told = DOMAIN s.told
         /\ t.members = s.members \ WithIdOf(s.members, i)
<1>1. s \in Handling /\ TopsTold(s) /\ TopsIn(s) /\ s.pop \in Seq(Individuals)
  BY DEF Fits, Handling
<1>2. PICK u : /\ t = [u EXCEPT !.members = @ \ WithIdOf(@, i)]
               /\ \/ u = s
                  \/ \E k \in Lookup(s, i) : u \in CheckTopIndividuals([s EXCEPT !.pop = RemoveAt(@, k)])
  BY DEF RemoveIndividual
<1>3. Fits(u) /\ Popular(u) /\ SameContacts(u, s)
  <2>1. CASE u = s
    BY <2>1 DEF SameContacts
  <2>2. ASSUME NEW k \in Lookup(s, i), u \in CheckTopIndividuals([s EXCEPT !.pop = RemoveAt(@, k)])
        PROVE  Fits(u) /\ Popular(u) /\ SameContacts(u, s)
    <3> DEFINE pop == RemoveAt(s.pop, k)
               x == [s EXCEPT !.pop = pop]
    <3>1. pop \in Seq(Individuals)
      BY <1>1, RemoveAtShape DEF Lookup
    <3>2. u \in CheckTopIndividuals(x)
      BY <2>2
    <3> HIDE DEF pop
    <3>3. x \in Handling
      BY <1>1, <3>1 DEF Handling
    <3>4. /\ x.folks = s.folks /\ x.members = s.members /\ x.watching = s.watching
          /\ x.told = s.told /\ x.tops = s.tops /\ x.top = s.top
      BY <1>1 DEF Handling
    <3> HIDE DEF x
    <3>5. TopsTold(x) /\ TopsIn(x)
      BY <1>1, <3>4 DEF TopsTold, TopsIn
    <3>6. Fits(u) /\ Popular(u) /\ SameContacts(u, x)
      BY <3>2, <3>3, <3>5, TopChecked
    <3> QED BY <3>4, <3>6 DEF SameContacts
  <2> QED BY <1>2, <2>1, <2>2
<1> DEFINE members == u.members \ WithIdOf(u.members, i)
           v == [u EXCEPT !.members = members]
<1>4. u \in Handling
  BY <1>3 DEF Fits
<1>5. members \in SUBSET Individuals /\ members = s.members \ WithIdOf(s.members, i)
  BY <1>3, <1>4 DEF Handling, SameContacts
<1>6. t = v
  BY <1>2
<1> HIDE DEF members
<1>7. v \in Handling
  BY <1>4, <1>5 DEF Handling
<1>8. /\ v.folks = u.folks /\ v.members = members /\ v.watching = u.watching
      /\ v.told = u.told /\ v.tops = u.tops /\ v.top = u.top /\ v.pop = u.pop
  BY <1>4 DEF Handling
<1> HIDE DEF v
<1> QED BY <1>3, <1>5, <1>6, <1>7, <1>8 DEF Fits, TopsTold, TopsIn, Popular, SameContacts

LEMMA MembersAdded ==
  ASSUME NEW s, Fits(s), Popular(s), s.watching,
         NEW added \in SUBSET Individuals, added \cap DOMAIN s.told = {}
  PROVE  LET a == ModelAdds(s, added)
         IN /\ Fits(a) /\ Popular(a) /\ a.folks = s.folks /\ a.members = s.members
            /\ a.watching = s.watching /\ DOMAIN a.told = DOMAIN s.told \cup added
<1> DEFINE new == {i \in added : ShouldBeTop(s, i) /\ ~Contains(s.tops, i)}
           tops == SetToSeq(new) \o s.tops
           x == [s EXCEPT !.tops = tops]
           says == [i \in DOMAIN x.told \cup added |->
                      IF i \in DOMAIN x.told THEN x.told[i] ELSE GroupsOf(x, i)]
           a == [x EXCEPT !.told = says]
<1>1. /\ s \in Handling /\ TopsTold(s) /\ TopsIn(s) /\ s.tops \in Seq(Individuals)
      /\ s.folks \in [Individuals -> Details] /\ s.told \in Tellings
  BY DEF Fits, Handling
<1>2. /\ SetToSeq(new) \in Seq(Individuals)
      /\ \A i : Contains(SetToSeq(new), i) <=> i \in new
  <2>1. IsFiniteSet(Individuals)
    BY RosterModelAssumption
  <2>2. IsFiniteSet(new) /\ new \subseteq Individuals
    BY <2>1, FS_Subset
  <2> HIDE DEF new
  <2> DEFINE n == Cardinality(new)
             f == SetToSeq(new)
  <2>3. /\ n \in Nat /\ f \in [1..n -> new]
        /\ \A i \in new : \E k \in 1..n : f[k] = i
    BY <2>2, SetListed
  <2> HIDE DEF n, f
  <2>4. f \in Seq(Individuals) /\ Len(f) = n
    BY <2>2, <2>3
  <2>5. \A i : Contains(f, i) <=> i \in new
    BY <2>3, <2>4 DEF Contains
  <2> QED BY <2>4, <2>5 DEF f
<1>3. ModelAdds(s, added) = a
  BY DEF ModelAdds, TellAdded
<1>4. /\ tops \in Seq(Individuals)
      /\ \A i : Contains(tops, i) <=> i \in new \/ Contains(s.tops, i)
  <2> DEFINE q == SetToSeq(new)
  <2>1. q \in Seq(Individuals) /\ \A i : Contains(q, i) <=> i \in new
    BY <1>2
  <2>2. tops = q \o s.tops
    OBVIOUS
  <2> HIDE DEF q, tops
  <2> QED BY <1>1, <2>1, <2>2, ConcatContains
<1> HIDE DEF tops
<1>5. x \in Handling
  BY <1>1, <1>4 DEF Handling
<1>6. /\ x.folks = s.folks /\ x.members = s.members /\ x.watching = s.watching /\ x.told = s.told
      /\ x.tops = tops /\ x.top = s.top /\ x.pop = s.pop
  BY <1>1 DEF Handling
<1> HIDE DEF x
<1>7. \A i \in added : /\ GroupsOf(x, i) \subseteq {Group, "top", "nearby"}
                       /\ i \notin Local => /\ GroupsOf(x, i) \ {"top"} = s.folks[i].groups
                                            /\ Contains(tops, i) => "top" \in GroupsOf(x, i)
  <2> SUFFICES ASSUME NEW i \in added
               PROVE  /\ GroupsOf(x, i) \subseteq {Group, "top", "nearby"}
                      /\ i \notin Local => /\ GroupsOf(x, i) \ {"top"} = s.folks[i].groups
                                           /\ Contains(tops, i) => "top" \in GroupsOf(x, i)
    OBVIOUS
  <2>1. s.folks[i].groups \subseteq {Group} /\ Group # "top"
    BY <1>1, RosterModelAssumption DEF Details
  <2> QED BY <1>6, <2>1 DEF GroupsOf
<1>8. /\ says \in Tellings /\ DOMAIN says = DOMAIN s.told \cup added
      /\ \A i \in DOMAIN s.told : says[i] = s.told[i]
      /\ \A i \in added : says[i] = GroupsOf(x, i)
  <2>1. PICK D \in SUBSET Individuals : s.told \in [D -> SUBSET {Group, "top", "nearby"}]
    BY <1>1 DEF Tellings
  <2>2. says \in [D \cup added -> SUBSET {Group, "top", "nearby"}]
    BY <1>6, <1>7, <2>1
  <2>3. says \in Tellings
    BY <2>2 DEF Tellings
  <2>4. /\ \A i \in DOMAIN s.told : says[i] = s.told[i]
        /\ \A i \in added : says[i] = GroupsOf(x, i)
    BY <1>6
  <2> QED BY <1>6, <2>3, <2>4
<1> HIDE DEF says
<1>9. a \in Handling
  BY <1>5, <1>8 DEF Handling
<1>10. /\ a.folks = s.folks /\ a.members = s.members /\ a.watching = s.watching /\ a.told = says
       /\ a.tops = tops /\ a.top = s.top /\ a.pop = s.pop
  BY <1>5, <1>6 DEF Handling
<1> HIDE DEF a
<1>11. TopsTold(a)
  <2>1. \A i \in DOMAIN s.told : Contains(tops, i) => Contains(s.tops, i)
    BY <1>4
  <2> QED BY <1>1, <1>7, <1>8, <1>10, <2>1 DEF TopsTold
<1>12. TopsIn(a)
  <2>1. \A i \in added : Contains(s.top, i) => Contains(tops, i)
    BY <1>4 DEF ShouldBeTop
  <2> QED BY <1>1, <1>4, <1>8, <1>10, <2>1 DEF TopsIn
<1> QED BY <1>3, <1>8, <1>9, <1>10, <1>11, <1>12 DEF Fits, Popular

LEMMA MembersRemoved ==
  ASSUME NEW s, Fits(s), Popular(s), s.watching, NEW removed \in SUBSET Individuals
  PROVE  LET r == ModelRemoves(s, removed)
         IN /\ Fits(r) /\ Popular(r) /\ r.folks = s.folks /\ r.members = s.members
            /\ r.watching = s.watching /\ DOMAIN r.told = DOMAIN s.told \ removed
<1> DEFINE stay == {k \in 1 .. Len(s.tops) : s.tops[k] \notin removed \/ ShouldBeTop(s, s.tops[k])}
           tops == Picked(s.tops, stay)
           x == [s EXCEPT !.tops = tops]
           says == [i \in DOMAIN x.told \ removed |-> x.told[i]]
           r == [x EXCEPT !.told = says]
<1>1. /\ s \in Handling /\ TopsTold(s) /\ TopsIn(s) /\ s.tops \in Seq(Individuals)
      /\ s.told \in Tellings
  BY DEF Fits, Handling
<1>2. stay \in SUBSET (1..Len(s.tops))
  OBVIOUS
<1>3. ModelRemoves(s, removed) = r
  BY DEF ModelRemoves, TellRemoved
<1>4. /\ tops \in Seq(Individuals)
      /\ \A i : Contains(tops, i) <=> \E k \in stay : s.tops[k] = i
  <2> HIDE DEF stay
  <2> QED BY <1>1, <1>2, PickedShape
<1> HIDE DEF tops
<1>5. x \in Handling
  BY <1>1, <1>4 DEF Handling
<1>6. /\ x.folks = s.folks /\ x.members = s.members /\ x.watching = s.watching /\ x.told = s.told
      /\ x.tops = tops /\ x.top = s.top /\ x.pop = s.pop
  BY <1>1 DEF Handling
<1> HIDE DEF x
<1>7. says \in Tellings /\ DOMAIN says = DOMAIN s.told \ removed /\ \A i \in DOMAIN says : says[i] = s.told[i]
  <2>1. PICK D \in SUBSET Individuals : s.told \in [D -> SUBSET {Group, "top", "nearby"}]
    BY <1>1 DEF Tellings
  <2>2. says \in [D \ removed -> SUBSET {Group, "top", "nearby"}]
    BY <1>6, <2>1
  <2>3. says \in Tellings
    BY <2>2 DEF Tellings
  <2> QED BY <1>6, <2>3
<1> HIDE DEF says
<1>8. r \in Handling
  BY <1>5, <1>7 DEF Handling
<1>9. /\ r.folks = s.folks /\ r.members = s.members /\ r.watching = s.watching /\ r.told = says
      /\ r.tops = tops /\ r.top = s.top /\ r.pop = s.pop
  BY <1>5, <1>6 DEF Handling
<1> HIDE DEF r
<1>10. \A i \in DOMAIN says : Contains(tops, i) => Contains(s.tops, i)
  BY <1>4 DEF Contains
<1>11. TopsTold(r)
  BY <1>1, <1>7, <1>9, <1>10 DEF TopsTold
<1>12. TopsIn(r)
  <2>1. \A i \in DOMAIN says : Contains(s.tops, i) => Contains(tops, i)
    BY <1>4, <1>7 DEF Contains
  <2> QED BY <1>1, <1>7, <1>9, <2>1 DEF TopsIn
<1> QED BY <1>3, <1>7, <1>8, <1>9, <1>11, <1>12 DEF Fits, Popular

LEMMA MembersTold ==
  ASSUME NEW s, Fits(s), Popular(s), NEW added \in SUBSET Individuals,
         NEW removed \in SUBSET Individuals, added \cap DOMAIN s.told = {}
  PROVE  LET m == MembersChanged(s, added, removed)
         IN /\ Fits(m) /\ Popular(m) /\ m.folks = s.folks /\ m.members = s.members
            /\ m.watching = s.watching
            /\ s.watching => DOMAIN m.told = (DOMAIN s.told \cup added) \ removed
            /\ ~s.watching => m.told = s.told
<1> DEFINE a == ModelAdds(s, added)
           r == ModelRemoves(a, removed)
<1>1. CASE ~s.watching
  BY <1>1 DEF MembersChanged
<1>2. CASE s.watching
  <2>1. /\ Fits(a) /\ Popular(a) /\ a.folks = s.folks /\ a.members = s.members
        /\ a.watching = s.watching /\ DOMAIN a.told = DOMAIN s.told \cup added
    BY <1>2, MembersAdded
  <2> HIDE DEF a
  <2>2. /\ Fits(r) /\ Popular(r) /\ r.folks = a.folks /\ r.members = a.members
        /\ r.watching = a.watching /\ DOMAIN r.told = DOMAIN a.told \ removed
    BY <1>2, <2>1, MembersRemoved
  <2>3. MembersChanged(s, added, removed) = r
    BY <1>2 DEF MembersChanged, a
  <2> HIDE DEF r
  <2> QED BY <1>2, <2>1, <2>2, <2>3
<1> QED BY <1>1, <1>2

(* Of what goes out and what comes in there is one at most.                  *)
AtMostOne == {{}} \cup {{i} : i \in Individuals}

(* A member is taken out by the object that carries its identifier.          *)
LEMMA HandledRight ==
  ASSUME NEW s, Fits(s), Popular(s),
         NEW out \in AtMostOne, \A o \in out : WithIdOf(s.members, o) = {o},
         NEW in \in AtMostOne,
         \A i \in in : WithIdOf(s.members \ out, i) = {}, NEW t \in Handled(s, out, in)
  PROVE  /\ Fits(t) /\ Popular(t) /\ t.folks = s.folks /\ t.watching = s.watching
         /\ DOMAIN t.told = DOMAIN s.told /\ t.members = (s.members \ out) \cup in
<1> DEFINE gone == IF out = {} THEN {s} ELSE UNION {RemoveIndividual(s, i) : i \in out}
<1>1. \A u \in gone : /\ Fits(u) /\ Popular(u) /\ u.folks = s.folks /\ u.watching = s.watching
                      /\ DOMAIN u.told = DOMAIN s.told /\ u.members = s.members \ out
  <2>1. CASE out = {}
    BY <2>1
  <2>2. ASSUME NEW o \in Individuals, out = {o}, NEW u \in RemoveIndividual(s, o)
        PROVE  /\ Fits(u) /\ Popular(u) /\ u.folks = s.folks /\ u.watching = s.watching
               /\ DOMAIN u.told = DOMAIN s.told /\ u.members = s.members \ out
    BY <2>2, IndividualRemoves
  <2> QED BY <2>1, <2>2 DEF AtMostOne
<1>2. t \in IF in = {} THEN gone ELSE UNION {UNION {AddIndividual(u, i) : i \in in} : u \in gone}
  BY DEF Handled
<1> HIDE DEF gone
<1>3. CASE in = {}
  BY <1>1, <1>2, <1>3
<1>4. ASSUME NEW i \in Individuals, in = {i}, NEW u \in gone, t \in AddIndividual(u, i)
      PROVE  /\ Fits(t) /\ Popular(t) /\ t.folks = s.folks /\ t.watching = s.watching
             /\ DOMAIN t.told = DOMAIN s.told /\ t.members = (s.members \ out) \cup in
  <2>1. /\ Fits(t) /\ Popular(t) /\ t.folks = u.folks /\ t.watching = u.watching
        /\ DOMAIN t.told = DOMAIN u.told
        /\ t.members = (u.members \ WithIdOf(u.members, i)) \cup {i}
    BY <1>1, <1>4, IndividualAdds
  <2> QED BY <1>1, <1>4, <2>1
<1> QED BY <1>2, <1>3, <1>4 DEF AtMostOne

(* A handler that ends well leaves what it handed on, but for the individuals *)
(* nothing holds any more.                                                    *)
LEMMA BecomesKeeps ==
  ASSUME RosterInv, NEW s, Settled(s), s.watching = roster.watching, Becomes(s)
  PROVE  RosterInv'
<1>1. CASE s.crashed
  BY <1>1 DEF Becomes, RosterInv, Settled, Fits, Handling, TopsTold, TopsIn, Popular, KnownTo, OneOfEach, State
<1>2. CASE ~s.crashed
  <2> DEFINE now == [i \in Individuals |-> IF Alive(s, i) THEN s.folks[i] ELSE NoIndividual]
             m == [manager EXCEPT !.members = s.members, !.pop = s.pop, !.top = s.top,
                                  !.interactions = s.interactions]
  <2>1. /\ s \in Handling /\ TopsTold(s) /\ TopsIn(s) /\ Popular(s)
        /\ s.watching => DOMAIN s.told = s.members
        /\ s.members \subseteq KnownTo(s) /\ OneOfEach(KnownTo(s))
    BY DEF Settled, Fits
  <2>2. /\ s.members \in SUBSET Individuals /\ s.pop \in Seq(Individuals)
        /\ s.top \in Seq(Individuals) /\ s.tops \in Seq(Individuals) /\ s.interactions \in Nat
        /\ s.told \in Tellings /\ s.folks \in [Individuals -> Details] /\ s.watching \in BOOLEAN
    BY <2>1 DEF Handling
  <2>3. /\ folks' = now /\ manager' = m /\ roster' = [roster EXCEPT !.tops = s.tops] /\ told' = s.told
    BY <1>2 DEF Becomes
  <2>4. now \in [Individuals -> Details]
    BY <2>2 DEF NoIndividual, Details
  <2>5. \A i \in Individuals : Alive(s, i) => now[i] = s.folks[i]
    OBVIOUS
  <2>6. KnownTo(s) = {i \in Individuals : now[i].known}
    BY <2>2 DEF KnownTo, NoIndividual, Alive, Details
  <2>7. s.members \subseteq Individuals /\ \A i \in s.members : Alive(s, i)
    BY <2>2 DEF Alive
  <2> HIDE DEF now
  <2>8. /\ m \in [members : SUBSET Individuals, pop : Seq(Individuals), top : Seq(Individuals),
                  interactions : Nat, loaded : BOOLEAN]
        /\ m.members = s.members /\ m.pop = s.pop /\ m.top = s.top /\ m.interactions = s.interactions
    BY <2>2 DEF RosterInv
  <2>9. /\ roster' \in [watching : BOOLEAN, tops : Seq(Individuals)]
        /\ roster'.watching = s.watching /\ roster'.tops = s.tops
    BY <2>2, <2>3 DEF RosterInv
  <2> HIDE DEF m
  <2>10. /\ State' = [folks |-> now, members |-> s.members, pop |-> s.pop, top |-> s.top,
                      tops |-> s.tops, watching |-> s.watching, told |-> s.told,
                      interactions |-> s.interactions, crashed |-> FALSE]
    BY <2>3, <2>8, <2>9 DEF State
  <2> DEFINE n == [folks |-> now, members |-> s.members, pop |-> s.pop, top |-> s.top,
                   tops |-> s.tops, watching |-> s.watching, told |-> s.told,
                   interactions |-> s.interactions, crashed |-> FALSE]
  <2>11. n \in Handling
    BY <2>2, <2>4 DEF Handling
  <2>12. TopsTold(n)
    <3>1. \A i \in DOMAIN s.told : i \in Individuals /\ now[i] = s.folks[i]
      BY <2>1, <2>5, <2>7 DEF TopsTold
    <3> QED BY <2>1, <3>1 DEF TopsTold
  <2>13. TopsIn(n) /\ Popular(n) /\ KnownTo(n) = KnownTo(s)
    BY <2>1, <2>6 DEF TopsIn, Popular, KnownTo
  <2>14. Settled(n)
    BY <2>1, <2>11, <2>12, <2>13 DEF Settled, Fits
  <2> HIDE DEF n
  <2>15. Settled(State')
    BY <2>10, <2>14 DEF n
  <2>16. Settled(State)'
    BY <2>15 DEF Settled, Fits, Handling, TopsTold, TopsIn, Popular, KnownTo, OneOfEach
  <2> QED BY <2>3, <2>8, <2>9, <2>16 DEF RosterInv
<1> QED BY <1>1, <1>2

LEMMA StateIs ==
  ASSUME RosterInv
  PROVE  /\ State \in Handling /\ State.folks = folks /\ State.members = manager.members
         /\ State.pop = manager.pop /\ State.top = manager.top /\ State.tops = roster.tops
         /\ State.watching = roster.watching /\ State.told = told
         /\ State.interactions = manager.interactions
         /\ folks \in [Individuals -> Details] /\ manager.members \in SUBSET Individuals
         /\ roster.watching \in BOOLEAN /\ told \in Tellings
         /\ ~roster.watching => DOMAIN told = {}
         /\ roster.watching => DOMAIN told = manager.members
         /\ manager.members \subseteq KnownTo(State)
<1>1. State \in Handling /\ TopsTold(State)
  BY DEF RosterInv, Settled, Fits
<1>2. /\ State.folks = folks /\ State.members = manager.members
      /\ State.pop = manager.pop /\ State.top = manager.top /\ State.tops = roster.tops
      /\ State.watching = roster.watching /\ State.told = told
      /\ State.interactions = manager.interactions
  BY DEF State
<1>3. /\ State.folks \in [Individuals -> Details] /\ State.told \in Tellings
      /\ State.members \in SUBSET Individuals
  BY <1>1 DEF Handling
<1>4. /\ State.watching => DOMAIN State.told = State.members
      /\ State.members \subseteq KnownTo(State)
  BY DEF RosterInv, Settled
<1>5. roster.watching \in BOOLEAN
  BY DEF RosterInv
<1> QED BY <1>1, <1>2, <1>3, <1>4, <1>5 DEF TopsTold

(* Folks takes one object away, or brings one, or puts one in the place of   *)
(* another.                                                                  *)
LEMMA AggregatorKeeps ==
  ASSUME RosterInv, NEW out \in {{}} \cup {{i} : i \in Individuals},
         NEW in \in {{}} \cup {{i} : i \in Individuals}, AggregatorIndividualsChanged(out, in)
  PROVE  RosterInv'
<1> DEFINE known == {i \in Individuals : folks[i].known}
           removed == {i \in out : WithIdOf(manager.members, i) # {}}
<1>1. /\ out \subseteq known
      /\ \A i \in in : ~Alive(State, i) /\ WithIdOf(known \ out, i) = {}
  BY DEF AggregatorIndividualsChanged
<1>2. PICK born \in [in -> NewIndividual] :
        LET added == {i \in in : born[i].contact}
            now == [i \in Individuals |->
                      IF i \in in THEN born[i] ELSE [folks[i] EXCEPT !.known = @ /\ i \notin out]]
        IN  \E s \in Handled([State EXCEPT !.folks = now], removed, added) :
               Becomes(MembersChanged(s, added, removed))
  BY DEF AggregatorIndividualsChanged
<1> DEFINE added == {i \in in : born[i].contact}
           now == [i \in Individuals |->
                     IF i \in in THEN born[i] ELSE [folks[i] EXCEPT !.known = @ /\ i \notin out]]
           s == [State EXCEPT !.folks = now]
<1>3. PICK t \in Handled(s, removed, added) : Becomes(MembersChanged(t, added, removed))
  BY <1>2
<1>4. /\ State \in Handling /\ State.folks = folks /\ State.members = manager.members
      /\ State.pop = manager.pop /\ State.top = manager.top /\ State.tops = roster.tops
      /\ State.watching = roster.watching /\ State.told = told
      /\ folks \in [Individuals -> Details] /\ manager.members \in SUBSET Individuals
      /\ roster.watching \in BOOLEAN
      /\ ~roster.watching => DOMAIN told = {}
      /\ roster.watching => DOMAIN told = manager.members
      /\ manager.members \subseteq known
  BY StateIs DEF KnownTo
<1>5. OneOfEach(known) /\ TopsTold(State) /\ TopsIn(State) /\ Popular(State)
  BY <1>4 DEF RosterInv, Settled, Fits, KnownTo
<1>6. \A i \in in : /\ i \in Individuals /\ i \notin known /\ i \notin manager.members
                    /\ i \notin DOMAIN told
  BY <1>1, <1>4 DEF Alive
<1> DEFINE kept(i) == [folks[i] EXCEPT !.known = @ /\ i \notin out]
<1>a. \A i \in Individuals : /\ kept(i) \in Details /\ kept(i).groups = folks[i].groups
                             /\ kept(i).known <=> i \in known \ out
  <2> SUFFICES ASSUME NEW i \in Individuals
               PROVE  /\ kept(i) \in Details /\ kept(i).groups = folks[i].groups
                      /\ kept(i).known <=> i \in known \ out
    OBVIOUS
  <2> DEFINE b == folks[i].known /\ i \notin out
  <2>1. folks[i] \in Details /\ folks[i].known \in BOOLEAN
    BY <1>4 DEF Details
  <2>2. b \in BOOLEAN /\ (b <=> i \in known \ out)
    OBVIOUS
  <2>3. kept(i) = [folks[i] EXCEPT !.known = b]
    BY <2>1 DEF Details
  <2> HIDE DEF b, kept
  <2> QED BY <2>1, <2>2, <2>3 DEF Details
<1>b. \A i \in in : born[i] \in Details /\ born[i].known = TRUE
  <2>1. 0..MaxPop \subseteq Nat
    BY RosterModelAssumption
  <2>2. \A d \in NewIndividual : d \in Details /\ d.known = TRUE
    BY <2>1 DEF Details, NewIndividual
  <2> QED BY <2>2
<1>c. now = [i \in Individuals |-> IF i \in in THEN born[i] ELSE kept(i)]
  OBVIOUS
<1> HIDE DEF kept, now
<1>7. now \in [Individuals -> Details]
  BY <1>a, <1>b, <1>c
<1>8. /\ \A i \in Individuals : i \notin in => now[i].groups = folks[i].groups
      /\ {i \in Individuals : now[i].known} = (known \ out) \cup in
  <2>1. /\ \A i \in in : i \in Individuals /\ now[i].known
        /\ \A i \in Individuals \ in : now[i].known <=> i \in known \ out
    BY <1>6, <1>a, <1>b, <1>c
  <2> QED BY <1>6, <1>a, <1>c, <2>1
<1>9. s \in Handling
  BY <1>4, <1>7 DEF Handling
<1>10. /\ s.folks = now /\ s.members = manager.members /\ s.pop = State.pop /\ s.top = State.top
       /\ s.tops = State.tops /\ s.watching = roster.watching /\ s.told = told
  BY <1>4 DEF State
<1> HIDE DEF s
<1>11. Fits(s) /\ Popular(s)
  <2>1. \A i \in DOMAIN told : i \in Individuals /\ now[i].groups = folks[i].groups
    BY <1>4, <1>6, <1>8
  <2> QED BY <1>4, <1>5, <1>9, <1>10, <2>1 DEF Fits, TopsTold, TopsIn, Popular
<1>12. /\ \A o \in removed : WithIdOf(manager.members, o) = {o}
       /\ removed = out \cap manager.members
  BY <1>1, <1>4, <1>5 DEF WithIdOf, OneOfEach
<1>13. \A i \in added : WithIdOf(manager.members \ removed, i) = {}
  BY <1>1, <1>4, <1>12 DEF WithIdOf
<1>14. removed \in AtMostOne /\ added \in AtMostOne
  BY DEF AtMostOne
<1>15. /\ removed \subseteq known /\ added \subseteq in /\ added \subseteq Individuals
       /\ removed \subseteq Individuals
  BY <1>1, <1>6
<1> HIDE DEF removed, added
<1>16. /\ Fits(t) /\ Popular(t) /\ t.folks = now /\ t.watching = roster.watching
       /\ DOMAIN t.told = DOMAIN told /\ t.members = (manager.members \ removed) \cup added
  <2>1. /\ \A o \in removed : WithIdOf(s.members, o) = {o}
        /\ \A i \in added : WithIdOf(s.members \ removed, i) = {}
    BY <1>10, <1>12, <1>13
  <2>2. t \in Handled(s, removed, added)
    BY <1>3
  <2>3. /\ Fits(t) /\ Popular(t) /\ t.folks = s.folks /\ t.watching = s.watching
        /\ DOMAIN t.told = DOMAIN s.told /\ t.members = (s.members \ removed) \cup added
    BY <1>11, <1>14, <2>1, <2>2, HandledRight
  <2> QED BY <1>10, <2>3
<1> DEFINE m == MembersChanged(t, added, removed)
<1>17. /\ Fits(m) /\ Popular(m) /\ m.folks = t.folks /\ m.members = t.members
       /\ m.watching = t.watching
       /\ t.watching => DOMAIN m.told = (DOMAIN t.told \cup added) \ removed
  <2>1. /\ added \in SUBSET Individuals /\ removed \in SUBSET Individuals
        /\ added \cap DOMAIN t.told = {}
    BY <1>6, <1>15, <1>16
  <2>2. Fits(t) /\ Popular(t)
    BY <1>16
  <2> QED BY <2>1, <2>2, MembersTold
<1>18. Becomes(m)
  BY <1>3
<1> HIDE DEF m
<1>19. m.watching => DOMAIN m.told = m.members
  BY <1>4, <1>6, <1>15, <1>16, <1>17
<1>20. KnownTo(m) = (known \ out) \cup in
  BY <1>8, <1>16, <1>17 DEF KnownTo
<1>21. m.members \subseteq (known \ out) \cup in
  BY <1>4, <1>12, <1>15, <1>16, <1>17
<1>22. OneOfEach((known \ out) \cup in)
  <2>1. \A i, j \in in : i = j
    OBVIOUS
  <2>2. \A i \in in, j \in known \ out : IdOf[i] # IdOf[j]
    BY <1>1 DEF WithIdOf
  <2> QED BY <1>5, <2>1, <2>2 DEF OneOfEach
<1> QED BY <1>16, <1>17, <1>18, <1>19, <1>20, <1>21, <1>22, BecomesKeeps DEF Settled

(* What folks says of an individual may change, but for whether it is known  *)
(* and in the user's group.                                                  *)
LEMMA DetailsChange ==
  ASSUME RosterInv, NEW s \in Handling, s.members = manager.members, s.watching = roster.watching,
         s.told = told, s.tops = roster.tops, s.top = manager.top,
         \A i : Contains(s.pop, i) <=> Contains(manager.pop, i),
         \A i \in Individuals : /\ s.folks[i].known <=> folks[i].known
                                /\ s.folks[i].groups = folks[i].groups
  PROVE  Settled(s)
<1>1. /\ State.folks = folks /\ State.members = manager.members
      /\ State.pop = manager.pop /\ State.top = manager.top /\ State.tops = roster.tops
      /\ State.watching = roster.watching /\ State.told = told
      /\ told \in Tellings
  BY StateIs
<1>2. /\ TopsTold(State) /\ TopsIn(State) /\ Popular(State)
      /\ State.watching => DOMAIN State.told = State.members
      /\ State.members \subseteq KnownTo(State) /\ OneOfEach(KnownTo(State))
  BY DEF RosterInv, Settled, Fits
<1>3. KnownTo(s) = KnownTo(State)
  BY <1>1 DEF KnownTo
<1>4. DOMAIN told \subseteq Individuals
  BY <1>1 DEF Tellings
<1>5. TopsTold(s)
  BY <1>1, <1>2, <1>4 DEF TopsTold
<1>6. TopsIn(s) /\ Popular(s)
  BY <1>1, <1>2 DEF TopsIn, Popular
<1> QED BY <1>1, <1>2, <1>3, <1>5, <1>6 DEF Settled, Fits

(* One field of what folks says of an individual is set.                     *)
LEMMA DetailSet ==
  ASSUME RosterInv, NEW i \in Individuals, NEW f \in [Individuals -> Details], NEW n \in Nat,
         \A j \in Individuals : /\ f[j].known <=> folks[j].known
                                /\ f[j].groups = folks[j].groups
  PROVE  LET s == [State EXCEPT !.folks = f, !.interactions = n]
         IN  Settled(s) /\ s.watching = roster.watching /\ s.members = manager.members
             /\ s.told = told /\ s.folks = f
<1> DEFINE s == [State EXCEPT !.folks = f, !.interactions = n]
<1>1. s \in Handling
  BY StateIs DEF Handling
<1>2. /\ s.members = manager.members /\ s.watching = roster.watching /\ s.told = told
      /\ s.tops = roster.tops /\ s.top = manager.top /\ s.pop = manager.pop /\ s.folks = f
  BY DEF State
<1> HIDE DEF s
<1>3. Settled(s)
  BY <1>1, <1>2, DetailsChange
<1> QED BY <1>2, <1>3 DEF s

(* An individual gets its first contact, or loses its last.                  *)
LEMMA PersonasKeep ==
  ASSUME RosterInv, NEW i \in Individuals, PersonasChanged(i)
  PROVE  RosterInv'
<1> DEFINE f == [folks EXCEPT ![i] = [folks[i] EXCEPT !.contact = ~@]]
           s == [State EXCEPT !.folks[i].contact = ~@]
           x == [State EXCEPT !.folks = f, !.interactions = manager.interactions]
<1>1. /\ State.folks = folks /\ State.interactions = manager.interactions
      /\ State \in Handling /\ folks \in [Individuals -> Details]
      /\ manager.interactions \in Nat /\ State.members = manager.members
      /\ manager.members \subseteq KnownTo(State)
      /\ ~roster.watching => DOMAIN told = {}
      /\ roster.watching => DOMAIN told = manager.members
      /\ manager.members \in SUBSET Individuals
      /\ OneOfEach(KnownTo(State))
  BY StateIs DEF RosterInv, Settled
<1>2. s = x
  BY <1>1 DEF Handling, State
<1>3. f \in [Individuals -> Details] /\ \A j \in Individuals : /\ f[j].known <=> folks[j].known
                                                               /\ f[j].groups = folks[j].groups
  <2> DEFINE d == [folks[i] EXCEPT !.contact = ~@]
  <2>1. folks[i] \in Details
    BY <1>1
  <2>2. d \in Details /\ d.known = folks[i].known /\ d.groups = folks[i].groups
    BY <2>1 DEF Details
  <2>3. f = [folks EXCEPT ![i] = d]
    OBVIOUS
  <2> HIDE DEF d, f
  <2> QED BY <1>1, <2>2, <2>3
<1> HIDE DEF f
<1>4. Settled(x) /\ x.watching = roster.watching /\ x.members = manager.members
      /\ x.told = told /\ x.folks = f
  BY <1>1, <1>3, DetailSet
<1> HIDE DEF x
<1>5. KnownTo(x) = KnownTo(State)
  BY <1>1, <1>3, <1>4 DEF KnownTo
<1> DEFINE had == WithIdOf(manager.members, i) # {}
<1>6. /\ i \in KnownTo(State)
      /\ \/ /\ had
            /\ \E t \in RemoveIndividual(MembersChanged(x, {}, {i}), i) : Becomes(t)
         \/ /\ ~had
            /\ \E t \in AddIndividual(x, i) : Becomes(MembersChanged(t, {i}, {}))
  BY <1>1, <1>2 DEF PersonasChanged, KnownTo
<1>7. ASSUME had, NEW t \in RemoveIndividual(MembersChanged(x, {}, {i}), i), Becomes(t)
      PROVE  RosterInv'
  <2> DEFINE m == MembersChanged(x, {}, {i})
  <2>1. WithIdOf(manager.members, i) = {i}
    BY <1>1, <1>6, <1>7 DEF WithIdOf, OneOfEach
  <2>2. /\ Fits(m) /\ Popular(m) /\ m.folks = x.folks /\ m.members = x.members
        /\ m.watching = x.watching
        /\ x.watching => DOMAIN m.told = (DOMAIN x.told \cup {}) \ {i}
    <3> DEFINE none == {}
               one == {i}
    <3>1. none \in SUBSET Individuals /\ one \in SUBSET Individuals /\ none \cap DOMAIN x.told = {}
      OBVIOUS
    <3>2. Fits(x) /\ Popular(x)
      BY <1>4 DEF Settled
    <3>3. m = MembersChanged(x, none, one)
      OBVIOUS
    <3> HIDE DEF none, one, m
    <3>4. /\ Fits(m) /\ Popular(m) /\ m.folks = x.folks /\ m.members = x.members
          /\ m.watching = x.watching
          /\ x.watching => DOMAIN m.told = (DOMAIN x.told \cup none) \ one
      BY <3>1, <3>2, <3>3, MembersTold
    <3> QED BY <3>4 DEF none, one
  <2>3. t \in RemoveIndividual(m, i)
    BY <1>7
  <2> HIDE DEF m
  <2>4. /\ Fits(t) /\ Popular(t) /\ t.folks = m.folks /\ t.watching = m.watching
        /\ DOMAIN t.told = DOMAIN m.told /\ t.members = m.members \ WithIdOf(m.members, i)
    BY <2>2, <2>3, IndividualRemoves
  <2>5. t.members = manager.members \ {i} /\ t.folks = f /\ t.watching = roster.watching
    BY <1>4, <2>1, <2>2, <2>4
  <2>6. t.watching => DOMAIN t.told = t.members
    BY <1>1, <1>4, <2>2, <2>4, <2>5
  <2>7. KnownTo(t) = KnownTo(x)
    BY <1>4, <2>5 DEF KnownTo
  <2>8. Settled(t)
    BY <1>1, <1>5, <2>4, <2>5, <2>6, <2>7 DEF Settled
  <2> QED BY <1>7, <2>5, <2>8, BecomesKeeps
<1>8. ASSUME ~had, NEW t \in AddIndividual(x, i), Becomes(MembersChanged(t, {i}, {}))
      PROVE  RosterInv'
  <2> DEFINE m == MembersChanged(t, {i}, {})
  <2>1. /\ Fits(t) /\ Popular(t) /\ t.folks = x.folks /\ t.watching = x.watching
        /\ DOMAIN t.told = DOMAIN x.told
        /\ t.members = (x.members \ WithIdOf(x.members, i)) \cup {i}
    BY <1>4, <1>8, IndividualAdds DEF Settled
  <2>2. t.members = manager.members \cup {i} /\ i \notin manager.members
    BY <1>4, <1>8, <2>1 DEF WithIdOf
  <2>3. {i} \cap DOMAIN t.told = {}
    BY <1>1, <1>4, <2>1, <2>2, StateIs
  <2>4. /\ Fits(m) /\ Popular(m) /\ m.folks = t.folks /\ m.members = t.members
        /\ m.watching = t.watching
        /\ t.watching => DOMAIN m.told = (DOMAIN t.told \cup {i}) \ {}
    <3> DEFINE none == {}
               one == {i}
    <3>1. none \in SUBSET Individuals /\ one \in SUBSET Individuals /\ one \cap DOMAIN t.told = {}
      BY <2>3
    <3>2. m = MembersChanged(t, one, none)
      OBVIOUS
    <3> HIDE DEF none, one, m
    <3>3. /\ Fits(m) /\ Popular(m) /\ m.folks = t.folks /\ m.members = t.members
          /\ m.watching = t.watching
          /\ t.watching => DOMAIN m.told = (DOMAIN t.told \cup one) \ none
      BY <2>1, <3>1, <3>2, MembersTold
    <3> QED BY <3>3 DEF none, one
  <2> HIDE DEF m
  <2>5. m.members = manager.members \cup {i} /\ m.folks = f /\ m.watching = roster.watching
    BY <1>4, <2>1, <2>2, <2>4
  <2>6. m.watching => DOMAIN m.told = m.members
    BY <1>1, <1>4, <2>1, <2>4, <2>5
  <2>7. KnownTo(m) = KnownTo(x)
    BY <1>4, <2>5 DEF KnownTo
  <2>8. Settled(m)
    BY <1>1, <1>5, <1>6, <2>4, <2>5, <2>6, <2>7 DEF Settled
  <2>9. Becomes(m)
    BY <1>8 DEF m
  <2> QED BY <2>5, <2>8, <2>9, BecomesKeeps
<1> QED BY <1>6, <1>7, <1>8

(* The user's group takes a member or loses one.                             *)
LEMMA GroupKeeps ==
  ASSUME RosterInv, NEW i \in Individuals, GroupChanged(i)
  PROVE  RosterInv'
<1> DEFINE member == Group \notin folks[i].groups
           groups == IF member THEN {Group} ELSE {}
           f == [folks EXCEPT ![i] = [folks[i] EXCEPT !.groups = groups]]
           s == [State EXCEPT !.folks[i].groups = groups]
           x == [State EXCEPT !.folks = f]
           heard == [told EXCEPT ![i] = IF member THEN @ \cup {Group} ELSE @ \ {Group}]
           r == [x EXCEPT !.told = heard]
<1>1. /\ State.folks = folks /\ State.members = manager.members /\ State.told = told
      /\ State.tops = roster.tops /\ State.top = manager.top /\ State.pop = manager.pop
      /\ State.watching = roster.watching /\ State \in Handling
      /\ folks \in [Individuals -> Details] /\ told \in Tellings
      /\ manager.members \subseteq KnownTo(State)
      /\ ~roster.watching => DOMAIN told = {}
      /\ roster.watching => DOMAIN told = manager.members
      /\ TopsTold(State) /\ TopsIn(State) /\ Popular(State) /\ OneOfEach(KnownTo(State))
      /\ i \in manager.members
  BY StateIs DEF RosterInv, Settled, Fits, GroupChanged
<1>2. s = x
  BY <1>1 DEF Handling, State
<1>3. Becomes(IF x.watching THEN TellGroup(x, i, Group, member) ELSE x)
  BY <1>1, <1>2 DEF GroupChanged
<1>4. /\ f \in [Individuals -> Details] /\ f[i].groups = groups
      /\ \A j \in Individuals : f[j].known <=> folks[j].known
      /\ \A j \in Individuals \ {i} : f[j].groups = folks[j].groups
  <2> DEFINE d == [folks[i] EXCEPT !.groups = groups]
  <2>1. folks[i] \in Details /\ groups \in SUBSET {Group}
    BY <1>1
  <2> HIDE DEF groups
  <2>2. d \in Details /\ d.known = folks[i].known /\ d.groups = groups
    BY <2>1 DEF Details
  <2>3. f = [folks EXCEPT ![i] = d]
    OBVIOUS
  <2> HIDE DEF d, f
  <2> QED BY <1>1, <2>2, <2>3
<1> HIDE DEF f
<1>5. x \in Handling
  BY <1>1, <1>4 DEF Handling
<1>6. /\ x.folks = f /\ x.members = manager.members /\ x.watching = roster.watching
      /\ x.told = told /\ x.tops = roster.tops /\ x.top = manager.top /\ x.pop = manager.pop
  BY DEF State
<1> HIDE DEF x
<1>7. Popular(x) /\ TopsIn(x) /\ KnownTo(x) = KnownTo(State)
  BY <1>1, <1>4, <1>6 DEF Popular, TopsIn, KnownTo
<1>8. CASE ~roster.watching
  <2>1. TopsTold(x)
    BY <1>1, <1>6, <1>8 DEF TopsTold
  <2>2. Settled(x)
    BY <1>1, <1>5, <1>6, <1>7, <1>8, <2>1 DEF Settled, Fits
  <2> QED BY <1>3, <1>6, <1>8, <2>2, BecomesKeeps
<1>9. CASE roster.watching
  <2>1. i \in DOMAIN told
    BY <1>1, <1>9
  <2>2. TellGroup(x, i, Group, member) = r
    BY <1>6, <2>1 DEF TellGroup
  <2>3. folks[i].groups \subseteq {Group} /\ Group # "top"
    BY <1>1, RosterModelAssumption DEF Details
  <2>4. /\ DOMAIN heard = DOMAIN told /\ heard \in Tellings
        /\ \A j \in DOMAIN told \ {i} : heard[j] = told[j]
        /\ heard[i] \ {"top"} = IF member THEN (told[i] \ {"top"}) \cup {Group}
                                          ELSE (told[i] \ {"top"}) \ {Group}
        /\ "top" \in heard[i] <=> "top" \in told[i]
    <3>1. PICK D \in SUBSET Individuals : told \in [D -> SUBSET {Group, "top", "nearby"}]
      BY <1>1 DEF Tellings
    <3> DEFINE v == IF member THEN told[i] \cup {Group} ELSE told[i] \ {Group}
    <3>2. /\ v \in SUBSET {Group, "top", "nearby"}
          /\ v \ {"top"} = IF member THEN (told[i] \ {"top"}) \cup {Group}
                                     ELSE (told[i] \ {"top"}) \ {Group}
          /\ "top" \in v <=> "top" \in told[i]
      BY <2>1, <2>3, <3>1
    <3>3. heard = [told EXCEPT ![i] = v]
      OBVIOUS
    <3> HIDE DEF v, heard
    <3>4. heard \in [D -> SUBSET {Group, "top", "nearby"}] /\ heard[i] = v
      BY <2>1, <3>1, <3>2, <3>3
    <3>5. heard \in Tellings
      BY <3>4 DEF Tellings
    <3> QED BY <2>1, <3>1, <3>2, <3>3, <3>4, <3>5
  <2>5. i \notin Local => heard[i] \ {"top"} = groups
    <3>1. i \notin Local => told[i] \ {"top"} = folks[i].groups
      BY <1>1, <2>1 DEF TopsTold
    <3> QED BY <2>3, <2>4, <3>1
  <2> HIDE DEF heard, groups, member
  <2>6. r \in Handling
    BY <1>5, <2>4 DEF Handling
  <2>7. /\ r.folks = f /\ r.members = manager.members /\ r.watching = roster.watching
        /\ r.told = heard /\ r.tops = roster.tops /\ r.top = manager.top /\ r.pop = manager.pop
    BY <1>5, <1>6 DEF Handling
  <2> HIDE DEF r
  <2>8. TopsTold(r)
    <3>1. \A j \in DOMAIN told \ Local : /\ told[j] \ {"top"} = folks[j].groups
                                         /\ Contains(roster.tops, j) => "top" \in told[j]
      BY <1>1 DEF TopsTold
    <3>2. DOMAIN told \subseteq Individuals
      BY <1>1 DEF Tellings
    <3>3. \A j \in DOMAIN told \ Local : /\ heard[j] \ {"top"} = f[j].groups
                                         /\ Contains(roster.tops, j) => "top" \in heard[j]
      <4> SUFFICES ASSUME NEW j \in DOMAIN told \ Local
                   PROVE  /\ heard[j] \ {"top"} = f[j].groups
                          /\ Contains(roster.tops, j) => "top" \in heard[j]
        OBVIOUS
      <4>1. CASE j = i
        BY <1>4, <2>4, <2>5, <3>1, <4>1
      <4>2. CASE j # i
        BY <1>4, <2>4, <3>1, <3>2, <4>2
      <4> QED BY <4>1, <4>2
    <3> QED BY <1>9, <2>4, <2>7, <3>3 DEF TopsTold
  <2>9. TopsIn(r) /\ Popular(r) /\ KnownTo(r) = KnownTo(x)
    BY <1>6, <1>7, <2>4, <2>7 DEF TopsIn, Popular, KnownTo
  <2>10. Settled(r)
    BY <1>1, <1>7, <2>4, <2>6, <2>7, <2>8, <2>9 DEF Settled, Fits
  <2> QED BY <1>3, <1>6, <1>9, <2>2, <2>7, <2>10, BecomesKeeps
<1> QED BY <1>1, <1>8, <1>9

(* An individual becomes a favourite or stops being one: nobody is told.     *)
LEMMA FavouriteKeeps ==
  ASSUME RosterInv, NEW i \in Individuals, FavouriteChanged(i)
  PROVE  RosterInv'
<1> DEFINE f == [folks EXCEPT ![i] = [folks[i] EXCEPT !.favourite = ~@]]
           x == [State EXCEPT !.folks = f, !.interactions = manager.interactions]
<1>1. /\ State.folks = folks /\ State.interactions = manager.interactions
      /\ State \in Handling /\ folks \in [Individuals -> Details] /\ manager.interactions \in Nat
  BY StateIs DEF RosterInv
<1>2. Becomes(x)
  <2>1. [State EXCEPT !.folks[i].favourite = ~@] = x
    BY <1>1 DEF Handling, State
  <2> QED BY <2>1 DEF FavouriteChanged
<1>3. f \in [Individuals -> Details] /\ \A j \in Individuals : /\ f[j].known <=> folks[j].known
                                                               /\ f[j].groups = folks[j].groups
  <2> DEFINE d == [folks[i] EXCEPT !.favourite = ~@]
  <2>1. folks[i] \in Details
    BY <1>1
  <2>2. d \in Details /\ d.known = folks[i].known /\ d.groups = folks[i].groups
    BY <2>1 DEF Details
  <2>3. f = [folks EXCEPT ![i] = d]
    OBVIOUS
  <2> HIDE DEF d, f
  <2> QED BY <1>1, <2>2, <2>3
<1> HIDE DEF f
<1>4. Settled(x) /\ x.watching = roster.watching
  BY <1>1, <1>3, DetailSet
<1> HIDE DEF x
<1> QED BY <1>2, <1>4, BecomesKeeps

(* Thirty days pass: nobody is told.                                         *)
LEMMA ExpiryKeeps ==
  ASSUME RosterInv, NEW i \in Individuals, PopularityExpires(i)
  PROVE  RosterInv'
<1> DEFINE f == [folks EXCEPT ![i] = [folks[i] EXCEPT !.popularity = 0]]
           x == [State EXCEPT !.folks = f, !.interactions = manager.interactions]
<1>1. /\ State.folks = folks /\ State.interactions = manager.interactions
      /\ State \in Handling /\ folks \in [Individuals -> Details] /\ manager.interactions \in Nat
  BY StateIs DEF RosterInv
<1>2. Becomes(x)
  <2>1. [State EXCEPT !.folks[i].popularity = 0] = x
    BY <1>1 DEF Handling, State
  <2> QED BY <2>1 DEF PopularityExpires
<1>3. f \in [Individuals -> Details] /\ \A j \in Individuals : /\ f[j].known <=> folks[j].known
                                                               /\ f[j].groups = folks[j].groups
  <2> DEFINE d == [folks[i] EXCEPT !.popularity = 0]
  <2>1. folks[i] \in Details
    BY <1>1
  <2>2. d \in Details /\ d.known = folks[i].known /\ d.groups = folks[i].groups
    BY <2>1 DEF Details
  <2>3. f = [folks EXCEPT ![i] = d]
    OBVIOUS
  <2> HIDE DEF d, f
  <2> QED BY <1>1, <2>2, <2>3
<1> HIDE DEF f
<1>4. Settled(x) /\ x.watching = roster.watching
  BY <1>1, <1>3, DetailSet
<1> HIDE DEF x
<1> QED BY <1>2, <1>4, BecomesKeeps

(* Messages are exchanged: the list is sorted, and now and then its first    *)
(* are told.                                                                 *)
LEMMA InteractionKeeps ==
  ASSUME RosterInv, NEW i \in Individuals, InteractionCountChanged(i)
  PROVE  RosterInv'
<1>1. /\ State.folks = folks /\ State.interactions = manager.interactions
      /\ State \in Handling /\ folks \in [Individuals -> Details] /\ manager.interactions \in Nat
      /\ folks[i] \in Details /\ folks[i].popularity \in Nat
  BY StateIs DEF RosterInv, Details
<1>2. PICK p \in folks[i].popularity .. MaxPop :
        LET s == [State EXCEPT !.folks[i].popularity = p, !.interactions = (@ + 1) % CheckEvery]
            sorted == [s EXCEPT !.pop = SortByPop(s)]
        IN  \E t \in (IF manager.interactions = 0 THEN CheckTopIndividuals(sorted) ELSE {sorted}) :
               Becomes(t)
  BY DEF InteractionCountChanged
<1> DEFINE n == (manager.interactions + 1) % CheckEvery
           f == [folks EXCEPT ![i] = [folks[i] EXCEPT !.popularity = p]]
           x == [State EXCEPT !.folks = f, !.interactions = n]
           sorted == [x EXCEPT !.pop = SortByPop(x)]
<1>3. n \in Nat /\ p \in Nat
  BY <1>1, RosterModelAssumption
<1>4. PICK t \in (IF manager.interactions = 0 THEN CheckTopIndividuals(sorted) ELSE {sorted}) :
        Becomes(t)
  <2>1. [State EXCEPT !.folks[i].popularity = p, !.interactions = (@ + 1) % CheckEvery] = x
    BY <1>1 DEF Handling, State
  <2> QED BY <1>2, <2>1
<1> HIDE DEF n
<1>5. f \in [Individuals -> Details] /\ \A j \in Individuals : /\ f[j].known <=> folks[j].known
                                                               /\ f[j].groups = folks[j].groups
  <2> DEFINE d == [folks[i] EXCEPT !.popularity = p]
  <2>1. d \in Details /\ d.known = folks[i].known /\ d.groups = folks[i].groups
    BY <1>1, <1>3 DEF Details
  <2>2. f = [folks EXCEPT ![i] = d]
    OBVIOUS
  <2> HIDE DEF d, f
  <2> QED BY <1>1, <2>1, <2>2
<1> HIDE DEF f
<1>6. Settled(x) /\ x.watching = roster.watching
  BY <1>3, <1>5, DetailSet
<1> HIDE DEF x
<1>7. /\ Settled(sorted) /\ sorted.watching = roster.watching
  <2> DEFINE pop == SortByPop(x)
  <2>1. /\ x \in Handling /\ TopsTold(x) /\ TopsIn(x) /\ Popular(x)
        /\ x.watching => DOMAIN x.told = x.members
        /\ x.members \subseteq KnownTo(x) /\ OneOfEach(KnownTo(x))
    BY <1>6 DEF Settled, Fits
  <2>2. pop \in Seq(Individuals) /\ \A j : Contains(pop, j) <=> Contains(x.pop, j)
    BY <2>1, SortedHasAll
  <2> HIDE DEF pop
  <2> DEFINE y == [x EXCEPT !.pop = pop]
  <2>3. y \in Handling
    BY <2>1, <2>2 DEF Handling
  <2>4. /\ y.folks = x.folks /\ y.members = x.members /\ y.watching = x.watching /\ y.told = x.told
        /\ y.tops = x.tops /\ y.top = x.top /\ y.pop = pop
    BY <2>1 DEF Handling
  <2>5. sorted = y
    BY DEF pop
  <2> HIDE DEF y
  <2>6. KnownTo(y) = KnownTo(x)
    BY <2>4 DEF KnownTo
  <2>7. Settled(y) /\ y.watching = roster.watching
    BY <1>6, <2>1, <2>2, <2>3, <2>4, <2>6 DEF Settled, Fits, TopsTold, TopsIn, Popular
  <2> HIDE DEF sorted
  <2> QED BY <2>5, <2>7
<1> HIDE DEF sorted
<1>8. Settled(t) /\ t.watching = roster.watching
  <2>1. CASE t = sorted
    BY <1>7, <2>1
  <2>2. CASE t \in CheckTopIndividuals(sorted)
    <3>1. Fits(t) /\ Popular(t) /\ SameContacts(t, sorted)
      BY <1>7, <2>2, TopChecked DEF Settled, Fits
    <3>2. KnownTo(t) = KnownTo(sorted)
      BY <3>1 DEF SameContacts, KnownTo
    <3> QED BY <1>7, <3>1, <3>2 DEF Settled, SameContacts
  <2> QED BY <1>4, <2>1, <2>2
<1> QED BY <1>4, <1>8, BecomesKeeps

(* The model is made, and says of each member the groups it is in.           *)
LEMMA PopulateKeeps ==
  ASSUME RosterInv, PopulateModel
  PROVE  RosterInv'
<1> DEFINE members == manager.members
           w == [State EXCEPT !.watching = TRUE]
           a == ModelAdds(w, members)
           b == ModelAdds(State, members)
<1>1. /\ State.folks = folks /\ State.members = manager.members
      /\ State.pop = manager.pop /\ State.top = manager.top /\ State.tops = roster.tops
      /\ State.watching = roster.watching /\ State.told = told
      /\ State.interactions = manager.interactions
      /\ State \in Handling /\ members \in SUBSET Individuals /\ ~roster.watching
      /\ DOMAIN told = {}
  BY StateIs DEF PopulateModel
<1>2. /\ TopsTold(State) /\ TopsIn(State) /\ Popular(State)
      /\ State.members \subseteq KnownTo(State) /\ OneOfEach(KnownTo(State))
  BY DEF RosterInv, Settled, Fits
<1>3. w \in Handling
  BY <1>1 DEF Handling
<1>4. /\ w.folks = folks /\ w.members = members /\ w.watching = TRUE /\ w.told = told
      /\ w.tops = State.tops /\ w.top = State.top /\ w.pop = State.pop
      /\ w.interactions = manager.interactions
  BY <1>1 DEF State
<1>5. /\ a.tops = b.tops /\ a.told = b.told /\ a.top = manager.top /\ a.pop = manager.pop
      /\ a.interactions = manager.interactions
  <2> DEFINE newW == {i \in members : ShouldBeTop(w, i) /\ ~Contains(w.tops, i)}
             newS == {i \in members : ShouldBeTop(State, i) /\ ~Contains(State.tops, i)}
             tops == SetToSeq(newW) \o State.tops
             midW == [w EXCEPT !.tops = tops]
             midS == [State EXCEPT !.tops = tops]
             saysW == [i \in DOMAIN midW.told \cup members |->
                         IF i \in DOMAIN midW.told THEN midW.told[i] ELSE GroupsOf(midW, i)]
             saysS == [i \in DOMAIN midS.told \cup members |->
                         IF i \in DOMAIN midS.told THEN midS.told[i] ELSE GroupsOf(midS, i)]
  <2>1. newW = newS
    BY <1>1, <1>4 DEF ShouldBeTop
  <2>2. a = [midW EXCEPT !.told = saysW]
    BY <1>4 DEF ModelAdds, TellAdded
  <2>3. b = [midS EXCEPT !.told = saysS]
    BY <2>1 DEF ModelAdds, TellAdded
  <2> HIDE DEF newW, newS, a, b, tops
  <2> DEFINE fields == {"folks", "members", "pop", "top", "tops", "watching", "told",
                        "interactions", "crashed"}
  <2>4. /\ midW.folks = folks /\ midW.told = told /\ midW.tops = tops /\ midW.top = manager.top
        /\ midW.pop = manager.pop /\ midW.interactions = manager.interactions
        /\ midW = [k \in fields |-> midW[k]]
    BY <1>1, <1>3, <1>4 DEF Handling
  <2>5. /\ midS.folks = folks /\ midS.told = told /\ midS.tops = tops /\ midS.top = manager.top
        /\ midS.pop = manager.pop /\ midS.interactions = manager.interactions
        /\ midS = [k \in fields |-> midS[k]]
    BY <1>1 DEF Handling
  <2> HIDE DEF midW, midS
  <2>6. saysW = saysS
    <3>1. \A i \in members : GroupsOf(midW, i) = GroupsOf(midS, i)
      BY <2>4, <2>5 DEF GroupsOf
    <3>2. midW.told = midS.told
      BY <2>4, <2>5
    <3> QED BY <3>1, <3>2
  <2> HIDE DEF saysW, saysS
  <2> QED BY <2>2, <2>3, <2>4, <2>5, <2>6
<1>6. w.watching /\ members \cap DOMAIN w.told = {} /\ DOMAIN w.told = {}
  BY <1>1, <1>4
<1>7. Fits(w) /\ Popular(w)
  BY <1>1, <1>2, <1>3, <1>4 DEF Fits, TopsTold, TopsIn, Popular
<1>8. /\ Fits(a) /\ Popular(a) /\ a.folks = w.folks /\ a.members = w.members
      /\ a.watching = w.watching /\ DOMAIN a.told = DOMAIN w.told \cup members
  <2> HIDE DEF w, members
  <2>1. members \in SUBSET Individuals
    BY <1>1
  <2> QED BY <1>6, <1>7, <2>1, MembersAdded
<1>9. /\ roster' = [watching |-> TRUE, tops |-> b.tops] /\ told' = b.told
      /\ UNCHANGED <<folks, manager, crashed>>
  BY DEF PopulateModel
<1> HIDE DEF a, b, w
<1>10. /\ a.folks = folks /\ a.members = members /\ a.watching = TRUE /\ DOMAIN a.told = members
  BY <1>4, <1>6, <1>8
<1>11. KnownTo(a) = KnownTo(State)
  BY <1>1, <1>10 DEF KnownTo
<1>12. Settled(a)
  BY <1>1, <1>2, <1>8, <1>10, <1>11 DEF Settled
<1> DEFINE n == [folks |-> folks, members |-> members, pop |-> manager.pop, top |-> manager.top,
                 tops |-> a.tops, watching |-> TRUE, told |-> a.told,
                 interactions |-> manager.interactions, crashed |-> FALSE]
<1>13. State' = n
  BY <1>5, <1>9 DEF State
<1>14. /\ n.folks = a.folks /\ n.members = a.members /\ n.watching = a.watching /\ n.told = a.told
       /\ n.tops = a.tops /\ n.top = a.top /\ n.pop = a.pop
  BY <1>5, <1>10
<1>15. a.tops \in Seq(Individuals) /\ n \in Handling
  <2>1. a \in Handling
    BY <1>12 DEF Settled, Fits
  <2>2. /\ a.folks \in [Individuals -> Details] /\ a.members \in SUBSET Individuals
        /\ a.pop \in Seq(Individuals) /\ a.top \in Seq(Individuals) /\ a.tops \in Seq(Individuals)
        /\ a.told \in Tellings /\ a.interactions \in Nat
    BY <2>1 DEF Handling
  <2> QED BY <1>5, <1>10, <2>2 DEF Handling
<1> HIDE DEF n
<1>16. KnownTo(n) = KnownTo(a)
  BY <1>14 DEF KnownTo
<1>17. Settled(n)
  BY <1>12, <1>14, <1>15, <1>16 DEF Settled, Fits, TopsTold, TopsIn, Popular
<1>18. Settled(State)'
  BY <1>13, <1>17 DEF Settled, Fits, Handling, TopsTold, TopsIn, Popular, KnownTo, OneOfEach
<1>19. /\ manager' \in [members : SUBSET Individuals, pop : Seq(Individuals), top : Seq(Individuals),
                        interactions : Nat, loaded : BOOLEAN]
       /\ roster' \in [watching : BOOLEAN, tops : Seq(Individuals)]
  BY <1>5, <1>9, <1>15 DEF RosterInv
<1> QED BY <1>18, <1>19 DEF RosterInv

LEMMA RosterStarts ==
  ASSUME RosterInit
  PROVE  RosterInv
<1> DEFINE none == [i \in {} |-> {}]
           empty == [folks |-> [i \in Individuals |-> NoIndividual], members |-> {}, pop |-> <<>>,
                     top |-> <<>>, tops |-> <<>>, watching |-> FALSE, told |-> none,
                     interactions |-> 0, crashed |-> FALSE]
<1>1. State = empty
  BY DEF RosterInit, State
<1>2. /\ [i \in Individuals |-> NoIndividual] \in [Individuals -> Details]
      /\ <<>> \in Seq(Individuals)
  BY DEF NoIndividual, Details
<1>3. none \in Tellings /\ DOMAIN none = {}
  <2>1. none \in [{} -> SUBSET {Group, "top", "nearby"}]
    OBVIOUS
  <2>2. {} \in SUBSET Individuals
    OBVIOUS
  <2> QED BY <2>1, <2>2 DEF Tellings
<1> HIDE DEF none
<1>4. empty \in Handling
  BY <1>2, <1>3 DEF Handling
<1>5. /\ empty.told = none /\ empty.members = {} /\ ~empty.watching /\ empty.top = <<>>
      /\ \A i \in Individuals : ~empty.folks[i].known
  BY DEF NoIndividual
<1> HIDE DEF empty
<1>6. Settled(empty)
  <2>1. \A i : ~Contains(empty.top, i)
    BY <1>5 DEF Contains
  <2> QED BY <1>3, <1>4, <1>5, <2>1
          DEF Settled, Fits, TopsTold, TopsIn, Popular, KnownTo, OneOfEach
<1> QED BY <1>1, <1>2, <1>6 DEF RosterInv, RosterInit

LEMMA RosterKeeps ==
  ASSUME RosterInv, [RosterNext]_rosterVars
  PROVE  RosterInv'
<1>1. ASSUME NEW out \in {{}} \cup {{i} : i \in Individuals},
             NEW in \in {{}} \cup {{i} : i \in Individuals}, AggregatorIndividualsChanged(out, in)
      PROVE  RosterInv'
  BY <1>1, AggregatorKeeps
<1>2. ASSUME NEW i \in Individuals, PersonasChanged(i) PROVE RosterInv'
  BY <1>2, PersonasKeep
<1>3. ASSUME NEW i \in Individuals, GroupChanged(i) PROVE RosterInv'
  BY <1>3, GroupKeeps
<1>4. ASSUME NEW i \in Individuals, FavouriteChanged(i) PROVE RosterInv'
  BY <1>4, FavouriteKeeps
<1>5. ASSUME NEW i \in Individuals, InteractionCountChanged(i) PROVE RosterInv'
  BY <1>5, InteractionKeeps
<1>6. ASSUME NEW i \in Individuals, PopularityExpires(i) PROVE RosterInv'
  BY <1>6, ExpiryKeeps
<1>7. CASE AggregatorIsQuiescent
  <2>1. /\ manager' = [manager EXCEPT !.loaded = TRUE]
        /\ UNCHANGED <<folks, roster, told, crashed>>
    BY <1>7 DEF AggregatorIsQuiescent
  <2>2. /\ manager' \in [members : SUBSET Individuals, pop : Seq(Individuals), top : Seq(Individuals),
                         interactions : Nat, loaded : BOOLEAN]
        /\ manager'.members = manager.members /\ manager'.pop = manager.pop
        /\ manager'.top = manager.top /\ manager'.interactions = manager.interactions
    BY <2>1 DEF RosterInv
  <2>3. State' = State
    BY <2>1, <2>2 DEF State
  <2> QED BY <2>1, <2>2, <2>3
          DEF RosterInv, Settled, Fits, Handling, TopsTold, TopsIn, Popular, KnownTo, OneOfEach
<1>8. CASE PopulateModel
  BY <1>8, PopulateKeeps
<1>9. CASE UNCHANGED rosterVars
  BY <1>9 DEF rosterVars, RosterInv, Settled, Fits, Handling, TopsTold, TopsIn, Popular,
              KnownTo, OneOfEach, State
<1> QED BY <1>1, <1>2, <1>3, <1>4, <1>5, <1>6, <1>7, <1>8, <1>9 DEF RosterNext

(* Whoever follows the signals of the model knows its individuals, their     *)
(* groups, and those of them who are among the most popular.                 *)
THEOREM ListenersAreTold == RosterSpec => []ListenersKnowTheModel
<1>1. RosterInit => RosterInv
  BY RosterStarts
<1>2. RosterInv /\ [RosterNext]_rosterVars => RosterInv'
  BY RosterKeeps
<1>3. RosterInv => ListenersKnowTheModel
  <2> SUFFICES ASSUME RosterInv PROVE ListenersKnowTheModel
    OBVIOUS
  <2>1. /\ State \in Handling /\ State.folks = folks /\ State.members = manager.members
        /\ State.pop = manager.pop /\ State.top = manager.top /\ State.tops = roster.tops
        /\ State.watching = roster.watching /\ State.told = told
        /\ roster.watching => DOMAIN told = manager.members
    BY StateIs
  <2>2. TopsTold(State) /\ TopsIn(State) /\ Popular(State)
    BY DEF RosterInv, Settled, Fits
  <2>3. ToSet(manager.top) \subseteq ToSet(manager.pop)
    <3>1. manager.top \in Seq(Individuals) /\ manager.pop \in Seq(Individuals)
      BY DEF RosterInv
    <3>2. \A i : Contains(manager.top, i) => Contains(manager.pop, i)
      BY <2>1, <2>2 DEF Popular
    <3> QED BY <3>1, <3>2, ContainsIsIn
  <2> QED BY <2>1, <2>2, <2>3 DEF ListenersKnowTheModel, TopsTold, TopsIn
<1> QED BY <1>1, <1>2, <1>3, PTL DEF RosterSpec

-----------------------------------------------------------------------------
(* The list.  What a handler of the list hands to the handlers it calls has  *)
(* these types.                                                              *)
Entries == [event : Events, current : BOOLEAN]

ViewTyped ==
  /\ model \in [members : SUBSET ToSet(Contacts),
                groups : [ToSet(Contacts) -> SUBSET ({"top"} \cup ToSet(Groups))],
                online : [ToSet(Contacts) -> BOOLEAN]]
  /\ window \in [page : {"list", "no match"}, idles : Nat]
  /\ view \in [contacts : SUBSET ToSet(Contacts), rows : SUBSET Rows,
               headers : SUBSET ToSet(AllGroups), collapsed : SUBSET ToSet(AllGroups),
               shown : SUBSET ToSet(AllGroups), displayed : SUBSET Rows, icons : SUBSET Rows,
               entries : Seq(Entries), flash : {"off", "icons next", "no icons next"},
               showGroups : BOOLEAN, showOffline : BOOLEAN, empty : BOOLEAN,
               search : {"hidden", "text"}, match : SUBSET ToSet(Contacts)]
  /\ pending \subseteq Events

Listed ==
  [members : SUBSET ToSet(Contacts),
   groups : [ToSet(Contacts) -> SUBSET ({"top"} \cup ToSet(Groups))],
   online : [ToSet(Contacts) -> BOOLEAN], page : {"list", "no match"}, idles : Nat,
   contacts : SUBSET ToSet(Contacts), rows : SUBSET Rows,
   headers : SUBSET ToSet(AllGroups), collapsed : SUBSET ToSet(AllGroups),
   shown : SUBSET ToSet(AllGroups), displayed : SUBSET Rows, icons : SUBSET Rows,
   entries : Seq(Entries), flash : {"off", "icons next", "no icons next"},
   showGroups : BOOLEAN, showOffline : BOOLEAN, empty : BOOLEAN,
   search : {"hidden", "text"}, match : SUBSET ToSet(Contacts)]

(* What becomes of it is the state again.                                    *)
LEMMA ViewStateTyped ==
  ASSUME ViewTyped
  PROVE  ViewState \in Listed
<1>1. /\ model.members \in SUBSET ToSet(Contacts) /\ model.online \in [ToSet(Contacts) -> BOOLEAN]
      /\ model.groups \in [ToSet(Contacts) -> SUBSET ({"top"} \cup ToSet(Groups))]
      /\ window.page \in {"list", "no match"} /\ window.idles \in Nat
  BY DEF ViewTyped
<1>2. /\ view.contacts \in SUBSET ToSet(Contacts) /\ view.rows \in SUBSET Rows
      /\ view.headers \in SUBSET ToSet(AllGroups) /\ view.collapsed \in SUBSET ToSet(AllGroups)
      /\ view.shown \in SUBSET ToSet(AllGroups) /\ view.displayed \in SUBSET Rows
      /\ view.icons \in SUBSET Rows /\ view.entries \in Seq(Entries)
      /\ view.flash \in {"off", "icons next", "no icons next"} /\ view.showGroups \in BOOLEAN
      /\ view.showOffline \in BOOLEAN /\ view.empty \in BOOLEAN
      /\ view.search \in {"hidden", "text"} /\ view.match \in SUBSET ToSet(Contacts)
  BY DEF ViewTyped
<1> DEFINE s == ViewState
<1>3. s = [f \in {"members", "groups", "online", "page", "idles", "contacts", "rows", "headers",
                  "collapsed", "shown", "displayed", "icons", "entries", "flash", "showGroups",
                  "showOffline", "empty", "search", "match"} |-> s[f]]
  BY DEF ViewState
<1>4. /\ s.members = model.members /\ s.groups = model.groups /\ s.online = model.online
      /\ s.page = window.page /\ s.idles = window.idles
      /\ s.contacts = view.contacts /\ s.rows = view.rows /\ s.headers = view.headers
      /\ s.collapsed = view.collapsed /\ s.shown = view.shown /\ s.displayed = view.displayed
      /\ s.icons = view.icons /\ s.entries = view.entries /\ s.flash = view.flash
      /\ s.showGroups = view.showGroups /\ s.showOffline = view.showOffline
      /\ s.empty = view.empty /\ s.search = view.search /\ s.match = view.match
  BY DEF ViewState
<1> HIDE DEF s
<1>5. s \in Listed
  BY <1>1, <1>2, <1>3, <1>4 DEF Listed
<1> QED BY <1>5 DEF s

LEMMA BecomesIt ==
  ASSUME ViewTyped, NEW v \in Listed, ViewBecomes(v), pending' \subseteq Events
  PROVE  ViewTyped' /\ ViewState' = v
<1> DEFINE now == [f \in DOMAIN view |-> v[f]]
           fields == {"contacts", "rows", "headers", "collapsed", "shown", "displayed", "icons",
                      "entries", "flash", "showGroups", "showOffline", "empty", "search", "match"}
<1>1. /\ model' = [members |-> v.members, groups |-> v.groups, online |-> v.online]
      /\ window' = [page |-> v.page, idles |-> v.idles] /\ view' = now
  BY DEF ViewBecomes
<1>2. DOMAIN view = fields
  BY DEF ViewTyped
<1>3. /\ now.contacts = v.contacts /\ now.rows = v.rows /\ now.headers = v.headers
      /\ now.collapsed = v.collapsed /\ now.shown = v.shown /\ now.displayed = v.displayed
      /\ now.icons = v.icons /\ now.entries = v.entries /\ now.flash = v.flash
      /\ now.showGroups = v.showGroups /\ now.showOffline = v.showOffline /\ now.empty = v.empty
      /\ now.search = v.search /\ now.match = v.match
      /\ now = [f \in fields |-> now[f]]
  BY <1>2
<1> HIDE DEF now
<1>4. /\ v.members \in SUBSET ToSet(Contacts) /\ v.online \in [ToSet(Contacts) -> BOOLEAN]
      /\ v.groups \in [ToSet(Contacts) -> SUBSET ({"top"} \cup ToSet(Groups))]
      /\ v.page \in {"list", "no match"} /\ v.idles \in Nat
  BY DEF Listed
<1>5. /\ v.contacts \in SUBSET ToSet(Contacts) /\ v.rows \in SUBSET Rows
      /\ v.headers \in SUBSET ToSet(AllGroups) /\ v.collapsed \in SUBSET ToSet(AllGroups)
      /\ v.shown \in SUBSET ToSet(AllGroups) /\ v.displayed \in SUBSET Rows
      /\ v.icons \in SUBSET Rows /\ v.entries \in Seq(Entries)
      /\ v.flash \in {"off", "icons next", "no icons next"} /\ v.showGroups \in BOOLEAN
      /\ v.showOffline \in BOOLEAN /\ v.empty \in BOOLEAN
      /\ v.search \in {"hidden", "text"} /\ v.match \in SUBSET ToSet(Contacts)
  BY DEF Listed
<1>6. /\ model' \in [members : SUBSET ToSet(Contacts),
                groups : [ToSet(Contacts) -> SUBSET ({"top"} \cup ToSet(Groups))],
                online : [ToSet(Contacts) -> BOOLEAN]]
      /\ window' \in [page : {"list", "no match"}, idles : Nat]
  BY <1>1, <1>4
<1>7. now \in [contacts : SUBSET ToSet(Contacts), rows : SUBSET Rows,
               headers : SUBSET ToSet(AllGroups), collapsed : SUBSET ToSet(AllGroups),
               shown : SUBSET ToSet(AllGroups), displayed : SUBSET Rows, icons : SUBSET Rows,
               entries : Seq(Entries), flash : {"off", "icons next", "no icons next"},
               showGroups : BOOLEAN, showOffline : BOOLEAN, empty : BOOLEAN,
               search : {"hidden", "text"}, match : SUBSET ToSet(Contacts)]
  BY <1>3, <1>5
<1>8. ViewTyped'
  BY <1>1, <1>6, <1>7 DEF ViewTyped
<1> DEFINE r == [members |-> v.members, groups |-> v.groups, online |-> v.online,
     page |-> v.page, idles |-> v.idles,
     contacts |-> v.contacts, rows |-> v.rows, headers |-> v.headers,
     collapsed |-> v.collapsed, shown |-> v.shown, displayed |-> v.displayed,
     icons |-> v.icons, entries |-> v.entries, flash |-> v.flash,
     showGroups |-> v.showGroups, showOffline |-> v.showOffline, empty |-> v.empty,
     search |-> v.search, match |-> v.match]
<1>9. ViewState' = r
  BY <1>1, <1>3 DEF ViewState
<1>10. v = r
  BY DEF Listed
<1> QED BY <1>8, <1>9, <1>10

LEMMA RowIs ==
  ASSUME NEW r \in Rows
  PROVE  /\ r[1] \in ToSet(Contacts) /\ r[2] \in ToSet(AllGroups) /\ r[3] \in {"row", "old"}
         /\ r = <<r[1], r[2], r[3]>> /\ <<r[1], r[2], "old">> \in Rows
<1>1. PICK i \in ToSet(Contacts), g \in ToSet(AllGroups), n \in {"row", "old"} : r = <<i, g, n>>
  BY DEF Rows
<1>2. r[1] = i /\ r[2] = g /\ r[3] = n
  BY <1>1
<1>3. <<i, g, "old">> \in Rows
  BY DEF Rows
<1> QED BY <1>1, <1>2, <1>3

LEMMA GroupsAre ==
  /\ ToSet(AllGroups) = {"none", "top", "ungrouped"} \cup ToSet(Groups)
  /\ ToSet(Groups) \cap {"top", "ungrouped", "none"} = {}
<1> DEFINE first == <<"none", "top">>
           front == first \o Groups
           back == <<"ungrouped">>
           S == {"none", "top", "ungrouped"} \cup ToSet(Groups)
<1>1. Groups \in Seq(S) /\ first \in Seq(S) /\ back \in Seq(S)
  BY RosterViewAssumption
<1>2. /\ \A e : Contains(front, e) <=> Contains(first, e) \/ Contains(Groups, e)
      /\ front \in Seq(S)
  <2> HIDE DEF first
  <2> QED BY <1>1, ConcatContains
<1>3. /\ \A e : Contains(AllGroups, e) <=> Contains(front, e) \/ Contains(back, e)
      /\ AllGroups \in Seq(S)
  <2> HIDE DEF front, back
  <2>1. AllGroups = front \o back
    BY DEF AllGroups, front, back
  <2> QED BY <1>1, <1>2, <2>1, ConcatContains
<1>4. \A e : Contains(first, e) <=> e \in {"none", "top"}
  BY DEF Contains
<1>5. \A e : Contains(back, e) <=> e = "ungrouped"
  BY DEF Contains
<1>6. \A e : /\ Contains(Groups, e) <=> e \in ToSet(Groups)
             /\ Contains(AllGroups, e) <=> e \in ToSet(AllGroups)
  BY <1>1, <1>3, ContainsIsIn
<1> QED BY <1>2, <1>3, <1>4, <1>5, <1>6, RosterViewAssumption

(* Filtering leaves the rest of the list alone.                              *)
SameList(w, v) ==
  /\ w.members = v.members /\ w.groups = v.groups /\ w.online = v.online
  /\ w.contacts = v.contacts /\ w.collapsed = v.collapsed /\ w.entries = v.entries
  /\ w.flash = v.flash /\ w.showGroups = v.showGroups /\ w.showOffline = v.showOffline
  /\ w.search = v.search /\ w.match = v.match

LEMMA SameFilter ==
  ASSUME NEW v, NEW w, SameList(w, v)
  PROVE  \A r : /\ ShouldBeDisplayed(w, r) <=> ShouldBeDisplayed(v, r)
                /\ Passes(w, r) <=> Passes(v, r)
BY DEF SameList, Passes, ShouldBeDisplayed, InTop, Searching

LEMMA SamePlace ==
  ASSUME NEW v, NEW r, NEW q, r[1] = q[1], r[2] = q[2]
  PROVE  Passes(v, r) <=> Passes(v, q)
BY DEF Passes, ShouldBeDisplayed, InTop

LEMMA EmptyUpdated ==
  ASSUME NEW v \in Listed, NEW e \in BOOLEAN
  PROVE  LET w == UpdateEmpty(v, e)
         IN  /\ w \in Listed /\ SameList(w, v) /\ w.rows = v.rows /\ w.headers = v.headers
             /\ w.shown = v.shown /\ w.displayed = v.displayed /\ w.icons = v.icons
             /\ w.empty = e
<1>1. v.empty \in BOOLEAN /\ v.page \in {"list", "no match"}
  BY DEF Listed
<1>a. v.idles \in Nat
  BY DEF Listed
<1>2. CASE v.empty = e
  BY <1>2 DEF UpdateEmpty, SameList
<1>3. CASE v.empty # e /\ e
  <2> DEFINE other == IF Searching(v) THEN "no match" ELSE v.page
             w == [v EXCEPT !.empty = TRUE, !.page = other]
  <2>1. UpdateEmpty(v, e) = w
    BY <1>3 DEF UpdateEmpty
  <2>2. other \in {"list", "no match"}
    BY <1>1
  <2> HIDE DEF other
  <2>3. w \in Listed
    BY <2>2 DEF Listed
  <2>4. /\ SameList(w, v) /\ w.rows = v.rows /\ w.headers = v.headers
        /\ w.shown = v.shown /\ w.displayed = v.displayed /\ w.icons = v.icons
        /\ w.empty = TRUE
    BY DEF Listed, SameList
  <2> HIDE DEF w
  <2> QED BY <1>3, <2>1, <2>3, <2>4
<1>4. CASE v.empty # e /\ ~e
  <2> DEFINE idles == v.idles + 1
             w == [v EXCEPT !.empty = FALSE, !.page = "list", !.idles = idles]
  <2>1. UpdateEmpty(v, e) = w
    BY <1>4 DEF UpdateEmpty
  <2>2. idles \in Nat
    BY <1>a
  <2> HIDE DEF idles
  <2>3. w \in Listed
    BY <2>2 DEF Listed
  <2>4. /\ SameList(w, v) /\ w.rows = v.rows /\ w.headers = v.headers
        /\ w.shown = v.shown /\ w.displayed = v.displayed /\ w.icons = v.icons
        /\ w.empty = FALSE
    BY DEF Listed, SameList
  <2> HIDE DEF w
  <2> QED BY <1>4, <2>1, <2>3, <2>4
<1> QED BY <1>1, <1>2, <1>3, <1>4

LEMMA GroupsFiltered ==
  ASSUME NEW v \in Listed, NEW groups
  PROVE  LET w == FilterGroups(v, groups)
         IN  /\ w \in Listed /\ SameList(w, v) /\ w.rows = v.rows /\ w.headers = v.headers
             /\ w.displayed = v.displayed /\ w.icons = v.icons /\ w.empty = v.empty
             /\ \A g : g \in w.shown <=>
                  IF g \in groups /\ g \in v.headers
                  THEN \E r \in v.rows : r[2] = g /\ ShouldBeDisplayed(v, r)
                  ELSE g \in v.shown
<1> DEFINE asked == groups \cap v.headers
           shows == {g \in asked : \E r \in v.rows : r[2] = g /\ ShouldBeDisplayed(v, r)}
           shown == (v.shown \ asked) \cup shows
           w == [v EXCEPT !.shown = shown]
<1>1. FilterGroups(v, groups) = w
  BY DEF FilterGroups
<1>2. shown \in SUBSET ToSet(AllGroups)
  BY DEF Listed
<1>3. \A g : g \in shown <=>
                IF g \in groups /\ g \in v.headers
                THEN \E r \in v.rows : r[2] = g /\ ShouldBeDisplayed(v, r)
                ELSE g \in v.shown
  OBVIOUS
<1> HIDE DEF shown
<1>4. w \in Listed
  BY <1>2 DEF Listed
<1>5. /\ SameList(w, v) /\ w.rows = v.rows /\ w.headers = v.headers
      /\ w.displayed = v.displayed /\ w.icons = v.icons /\ w.empty = v.empty /\ w.shown = shown
  BY DEF Listed, SameList
<1> HIDE DEF w
<1> QED BY <1>1, <1>3, <1>4, <1>5

Fresh(v, rows) ==
  UNION {Hashed(v, r[1]) :
           r \in {r \in rows : /\ Passes(v, r) /\ r \notin v.displayed
                               /\ v.showGroups /\ r[1] \in v.contacts}}

LEMMA RowsFiltered ==
  ASSUME NEW v \in Listed, NEW rows \in SUBSET v.rows
  PROVE  LET w == FilterRows(v, rows)
         IN  /\ w \in Listed /\ SameList(w, v) /\ w.rows = v.rows /\ w.headers = v.headers
             /\ w.icons = v.icons
             /\ w.displayed = (v.displayed \ rows) \cup {r \in rows : Passes(v, r)}
             /\ (v.empty <=> v.displayed = {}) => (w.empty <=> w.displayed = {})
             /\ \A g : g \in w.shown <=>
                  IF g \in Fresh(v, rows) /\ g \in v.headers
                  THEN \E r \in v.rows : r[2] = g /\ ShouldBeDisplayed(v, r)
                  ELSE g \in v.shown
<1> DEFINE pass == {r \in rows : Passes(v, r)}
           before == {r \in rows : \A p \in pass : Precedes(v, r, p)}
           fresh == {r \in pass \ v.displayed : v.showGroups /\ r[1] \in v.contacts}
           w == IF before # {} /\ v.displayed \subseteq before THEN UpdateEmpty(v, TRUE) ELSE v
           x == IF pass # {} THEN UpdateEmpty(w, FALSE) ELSE w
           displayed == (v.displayed \ rows) \cup pass
           y == [x EXCEPT !.displayed = displayed]
           groups == UNION {Hashed(v, r[1]) : r \in fresh}
           z == FilterGroups(y, groups)
<1>1. /\ w \in Listed /\ SameList(w, v) /\ w.rows = v.rows /\ w.headers = v.headers
      /\ w.shown = v.shown /\ w.displayed = v.displayed /\ w.icons = v.icons
      /\ w.empty = IF before # {} /\ v.displayed \subseteq before THEN TRUE ELSE v.empty
  <2> HIDE DEF before
  <2>1. CASE before # {} /\ v.displayed \subseteq before
    BY <2>1, EmptyUpdated
  <2>2. CASE ~(before # {} /\ v.displayed \subseteq before)
    BY <2>2 DEF SameList
  <2> QED BY <2>1, <2>2
<1> HIDE DEF w
<1>2. /\ x \in Listed /\ SameList(x, w) /\ x.rows = w.rows /\ x.headers = w.headers
      /\ x.shown = w.shown /\ x.displayed = w.displayed /\ x.icons = w.icons
      /\ x.empty = IF pass # {} THEN FALSE ELSE w.empty
  <2> HIDE DEF pass
  <2>1. CASE pass # {}
    BY <1>1, <2>1, EmptyUpdated
  <2>2. CASE pass = {}
    BY <1>1, <2>2 DEF SameList
  <2> QED BY <2>1, <2>2
<1> HIDE DEF x
<1>3. displayed \in SUBSET Rows
  BY DEF Listed
<1>4. FilterRows(v, rows) = z
  <2>1. x.displayed = v.displayed
    BY <1>1, <1>2
  <2> QED BY <2>1 DEF FilterRows, x, w
<1>5. (v.empty <=> v.displayed = {}) => (x.empty <=> displayed = {})
  <2> SUFFICES ASSUME v.empty <=> v.displayed = {} PROVE x.empty <=> displayed = {}
    OBVIOUS
  <2>1. CASE pass # {}
    BY <1>2, <2>1
  <2>2. CASE pass = {}
    <3>1. before = rows /\ x.empty = w.empty /\ displayed = v.displayed \ rows
      BY <1>2, <2>2
    <3> HIDE DEF before
    <3>2. CASE rows # {} /\ v.displayed \subseteq rows
      BY <1>1, <3>1, <3>2
    <3>3. CASE ~(rows # {} /\ v.displayed \subseteq rows)
      BY <1>1, <3>1, <3>3
    <3> QED BY <3>2, <3>3
  <2> QED BY <2>1, <2>2
<1>6. groups = Fresh(v, rows)
  <2>1. fresh = {r \in rows : /\ Passes(v, r) /\ r \notin v.displayed
                              /\ v.showGroups /\ r[1] \in v.contacts}
    OBVIOUS
  <2> HIDE DEF fresh
  <2> QED BY <2>1 DEF Fresh
<1> HIDE DEF displayed, groups
<1>7. y \in Listed
  BY <1>2, <1>3 DEF Listed
<1>8. /\ SameList(y, v) /\ y.rows = v.rows /\ y.headers = v.headers /\ y.icons = v.icons
      /\ y.shown = v.shown /\ y.displayed = displayed /\ y.empty = x.empty
  <2>1. /\ SameList(y, x) /\ y.rows = x.rows /\ y.headers = x.headers /\ y.icons = x.icons
        /\ y.shown = x.shown /\ y.displayed = displayed /\ y.empty = x.empty
    BY <1>2 DEF Listed, SameList
  <2> HIDE DEF y
  <2> QED BY <1>1, <1>2, <2>1 DEF SameList
<1> HIDE DEF y
<1>9. /\ z \in Listed /\ SameList(z, y) /\ z.rows = y.rows /\ z.headers = y.headers
      /\ z.displayed = y.displayed /\ z.icons = y.icons /\ z.empty = y.empty
      /\ \A g : g \in z.shown <=>
            IF g \in groups /\ g \in y.headers
            THEN \E r \in y.rows : r[2] = g /\ ShouldBeDisplayed(y, r)
            ELSE g \in y.shown
  BY <1>7, GroupsFiltered
<1>10. \A r : ShouldBeDisplayed(y, r) <=> ShouldBeDisplayed(v, r)
  BY <1>8, SameFilter
<1> HIDE DEF z
<1>11. SameList(z, v)
  BY <1>8, <1>9 DEF SameList
<1>12. \A g : g \in z.shown <=>
            IF g \in Fresh(v, rows) /\ g \in v.headers
            THEN \E r \in v.rows : r[2] = g /\ ShouldBeDisplayed(v, r)
            ELSE g \in v.shown
  BY <1>6, <1>8, <1>9, <1>10
<1> QED BY <1>4, <1>5, <1>8, <1>9, <1>11, <1>12 DEF displayed

(* What holds of the list between two handlers, and what a handler that has  *)
(* changed something restores by filtering the rows this may be about.       *)
Boxed(v) ==
  /\ v.displayed \subseteq v.rows /\ v.icons \subseteq v.rows
  /\ \A r \in v.rows : r[3] = "row" => /\ r[1] \in v.contacts
                                       /\ v.showGroups => r[2] \in v.headers

HeadersShow(v) ==
  v.showGroups => \A r \in v.displayed : r[3] = "row" => r[2] \in v.shown

Exact(v, r) ==
  v.showGroups \/ Searching(v) \/ v.showOffline \/ v.online[r[1]] => (r \in v.displayed <=> Passes(v, r))

Flashing(v) ==
  /\ v.flash = "off" <=> v.entries = <<>>
  /\ \A r \in v.icons : r[3] = "row" => \E n \in ToSet(v.entries) : EventOf[n.event] = r[1]

FilteredBut(v, rows) ==
  /\ v \in Listed /\ Boxed(v) /\ HeadersShow(v) /\ Flashing(v)
  /\ v.empty <=> v.displayed = {}
  /\ \A r \in v.rows \ rows : Exact(v, r)

Filtered(v) == FilteredBut(v, {})

LEMMA FilterKeeps ==
  ASSUME NEW v, NEW rows \in SUBSET v.rows, FilteredBut(v, rows)
  PROVE  LET w == FilterRows(v, rows)
         IN  /\ Filtered(w) /\ SameList(w, v) /\ w.rows = v.rows /\ w.headers = v.headers
<1> DEFINE w == FilterRows(v, rows)
<1>1. /\ w \in Listed /\ SameList(w, v) /\ w.rows = v.rows /\ w.headers = v.headers
      /\ w.icons = v.icons
      /\ w.displayed = (v.displayed \ rows) \cup {r \in rows : Passes(v, r)}
      /\ (v.empty <=> v.displayed = {}) => (w.empty <=> w.displayed = {})
      /\ \A g : g \in w.shown <=>
           IF g \in Fresh(v, rows) /\ g \in v.headers
           THEN \E r \in v.rows : r[2] = g /\ ShouldBeDisplayed(v, r)
           ELSE g \in v.shown
  BY RowsFiltered DEF FilteredBut
<1>2. \A r : Passes(w, r) <=> Passes(v, r)
  BY <1>1, SameFilter
<1> HIDE DEF w
<1>3. Boxed(w) /\ Flashing(w)
  BY <1>1 DEF FilteredBut, Boxed, Flashing, SameList
<1>4. ASSUME NEW r \in w.rows PROVE Exact(w, r)
  <2>1. CASE r \in rows
    BY <1>1, <1>2, <2>1 DEF Exact
  <2>2. CASE r \notin rows
    <3>1. Exact(v, r) /\ (r \in w.displayed <=> r \in v.displayed)
      BY <1>1, <2>2 DEF FilteredBut
    <3> QED BY <1>1, <1>2, <3>1 DEF Exact, SameList, Searching
  <2> QED BY <2>1, <2>2
<1>5. HeadersShow(w)
  <2> SUFFICES ASSUME v.showGroups, NEW r \in w.displayed, r[3] = "row" PROVE r[2] \in w.shown
    BY <1>1 DEF HeadersShow, SameList
  <2>1. r \in v.rows /\ Passes(v, r) /\ ShouldBeDisplayed(v, r)
    <3>1. r \in v.displayed \ rows => r \in v.rows /\ Exact(v, r)
      BY DEF FilteredBut, Boxed
    <3> QED BY <1>1, <3>1 DEF Exact, Passes
  <2>2. r[1] \in v.contacts /\ r[2] \in v.headers
    BY <2>1 DEF FilteredBut, Boxed
  <2>3. CASE r[2] \in Fresh(v, rows)
    BY <1>1, <2>1, <2>2, <2>3
  <2>4. CASE r[2] \notin Fresh(v, rows)
    <3>1. CASE r \in v.displayed
      <4>1. r[2] \in v.shown
        BY <3>1 DEF FilteredBut, HeadersShow
      <4> QED BY <1>1, <2>4, <4>1
    <3>2. CASE r \notin v.displayed
      <4>1. r \in rows
        BY <1>1, <3>2
      <4>2. r \in Rows
        BY <2>1 DEF FilteredBut, Listed
      <4>3. r = <<r[1], r[2], "row">> /\ r[2] \in ToSet(AllGroups)
        BY <4>2, RowIs
      <4>4. r[2] \in Hashed(v, r[1])
        BY <2>1, <4>3 DEF Hashed
      <4> QED BY <2>1, <2>2, <2>4, <3>2, <4>1, <4>4 DEF Fresh
    <3> QED BY <3>1, <3>2
  <2> QED BY <2>3, <2>4
<1>6. w.empty <=> w.displayed = {}
  BY <1>1 DEF FilteredBut
<1> QED BY <1>1, <1>3, <1>4, <1>5, <1>6 DEF Filtered, FilteredBut, w

LEMMA GroupsKeep ==
  ASSUME NEW v, Filtered(v), NEW groups
  PROVE  LET w == FilterGroups(v, groups)
         IN  /\ Filtered(w) /\ SameList(w, v) /\ w.rows = v.rows /\ w.headers = v.headers
<1> DEFINE w == FilterGroups(v, groups)
<1>1. /\ w \in Listed /\ SameList(w, v) /\ w.rows = v.rows /\ w.headers = v.headers
      /\ w.displayed = v.displayed /\ w.icons = v.icons /\ w.empty = v.empty
      /\ \A g : g \in w.shown <=>
           IF g \in groups /\ g \in v.headers
           THEN \E r \in v.rows : r[2] = g /\ ShouldBeDisplayed(v, r)
           ELSE g \in v.shown
  BY GroupsFiltered DEF Filtered, FilteredBut
<1>2. \A r : Passes(w, r) <=> Passes(v, r)
  BY <1>1, SameFilter
<1> HIDE DEF w
<1>3. Boxed(w) /\ Flashing(w) /\ (w.empty <=> w.displayed = {})
  BY <1>1 DEF Filtered, FilteredBut, Boxed, Flashing, SameList
<1>4. ASSUME NEW r \in w.rows PROVE Exact(w, r)
  <2>1. Exact(v, r) /\ (r \in w.displayed <=> r \in v.displayed)
    BY <1>1 DEF Filtered, FilteredBut
  <2> QED BY <1>1, <1>2, <2>1 DEF Exact, SameList, Searching
<1>5. HeadersShow(w)
  <2> SUFFICES ASSUME v.showGroups, NEW r \in w.displayed, r[3] = "row" PROVE r[2] \in w.shown
    BY <1>1 DEF HeadersShow, SameList
  <2>1. r \in v.rows /\ Exact(v, r) /\ r \in v.displayed /\ r[2] \in v.shown
    BY <1>1 DEF Filtered, FilteredBut, Boxed, HeadersShow
  <2>2. ShouldBeDisplayed(v, r)
    BY <2>1 DEF Exact, Passes
  <2> QED BY <1>1, <2>1, <2>2
<1> QED BY <1>1, <1>3, <1>4, <1>5 DEF Filtered, FilteredBut, w

(* Rows come.                                                                *)
LEMMA RowsAdded ==
  ASSUME NEW v, Filtered(v), NEW rows \in SUBSET Rows,
         \A r \in rows : r[3] = "row" /\ r[1] \in v.contacts /\ (v.showGroups => r[2] # "none")
  PROVE  LET w == AddRows(v, rows)
         IN  /\ Filtered(w) /\ SameList(w, v)
             /\ \A i \in ToSet(Contacts), g \in ToSet(AllGroups) :
                   <<i, g, "row">> \in w.rows <=> <<i, g, "row">> \in v.rows \/ <<i, g, "row">> \in rows
<1> DEFINE groups == {r[2] : r \in rows}
           headers == v.headers \cup (groups \ {"none"})
           box == Retire(v.rows, rows) \cup rows
           displayed == Retire(v.displayed, rows)
           icons == Retire(v.icons, rows)
           w == [v EXCEPT !.headers = headers, !.rows = box, !.displayed = displayed, !.icons = icons]
           x == FilterRows(w, rows)
           y == FilterGroups(x, groups)
<1>1. /\ v \in Listed /\ Boxed(v) /\ HeadersShow(v) /\ Flashing(v)
      /\ v.empty <=> v.displayed = {}
      /\ \A r \in v.rows : Exact(v, r)
      /\ v.rows \in SUBSET Rows /\ v.displayed \in SUBSET Rows /\ v.icons \in SUBSET Rows
      /\ v.headers \in SUBSET ToSet(AllGroups)
  BY DEF Filtered, FilteredBut, Listed
<1>2. AddRows(v, rows) = y
  BY DEF AddRows
<1>3. /\ \A S \in SUBSET Rows : Retire(S, rows) \in SUBSET Rows
      /\ \A S, T \in SUBSET Rows : S \subseteq T => Retire(S, rows) \subseteq Retire(T, rows)
      /\ \A S \in SUBSET Rows : \A r \in Retire(S, rows) : r[3] = "row" => r \in S \ rows
      /\ \A S \in SUBSET Rows : S \ rows \subseteq Retire(S, rows)
      /\ \A S \in SUBSET Rows : Retire(S, rows) = {} <=> S = {}
  <2> DEFINE Old(r) == <<r[1], r[2], "old">>
  <2>1. \A S : Retire(S, rows) = (S \ rows) \cup {Old(r) : r \in S \cap rows}
    BY DEF Retire
  <2>2. \A r \in Rows : Old(r) \in Rows /\ Old(r)[3] # "row"
    BY RowIs
  <2> HIDE DEF Old
  <2>3. \A S \in SUBSET Rows : Retire(S, rows) \in SUBSET Rows
    BY <2>1, <2>2
  <2>4. \A S, T \in SUBSET Rows : S \subseteq T => Retire(S, rows) \subseteq Retire(T, rows)
    BY <2>1
  <2>5. \A S \in SUBSET Rows : \A r \in Retire(S, rows) : r[3] = "row" => r \in S \ rows
    BY <2>1, <2>2
  <2>6. \A S \in SUBSET Rows : Retire(S, rows) = {} <=> S = {}
    <3> SUFFICES ASSUME NEW S \in SUBSET Rows PROVE Retire(S, rows) = {} <=> S = {}
      OBVIOUS
    <3>1. \A r \in S : r \in Retire(S, rows) \/ Old(r) \in Retire(S, rows)
      BY <2>1
    <3>2. S = {} => Retire(S, rows) = {}
      BY <2>1
    <3> QED BY <3>1, <3>2
  <2> QED BY <2>1, <2>3, <2>4, <2>5, <2>6
<1>4. groups \subseteq ToSet(AllGroups)
  BY RowIs
<1>5. \A q \in box : q[3] = "row" => q[1] \in v.contacts /\ (v.showGroups => q[2] \in headers)
  <2> SUFFICES ASSUME NEW q \in box, q[3] = "row"
               PROVE  q[1] \in v.contacts /\ (v.showGroups => q[2] \in headers)
    OBVIOUS
  <2>1. CASE q \in rows
    BY <2>1
  <2>2. CASE q \notin rows
    <3>1. q \in v.rows
      BY <1>1, <1>3, <2>2
    <3> QED BY <1>1, <3>1 DEF Boxed
  <2> QED BY <2>1, <2>2
<1>6. /\ box \in SUBSET Rows /\ displayed \in SUBSET Rows /\ icons \in SUBSET Rows
      /\ headers \in SUBSET ToSet(AllGroups) /\ rows \in SUBSET box
      /\ displayed \subseteq box /\ icons \subseteq box
      /\ displayed = {} <=> v.displayed = {}
      /\ \A q \in displayed : q[3] = "row" => q \in v.displayed
      /\ \A q \in icons : q[3] = "row" => q \in v.icons
  BY <1>1, <1>3, <1>4 DEF Boxed
<1>7. \A q \in box \ rows : Exact(v, q) \/ q \notin v.rows
  BY <1>1
<1>8. ASSUME NEW q \in box \ rows,
             v.showGroups \/ Searching(v) \/ v.showOffline \/ v.online[q[1]]
      PROVE  q \in displayed <=> Passes(v, q)
  <2>1. q \in v.rows \ rows \/ \E r \in v.rows \cap rows : q = <<r[1], r[2], "old">>
    BY DEF Retire
  <2>2. q \in displayed <=> \/ q \in v.displayed \ rows
                            \/ \E r \in v.displayed \cap rows : q = <<r[1], r[2], "old">>
    BY DEF Retire
  <2>3. ASSUME NEW r \in v.rows \cap rows, q = <<r[1], r[2], "old">>
        PROVE  r \in v.displayed <=> Passes(v, q)
    <3>1. q[1] = r[1] /\ q[2] = r[2]
      BY <2>3
    <3>2. Passes(v, q) <=> Passes(v, r)
      BY <3>1, SamePlace
    <3>3. Exact(v, r)
      BY <1>1
    <3> QED BY <1>8, <3>1, <3>2, <3>3 DEF Exact
  <2>4. q \in v.rows => (q \in v.displayed <=> Passes(v, q))
    BY <1>1, <1>8 DEF Exact
  <2>5. v.displayed \subseteq v.rows
    BY <1>1 DEF Boxed
  <2> QED BY <2>1, <2>2, <2>3, <2>4, <2>5
<1>9. \A i \in ToSet(Contacts), g \in ToSet(AllGroups) :
        <<i, g, "row">> \in box <=> <<i, g, "row">> \in v.rows \/ <<i, g, "row">> \in rows
  <2>1. \A i, g : <<i, g, "row">>[3] = "row"
    OBVIOUS
  <2> QED BY <1>1, <1>3, <2>1
<1> HIDE DEF headers, box, displayed, icons, groups
<1>10. w \in Listed
  BY <1>1, <1>6 DEF Listed
<1>11. /\ SameList(w, v) /\ w.rows = box /\ w.headers = headers /\ w.icons = icons
       /\ w.displayed = displayed /\ w.empty = v.empty /\ w.shown = v.shown
  BY <1>1 DEF Listed, SameList
<1> HIDE DEF w
<1>12. \A r : Passes(w, r) <=> Passes(v, r)
  BY <1>11, SameFilter
<1>13. Boxed(w)
  BY <1>5, <1>6, <1>11 DEF Boxed, SameList
<1>14. HeadersShow(w) /\ Flashing(w)
  BY <1>1, <1>6, <1>11 DEF HeadersShow, Flashing, SameList
<1>15. \A r \in w.rows \ rows : Exact(w, r)
  BY <1>8, <1>11, <1>12 DEF Exact, SameList, Searching
<1>16. FilteredBut(w, rows) /\ rows \in SUBSET w.rows
  BY <1>1, <1>6, <1>10, <1>11, <1>13, <1>14, <1>15 DEF FilteredBut
<1>17. Filtered(x) /\ SameList(x, w) /\ x.rows = w.rows /\ x.headers = w.headers
  BY <1>16, FilterKeeps
<1> HIDE DEF x
<1>18. Filtered(y) /\ SameList(y, x) /\ y.rows = x.rows
  BY <1>17, GroupsKeep
<1> HIDE DEF y
<1>19. SameList(y, v)
  BY <1>11, <1>17, <1>18 DEF SameList
<1> QED BY <1>2, <1>9, <1>11, <1>17, <1>18, <1>19

(* Rows go.                                                                  *)
LEMMA RowsRemoved ==
  ASSUME NEW v, Filtered(v), NEW rows
  PROVE  LET w == RemoveRows(v, rows)
         IN  /\ Filtered(w) /\ SameList(w, v) /\ w.rows = v.rows \ rows
             /\ w.icons = v.icons \ rows
<1> DEFINE groups == {r[2] : r \in rows}
           box == v.rows \ rows
           icons == v.icons \ rows
           w == [v EXCEPT !.rows = box, !.icons = icons]
           x == FilterGroups(w, groups)
           displayed == x.displayed \ rows
           y == [x EXCEPT !.displayed = displayed]
           z == IF y.displayed = {} THEN UpdateEmpty(y, TRUE) ELSE y
<1>1. /\ v \in Listed /\ Boxed(v) /\ HeadersShow(v) /\ Flashing(v)
      /\ v.empty <=> v.displayed = {}
      /\ \A r \in v.rows : Exact(v, r)
      /\ v.rows \in SUBSET Rows /\ v.displayed \in SUBSET Rows /\ v.icons \in SUBSET Rows
  BY DEF Filtered, FilteredBut, Listed
<1>2. RemoveRows(v, rows) = z
  BY DEF RemoveRows
<1>3. box \in SUBSET Rows /\ icons \in SUBSET Rows
  BY <1>1
<1> HIDE DEF groups, box, icons
<1>4. w \in Listed
  BY <1>1, <1>3 DEF Listed
<1>5. /\ SameList(w, v) /\ w.rows = box /\ w.headers = v.headers /\ w.icons = icons
      /\ w.displayed = v.displayed /\ w.empty = v.empty /\ w.shown = v.shown
  BY <1>1 DEF Listed, SameList
<1> HIDE DEF w
<1>6. /\ x \in Listed /\ SameList(x, w) /\ x.rows = w.rows /\ x.headers = w.headers
      /\ x.displayed = w.displayed /\ x.icons = w.icons /\ x.empty = w.empty
      /\ \A g : g \in x.shown <=>
           IF g \in groups /\ g \in w.headers
           THEN \E r \in w.rows : r[2] = g /\ ShouldBeDisplayed(w, r)
           ELSE g \in w.shown
  BY <1>4, GroupsFiltered
<1> HIDE DEF x
<1>7. displayed \in SUBSET Rows /\ displayed = v.displayed \ rows
  BY <1>1, <1>5, <1>6
<1> HIDE DEF displayed
<1>8. y \in Listed
  BY <1>6, <1>7 DEF Listed
<1>9. /\ SameList(y, x) /\ y.rows = x.rows /\ y.headers = x.headers /\ y.icons = x.icons
      /\ y.displayed = displayed /\ y.empty = x.empty /\ y.shown = x.shown
  BY <1>6 DEF Listed, SameList
<1> HIDE DEF y
<1>10. /\ z \in Listed /\ SameList(z, y) /\ z.rows = y.rows /\ z.headers = y.headers
       /\ z.icons = y.icons /\ z.displayed = y.displayed /\ z.shown = y.shown
       /\ z.empty = IF y.displayed = {} THEN TRUE ELSE y.empty
  <2>1. CASE y.displayed = {}
    BY <1>8, <2>1, EmptyUpdated
  <2>2. CASE y.displayed # {}
    BY <1>8, <2>2 DEF SameList
  <2> QED BY <2>1, <2>2
<1> HIDE DEF z
<1>11. /\ SameList(z, v) /\ z.rows = v.rows \ rows /\ z.headers = v.headers
       /\ z.icons = v.icons \ rows /\ z.displayed = v.displayed \ rows /\ z.shown = x.shown
       /\ z.empty = IF z.displayed = {} THEN TRUE ELSE v.empty
  BY <1>5, <1>6, <1>7, <1>9, <1>10 DEF SameList, box, icons
<1>12. z.empty <=> z.displayed = {}
  BY <1>1, <1>11
<1>13. \A r : /\ Passes(z, r) <=> Passes(v, r)
              /\ ShouldBeDisplayed(w, r) <=> ShouldBeDisplayed(v, r)
  BY <1>5, <1>11, SameFilter
<1>14. Boxed(z) /\ Flashing(z)
  BY <1>1, <1>11 DEF Boxed, Flashing, SameList
<1>15. ASSUME NEW r \in z.rows PROVE Exact(z, r)
  <2>1. Exact(v, r) /\ (r \in z.displayed <=> r \in v.displayed)
    BY <1>1, <1>11
  <2> QED BY <1>11, <1>13, <2>1 DEF Exact, SameList, Searching
<1>16. HeadersShow(z)
  <2> SUFFICES ASSUME v.showGroups, NEW r \in z.displayed, r[3] = "row" PROVE r[2] \in z.shown
    BY <1>11 DEF HeadersShow, SameList
  <2>1. r \in v.displayed /\ r \in v.rows /\ r \in w.rows /\ Exact(v, r) /\ r[2] \in v.shown
    BY <1>1, <1>5, <1>11 DEF Boxed, HeadersShow, box
  <2>2. ShouldBeDisplayed(v, r)
    BY <2>1 DEF Exact, Passes
  <2> QED BY <1>5, <1>6, <1>11, <1>13, <2>1, <2>2
<1> QED BY <1>2, <1>10, <1>11, <1>12, <1>14, <1>15, <1>16 DEF Filtered, FilteredBut

(* Each individual shown has the rows it should have.                        *)
HashedRight(v, i) ==
  LET rows == Hashed(v, i)
  IN  IF v.showGroups
      THEN rows # {} /\ rows \cap ToSet(Groups) = v.groups[i] \cap ToSet(Groups)
      ELSE rows = {"none"}

InGroups(v) == v.contacts = v.members /\ \A i \in v.contacts : HashedRight(v, i)

ViewInv == ViewTyped /\ Filtered(ViewState) /\ InGroups(ViewState)

LEMMA HashedIs ==
  ASSUME NEW v, NEW i, NEW g
  PROVE  g \in Hashed(v, i) <=> g \in ToSet(AllGroups) /\ <<i, g, "row">> \in v.rows
BY DEF Hashed

LEMMA OthersRight ==
  ASSUME NEW v, NEW w, NEW i, HashedRight(v, i), w.showGroups = v.showGroups,
         w.groups[i] = v.groups[i], Hashed(w, i) = Hashed(v, i)
  PROVE  HashedRight(w, i)
BY DEF HashedRight

LEMMA SettlesThere ==
  ASSUME NEW v, Filtered(v), InGroups(v), ViewTyped', ViewState' = v
  PROVE  ViewInv'
<1>1. Filtered(ViewState') /\ InGroups(ViewState')
  OBVIOUS
<1>2. Filtered(ViewState)'
  BY <1>1 DEF Filtered, FilteredBut, Listed, Boxed, HeadersShow, Flashing, Exact, Passes,
              ShouldBeDisplayed, InTop, Searching
<1>3. InGroups(ViewState)'
  BY <1>1 DEF InGroups, HashedRight, Hashed
<1> QED BY <1>2, <1>3 DEF ViewInv

LEMMA Settles ==
  ASSUME ViewInv, NEW v, Filtered(v), InGroups(v), ViewBecomes(v), pending' \subseteq Events
  PROVE  ViewInv'
<1>1. v \in Listed
  BY DEF Filtered, FilteredBut
<1>2. ViewTyped' /\ ViewState' = v
  BY <1>1, BecomesIt DEF ViewInv
<1> QED BY <1>2, SettlesThere

(* The filter is asked again: about all rows, about those of a contact whose *)
(* presence changes, or of a group that is folded.                           *)
LEMMA RefilterSettles ==
  ASSUME ViewInv, NEW v, NEW rows \in SUBSET v.rows, FilteredBut(v, rows), InGroups(v)
  PROVE  LET w == FilterRows(v, rows) IN Filtered(w) /\ InGroups(w) /\ SameList(w, v)
                                         /\ w.headers = v.headers /\ w.rows = v.rows
<1> DEFINE w == FilterRows(v, rows)
<1>1. Filtered(w) /\ SameList(w, v) /\ w.rows = v.rows /\ w.headers = v.headers
  BY FilterKeeps
<1> HIDE DEF w
<1>2. InGroups(w)
  BY <1>1 DEF InGroups, HashedRight, Hashed, SameList
<1> QED BY <1>1, <1>2 DEF w

(* Individuals come, each with a row in each of its groups.                  *)
LEMMA IndividualsCome ==
  ASSUME NEW v, Filtered(v), NEW added \in SUBSET ToSet(Contacts),
         \A i \in v.contacts : HashedRight(v, i)
  PROVE  LET w == IndividualsAdded(v, added)
         IN  /\ Filtered(w) /\ w.members = v.members /\ w.contacts = v.contacts \cup added
             /\ \A i \in w.contacts : HashedRight(w, i)
<1> DEFINE new == added \ v.contacts
           contacts == v.contacts \cup new
           u == [v EXCEPT !.contacts = contacts]
           rows == UNION {{<<i, g, "row">> : g \in GroupsShown(v, i)} : i \in new}
           w == AddRows(u, rows)
<1>1. /\ v \in Listed /\ Boxed(v) /\ HeadersShow(v) /\ Flashing(v)
      /\ v.empty <=> v.displayed = {}
      /\ \A r \in v.rows : Exact(v, r)
      /\ v.rows \in SUBSET Rows /\ v.contacts \in SUBSET ToSet(Contacts)
      /\ v.groups \in [ToSet(Contacts) -> SUBSET ({"top"} \cup ToSet(Groups))]
      /\ v.showGroups \in BOOLEAN
  BY DEF Filtered, FilteredBut, Listed
<1>2. IndividualsAdded(v, added) = w
  BY DEF IndividualsAdded
<1>3. contacts \in SUBSET ToSet(Contacts) /\ contacts = v.contacts \cup added
  BY <1>1
<1>4. \A i \in new : /\ i \in contacts /\ i \in ToSet(Contacts)
                     /\ GroupsShown(v, i) \subseteq ToSet(AllGroups)
                     /\ v.showGroups => "none" \notin GroupsShown(v, i)
  BY <1>1, GroupsAre DEF GroupsShown
<1>5. /\ rows \in SUBSET Rows
      /\ \A r \in rows : r[3] = "row" /\ r[1] \in contacts /\ (v.showGroups => r[2] # "none")
      /\ \A i, g : <<i, g, "row">> \in rows <=> i \in new /\ g \in GroupsShown(v, i)
  <2>1. \A r : r \in rows <=> \E i \in new : \E g \in GroupsShown(v, i) : r = <<i, g, "row">>
    OBVIOUS
  <2> HIDE DEF rows, new, contacts
  <2>2. \A i, g : <<i, g, "row">> \in rows <=> i \in new /\ g \in GroupsShown(v, i)
    BY <2>1
  <2>3. ASSUME NEW r \in rows
        PROVE  r \in Rows /\ r[3] = "row" /\ r[1] \in contacts /\ (v.showGroups => r[2] # "none")
    <3>1. PICK i \in new : \E g \in GroupsShown(v, i) : r = <<i, g, "row">>
      BY <2>1
    <3>2. PICK g \in GroupsShown(v, i) : r = <<i, g, "row">>
      BY <3>1
    <3>3. i \in ToSet(Contacts) /\ g \in ToSet(AllGroups)
      BY <1>4
    <3>4. r[1] = i /\ r[2] = g /\ r[3] = "row"
      BY <3>2
    <3>5. r \in Rows
      BY <3>2, <3>3 DEF Rows
    <3> QED BY <1>4, <3>4, <3>5
  <2> QED BY <2>2, <2>3
<1> HIDE DEF rows, contacts
<1>6. u \in Listed
  BY <1>1, <1>3 DEF Listed
<1>7. /\ u.members = v.members /\ u.groups = v.groups /\ u.online = v.online
      /\ u.collapsed = v.collapsed /\ u.entries = v.entries /\ u.flash = v.flash
      /\ u.showGroups = v.showGroups /\ u.showOffline = v.showOffline
      /\ u.search = v.search /\ u.match = v.match
      /\ u.contacts = contacts /\ u.rows = v.rows /\ u.headers = v.headers /\ u.shown = v.shown
      /\ u.displayed = v.displayed /\ u.icons = v.icons /\ u.empty = v.empty
  BY <1>1 DEF Listed
<1> HIDE DEF u
<1>8. Filtered(u)
  <2>1. Boxed(u) /\ HeadersShow(u) /\ Flashing(u) /\ (u.empty <=> u.displayed = {})
    BY <1>1, <1>3, <1>7 DEF Boxed, HeadersShow, Flashing
  <2>2. \A r \in u.rows : Exact(u, r)
    BY <1>1, <1>7 DEF Exact, Searching, Passes, ShouldBeDisplayed, InTop
  <2> QED BY <1>6, <2>1, <2>2 DEF Filtered, FilteredBut
<1>9. /\ Filtered(w) /\ SameList(w, u)
      /\ \A i \in ToSet(Contacts), g \in ToSet(AllGroups) :
            <<i, g, "row">> \in w.rows <=> <<i, g, "row">> \in u.rows \/ <<i, g, "row">> \in rows
  BY <1>5, <1>7, <1>8, RowsAdded
<1> HIDE DEF w
<1>10. ASSUME NEW i \in contacts PROVE HashedRight(w, i)
  <2>1. i \in ToSet(Contacts)
    BY <1>3
  <2>2. w.showGroups = v.showGroups /\ w.groups = v.groups
    BY <1>7, <1>9 DEF SameList
  <2>3. \A g : g \in Hashed(w, i) <=> \/ g \in Hashed(v, i)
                                      \/ i \in new /\ g \in GroupsShown(v, i)
    BY <1>4, <1>5, <1>7, <1>9, <2>1, HashedIs
  <2>4. CASE i \in new
    <3>1. \A g : g \notin Hashed(v, i)
      <4>1. \A g : <<i, g, "row">>[1] = i /\ <<i, g, "row">>[3] = "row"
        OBVIOUS
      <4> QED BY <1>1, <2>4, <4>1, HashedIs DEF Boxed
    <3>2. Hashed(w, i) = GroupsShown(v, i)
      BY <2>3, <2>4, <3>1
    <3>3. v.groups[i] \subseteq {"top"} \cup ToSet(Groups)
      BY <1>1, <2>1
    <3> QED BY <2>2, <3>2, <3>3, GroupsAre DEF HashedRight, GroupsShown
  <2>5. CASE i \notin new
    <3>1. i \in v.contacts
      BY <2>5 DEF contacts
    <3>2. Hashed(w, i) = Hashed(v, i)
      BY <2>3, <2>5
    <3> QED BY <2>2, <3>1, <3>2, OthersRight
  <2> QED BY <2>4, <2>5
<1>11. w.members = v.members /\ w.contacts = contacts
  BY <1>7, <1>9 DEF SameList
<1> QED BY <1>2, <1>3, <1>9, <1>10, <1>11

(* An entry of the queue goes, and the icons of its contact with it.         *)
EntriesOf(v, chosen, i) ==
  chosen \subseteq DOMAIN v.entries /\ \A k \in chosen : EventOf[v.entries[k].event] = i

LEMMA EntryGoes ==
  ASSUME NEW v, Filtered(v), NEW i, NEW chosen, EntriesOf(v, chosen, i)
  PROVE  LET w == FirstEntry(v, chosen)
         IN  /\ Filtered(w) /\ w.rows = v.rows /\ w.contacts = v.contacts
             /\ w.members = v.members /\ w.groups = v.groups /\ w.showGroups = v.showGroups
<1>1. /\ v \in Listed /\ Boxed(v) /\ HeadersShow(v) /\ Flashing(v)
      /\ v.empty <=> v.displayed = {}
      /\ \A r \in v.rows : Exact(v, r)
      /\ v.rows \in SUBSET Rows /\ v.icons \in SUBSET Rows
      /\ v.entries \in Seq(Entries)
  BY DEF Filtered, FilteredBut, Listed
<1>2. CASE chosen = {}
  BY <1>2 DEF FirstEntry
<1>3. CASE chosen # {}
  <2> DEFINE k == Min(chosen)
             icons == v.icons \ (IF i \in v.contacts THEN RowsOf(v, i) ELSE {})
             entries == RemoveAt(v.entries, k)
             flash == IF entries = <<>> THEN "off" ELSE v.flash
             x == [v EXCEPT !.icons = icons]
             y == [x EXCEPT !.entries = entries]
             z == [y EXCEPT !.flash = "off"]
             w == IF y.entries = <<>> THEN z ELSE y
             n == Len(v.entries)
  <2>1. k \in chosen /\ k \in 1..n /\ EventOf[v.entries[k].event] = i
    <3>1. \A j \in chosen : j \in Nat /\ j \in 1..n
      BY <1>1 DEF EntriesOf
    <3>2. k \in chosen
      BY <1>3, <3>1, MinOf
    <3> QED BY <3>1, <3>2 DEF EntriesOf
  <2>2. FirstEntry(v, chosen) = w
    <3>1. x = Unflash(v, EventOf[v.entries[k].event]) /\ FirstEntry(v, chosen) = RemoveEntry(v, k)
      BY <1>3, <2>1 DEF FirstEntry, Unflash
    <3> HIDE DEF k, icons
    <3>2. x.entries = v.entries
      BY <1>1 DEF Listed
    <3> HIDE DEF x
    <3>3. y = [x EXCEPT !.entries = RemoveAt(@, k)]
      BY <3>2
    <3> HIDE DEF y
    <3> QED BY <3>1, <3>3 DEF RemoveEntry
  <2>3. /\ n \in Nat /\ entries \in Seq(Entries) /\ Len(entries) = n - 1
        /\ \A j \in 1..(n - 1) : entries[j] = IF j < k THEN v.entries[j] ELSE v.entries[j + 1]
    <3>1. n \in Nat /\ v.entries \in Seq(Entries) /\ k \in 1..Len(v.entries)
      BY <1>1, <2>1
    <3> HIDE DEF k
    <3> QED BY <3>1, RemoveAtShape, Zenon DEF n
  <2>4. icons \in SUBSET Rows /\ icons \subseteq v.icons
    BY <1>1
  <2>5. \A r \in icons : r[3] = "row" => \E m \in ToSet(entries) : EventOf[m.event] = r[1]
    <3> SUFFICES ASSUME NEW r \in icons, r[3] = "row"
                 PROVE  \E m \in ToSet(entries) : EventOf[m.event] = r[1]
      OBVIOUS
    <3>1. r \in v.icons /\ r \in v.rows /\ r \in Rows /\ r[1] \in v.contacts
      BY <1>1, <2>4 DEF Boxed
    <3>2. PICK j \in 1..n : EventOf[v.entries[j].event] = r[1]
      BY <1>1, <3>1 DEF Flashing, ToSet
    <3>3. r[1] # i
      <4> SUFFICES ASSUME r[1] = i PROVE FALSE
        OBVIOUS
      <4>1. r = <<i, r[2], "row">> /\ r[2] \in ToSet(AllGroups)
        BY <3>1, RowIs
      <4>2. r \in RowsOf(v, i)
        BY <3>1, <4>1 DEF RowsOf, Hashed
      <4> QED BY <3>1, <4>2
    <3>4. j # k
      BY <2>1, <3>2, <3>3
    <3> HIDE DEF entries, k
    <3>5. \E m \in 1..(n - 1) : entries[m] = v.entries[j]
      <4>1. CASE j < k
        <5>1. j \in 1..(n - 1)
          BY <2>1, <2>3, <4>1
        <5> QED BY <2>3, <4>1, <5>1
      <4>2. CASE ~(j < k)
        <5>1. j - 1 \in 1..(n - 1) /\ ~(j - 1 < k) /\ (j - 1) + 1 = j
          BY <2>1, <2>3, <3>4, <4>2
        <5> QED BY <2>3, <5>1
      <4> QED BY <4>1, <4>2
    <3>6. v.entries[j] \in ToSet(entries)
      BY <2>3, <3>5 DEF ToSet
    <3> QED BY <3>2, <3>6
  <2>6. v.flash # "off" /\ v.flash \in {"off", "icons next", "no icons next"}
    <3>1. v.entries # <<>>
      BY <1>1, <2>1
    <3> QED BY <1>1, <3>1 DEF Flashing, Listed
  <2> HIDE DEF k, icons, entries
  <2>7. x \in Listed /\ x.entries = v.entries /\ x.flash = v.flash
    BY <1>1, <2>4 DEF Listed
  <2>8. y \in Listed /\ y.entries = entries /\ y.flash = v.flash
    BY <2>3, <2>7 DEF Listed
  <2>9. z \in Listed /\ z.entries = entries /\ z.flash = "off"
    BY <2>8 DEF Listed
  <2>10. /\ w \in Listed /\ w.icons = icons /\ w.entries = entries /\ w.flash = flash
         /\ w.members = v.members /\ w.groups = v.groups /\ w.online = v.online
         /\ w.contacts = v.contacts /\ w.collapsed = v.collapsed /\ w.showGroups = v.showGroups
         /\ w.showOffline = v.showOffline /\ w.search = v.search /\ w.match = v.match
         /\ w.rows = v.rows /\ w.headers = v.headers /\ w.shown = v.shown
         /\ w.displayed = v.displayed /\ w.empty = v.empty
    <3> DEFINE Rest(u) ==
         /\ u.icons = icons /\ u.entries = entries
         /\ u.members = v.members /\ u.groups = v.groups /\ u.online = v.online
         /\ u.contacts = v.contacts /\ u.collapsed = v.collapsed /\ u.showGroups = v.showGroups
         /\ u.showOffline = v.showOffline /\ u.search = v.search /\ u.match = v.match
         /\ u.rows = v.rows /\ u.headers = v.headers /\ u.shown = v.shown
         /\ u.displayed = v.displayed /\ u.empty = v.empty
    <3>1. Rest(y) /\ Rest(z)
      BY <1>1 DEF Listed
    <3> HIDE DEF y, z
    <3>2. CASE entries = <<>>
      BY <2>8, <2>9, <3>1, <3>2
    <3>3. CASE entries # <<>>
      BY <2>8, <2>9, <3>1, <3>3
    <3> QED BY <3>2, <3>3
  <2> HIDE DEF w, x, y, z
  <2>11. Boxed(w) /\ HeadersShow(w) /\ (w.empty <=> w.displayed = {})
    BY <1>1, <2>4, <2>10 DEF Boxed, HeadersShow
  <2>12. \A r \in w.rows : Exact(w, r)
    BY <1>1, <2>10 DEF Exact, Searching, Passes, ShouldBeDisplayed, InTop
  <2>13. Flashing(w)
    BY <2>5, <2>6, <2>10 DEF Flashing
  <2> QED BY <2>2, <2>10, <2>11, <2>12, <2>13 DEF Filtered, FilteredBut
<1> QED BY <1>2, <1>3

(* Entries come to the head of the queue; those that were there stay.        *)
LEMMA EntriesCome ==
  ASSUME NEW v, Filtered(v), NEW events \in SUBSET Events
  PROVE  LET w == AddEvents(v, events)
         IN  /\ Filtered(w) /\ w.rows = v.rows /\ w.contacts = v.contacts
             /\ w.members = v.members /\ w.groups = v.groups /\ w.showGroups = v.showGroups
<1> DEFINE m == Len(v.entries)
           T == {e \in events : EventOf[e] \in v.contacts}
           added == SetToSeq(T)
           newer == [k \in 1 .. Len(added) |-> [event |-> added[k], current |-> TRUE]]
           Old(k) == [v.entries[k] EXCEPT !.current = @ /\ v.entries[k].event \notin events]
           older == [k \in 1 .. m |-> Old(k)]
           entries == newer \o older
           flash == IF v.flash = "off" /\ added # <<>> THEN "icons next" ELSE v.flash
           w == [v EXCEPT !.entries = entries, !.flash = flash]
           n == Len(added)
<1>1. /\ v \in Listed /\ Boxed(v) /\ HeadersShow(v) /\ Flashing(v)
      /\ v.empty <=> v.displayed = {}
      /\ \A r \in v.rows : Exact(v, r)
      /\ v.entries \in Seq(Entries) /\ v.flash \in {"off", "icons next", "no icons next"}
  BY DEF Filtered, FilteredBut, Listed
<1>a. v.entries \in Seq(Entries)
  BY DEF Filtered, FilteredBut, Listed
<1>b. m \in Nat /\ \A k \in 1..m : v.entries[k] \in Entries
  BY <1>a
<1>c. v.entries = <<>> <=> m = 0
  BY <1>a
<1> HIDE DEF m
<1>2. AddEvents(v, events) = w
  BY DEF AddEvents, m
<1>3. added \in Seq(Events) /\ n \in Nat
  <2>1. IsFiniteSet(T) /\ T \subseteq Events
    BY RosterViewAssumption, FS_Subset
  <2> HIDE DEF T
  <2>2. Cardinality(T) \in Nat /\ added \in [1..Cardinality(T) -> T]
    BY <2>1, SetListed
  <2> HIDE DEF added
  <2> QED BY <2>1, <2>2
<1> HIDE DEF added
<1>4. newer \in Seq(Entries) /\ Len(newer) = n
  <2>1. \A k \in 1..n : added[k] \in Events
    BY <1>3
  <2>2. newer \in [1..n -> Entries]
    BY <2>1 DEF Entries
  <2> HIDE DEF newer
  <2> QED BY <1>3, <2>2
<1>5. /\ older \in Seq(Entries) /\ Len(older) = m /\ m \in Nat
      /\ \A k \in 1..m : older[k].event = v.entries[k].event
  <2>1. \A k \in 1..m : Old(k) \in Entries /\ Old(k).event = v.entries[k].event
    <3> SUFFICES ASSUME NEW k \in 1..m PROVE Old(k) \in Entries /\ Old(k).event = v.entries[k].event
      OBVIOUS
    <3> DEFINE en == v.entries[k]
               current == en.current /\ en.event \notin events
    <3>1. en \in Entries
      BY <1>b
    <3>2. current \in BOOLEAN
      OBVIOUS
    <3>3. Old(k) = [en EXCEPT !.current = current]
      OBVIOUS
    <3> HIDE DEF Old, en, current
    <3>4. [en EXCEPT !.current = current] \in Entries /\ [en EXCEPT !.current = current].event = en.event
      BY <3>1, <3>2 DEF Entries
    <3>5. Old(k) \in Entries /\ Old(k).event = en.event
      BY <3>3, <3>4
    <3> QED BY <3>5 DEF en
  <2> HIDE DEF Old
  <2>2. m \in Nat
    BY <1>b
  <2>3. older \in [1..m -> Entries] /\ \A k \in 1..m : older[k] = Old(k)
    BY <2>1
  <2> HIDE DEF older
  <2> QED BY <2>1, <2>2, <2>3
<1> HIDE DEF newer, older
<1>6. /\ entries \in Seq(Entries) /\ Len(entries) = n + m
      /\ \A k \in 1..m : entries[k + n] = older[k]
  <2>1. newer \in Seq(Entries) /\ older \in Seq(Entries) /\ Len(newer) = n /\ Len(older) = m
    BY <1>4, <1>5
  <2> HIDE DEF n, entries
  <2>2. /\ newer \o older \in Seq(Entries) /\ Len(newer \o older) = Len(newer) + Len(older)
    BY <2>1, ConcatShape, Zenon
  <2>3. \A k \in 1..Len(older) : (newer \o older)[k + Len(newer)] = older[k]
    BY <2>1, ConcatShape
  <2> QED BY <2>1, <2>2, <2>3 DEF entries
<1>7. \A k \in 1..m : \E e \in ToSet(entries) : e.event = v.entries[k].event
  <2> SUFFICES ASSUME NEW k \in 1..m PROVE \E e \in ToSet(entries) : e.event = v.entries[k].event
    OBVIOUS
  <2> HIDE DEF entries
  <2>1. k + n \in 1..Len(entries)
    BY <1>3, <1>5, <1>6
  <2>2. entries[k + n] \in ToSet(entries)
    BY <2>1 DEF ToSet
  <2> QED BY <1>5, <1>6, <2>2
<1> HIDE DEF entries
<1>8. flash \in {"off", "icons next", "no icons next"} /\ (flash = "off" <=> entries = <<>>)
  <2>1. entries = <<>> <=> n = 0 /\ m = 0
    <3> HIDE DEF n
    <3> QED BY <1>3, <1>b, <1>6
  <2>2. (added = <<>> <=> n = 0) /\ (v.entries = <<>> <=> m = 0)
    BY <1>c, <1>3
  <2>3. v.flash = "off" <=> v.entries = <<>>
    BY <1>1 DEF Flashing
  <2> QED BY <1>1, <2>1, <2>2, <2>3
<1> HIDE DEF flash
<1>9. w \in Listed
  BY <1>1, <1>6, <1>8 DEF Listed
<1>10. /\ w.icons = v.icons /\ w.entries = entries /\ w.flash = flash
       /\ w.members = v.members /\ w.groups = v.groups /\ w.online = v.online
       /\ w.contacts = v.contacts /\ w.collapsed = v.collapsed /\ w.showGroups = v.showGroups
       /\ w.showOffline = v.showOffline /\ w.search = v.search /\ w.match = v.match
       /\ w.rows = v.rows /\ w.headers = v.headers /\ w.shown = v.shown
       /\ w.displayed = v.displayed /\ w.empty = v.empty
  BY <1>1 DEF Listed
<1> HIDE DEF w
<1>11. Boxed(w) /\ HeadersShow(w) /\ (w.empty <=> w.displayed = {})
  BY <1>1, <1>10 DEF Boxed, HeadersShow
<1>12. \A r \in w.rows : Exact(w, r)
  BY <1>1, <1>10 DEF Exact, Searching, Passes, ShouldBeDisplayed, InTop
<1>13. Flashing(w)
  <2>1. ASSUME NEW r \in v.icons, r[3] = "row"
        PROVE  \E e \in ToSet(entries) : EventOf[e.event] = r[1]
    <3>0. PICK e \in ToSet(v.entries) : EventOf[e.event] = r[1]
      BY <1>1, <2>1 DEF Flashing
    <3>1. PICK k \in 1..m : EventOf[v.entries[k].event] = r[1]
      BY <3>0, <1>a DEF ToSet, m
    <3> QED BY <1>7, <3>1
  <2> QED BY <1>8, <1>10, <2>1 DEF Flashing
<1> QED BY <1>2, <1>9, <1>10, <1>11, <1>12, <1>13 DEF Filtered, FilteredBut

(* An individual goes, with its rows.                                        *)
LEMMA IndividualGoes ==
  ASSUME NEW v, Filtered(v), NEW i \in ToSet(Contacts),
         \A j \in v.contacts \ {i} : HashedRight(v, j)
  PROVE  LET w == IndividualRemoved(v, i)
         IN  /\ Filtered(w) /\ w.members = v.members /\ w.contacts = v.contacts \ {i}
             /\ \A j \in w.contacts : HashedRight(w, j)
<1> DEFINE chosen == {k \in DOMAIN v.entries : EventOf[v.entries[k].event] = i}
           quiet == FirstEntry(v, chosen)
           rows == RowsOf(quiet, i)
           bare == RemoveRows(quiet, rows)
           contacts == v.contacts \ {i}
           w == [bare EXCEPT !.contacts = contacts]
<1>1. CASE i \notin v.contacts
  <2>1. IndividualRemoved(v, i) = v /\ v.contacts \ {i} = v.contacts
    BY <1>1 DEF IndividualRemoved
  <2> QED BY <2>1
<1>2. CASE i \in v.contacts
  <2>1. /\ Filtered(quiet) /\ quiet.rows = v.rows /\ quiet.contacts = v.contacts
        /\ quiet.members = v.members /\ quiet.groups = v.groups
        /\ quiet.showGroups = v.showGroups
    <3>1. EntriesOf(v, chosen, i)
      BY DEF EntriesOf
    <3> HIDE DEF chosen
    <3> QED BY <3>1, EntryGoes
  <2>2. IndividualRemoved(v, i) = [bare EXCEPT !.contacts = @ \ {i}]
    BY <1>2 DEF IndividualRemoved
  <2> HIDE DEF quiet
  <2>3. /\ Filtered(bare) /\ SameList(bare, quiet) /\ bare.rows = quiet.rows \ rows
    BY <2>1, RowsRemoved
  <2>4. \A r : r \in rows <=> r \in v.rows /\ r[1] = i /\ r[3] = "row"
    <3>1. v.rows \in SUBSET Rows
      BY DEF Filtered, FilteredBut, Listed
    <3>2. \A r : r \in rows <=> \E g \in ToSet(AllGroups) : <<i, g, "row">> \in v.rows /\ r = <<i, g, "row">>
      BY <2>1 DEF RowsOf, Hashed
    <3> HIDE DEF rows
    <3>3. ASSUME NEW r, r \in rows PROVE r \in v.rows /\ r[1] = i /\ r[3] = "row"
      <4>1. PICK g \in ToSet(AllGroups) : <<i, g, "row">> \in v.rows /\ r = <<i, g, "row">>
        BY <3>2, <3>3
      <4> QED BY <4>1
    <3>4. ASSUME NEW r, r \in v.rows, r[1] = i, r[3] = "row" PROVE r \in rows
      <4>1. r = <<i, r[2], "row">> /\ r[2] \in ToSet(AllGroups)
        BY <3>1, <3>4, RowIs
      <4> QED BY <3>2, <3>4, <4>1
    <3> QED BY <3>3, <3>4
  <2>5. /\ bare \in Listed /\ Boxed(bare) /\ HeadersShow(bare) /\ Flashing(bare)
        /\ bare.empty <=> bare.displayed = {}
        /\ \A r \in bare.rows : Exact(bare, r)
        /\ bare.contacts = v.contacts /\ bare.contacts \in SUBSET ToSet(Contacts)
    BY <2>1, <2>3 DEF Filtered, FilteredBut, Listed, SameList
  <2> HIDE DEF rows, bare
  <2>6. w = [bare EXCEPT !.contacts = @ \ {i}] /\ contacts \in SUBSET ToSet(Contacts)
    <3>1. bare.contacts \ {i} = contacts
      BY <2>5
    <3> HIDE DEF contacts
    <3> QED BY <2>5, <3>1
  <2>7. \A r \in bare.rows : r[3] = "row" => r[1] \in contacts
    BY <2>1, <2>3, <2>4, <2>5 DEF Boxed
  <2> HIDE DEF contacts
  <2>8. w \in Listed
    BY <2>5, <2>6 DEF Listed
  <2>9. /\ w.icons = bare.icons /\ w.entries = bare.entries /\ w.flash = bare.flash
        /\ w.members = bare.members /\ w.groups = bare.groups /\ w.online = bare.online
        /\ w.contacts = contacts /\ w.collapsed = bare.collapsed
        /\ w.showGroups = bare.showGroups /\ w.showOffline = bare.showOffline
        /\ w.search = bare.search /\ w.match = bare.match
        /\ w.rows = bare.rows /\ w.headers = bare.headers /\ w.shown = bare.shown
        /\ w.displayed = bare.displayed /\ w.empty = bare.empty
    <3> HIDE DEF w
    <3>1. w = [bare EXCEPT !.contacts = contacts]
      BY DEF w
    <3> QED BY <2>5, <3>1 DEF Listed
  <2>10. IndividualRemoved(v, i) = w
    BY <2>2, <2>6
  <2> HIDE DEF w
  <2>11. Boxed(w) /\ HeadersShow(w) /\ Flashing(w) /\ (w.empty <=> w.displayed = {})
    BY <2>5, <2>7, <2>9 DEF Boxed, HeadersShow, Flashing
  <2>12. \A r \in w.rows : Exact(w, r)
    BY <2>5, <2>9 DEF Exact, Searching, Passes, ShouldBeDisplayed, InTop
  <2>13. ASSUME NEW j \in contacts PROVE HashedRight(w, j)
    <3>1. j # i /\ j \in v.contacts /\ HashedRight(v, j)
      BY DEF contacts
    <3>2. \A g : g \in Hashed(w, j) <=> g \in Hashed(v, j)
      <4> SUFFICES ASSUME NEW g PROVE g \in Hashed(w, j) <=> g \in Hashed(v, j)
        OBVIOUS
      <4>1. <<j, g, "row">>[1] = j
        OBVIOUS
      <4>2. <<j, g, "row">> \notin rows
        BY <2>4, <3>1, <4>1
      <4>3. w.rows = v.rows \ rows
        BY <2>1, <2>3, <2>9
      <4>4. <<j, g, "row">> \in w.rows <=> <<j, g, "row">> \in v.rows
        BY <4>2, <4>3
      <4> QED BY <4>4, HashedIs
    <3>3. Hashed(w, j) = Hashed(v, j)
      BY <3>2
    <3>4. w.showGroups = v.showGroups /\ w.groups = v.groups
      BY <2>1, <2>3, <2>9 DEF SameList
    <3> QED BY <3>1, <3>3, <3>4, OthersRight
  <2>14. w.members = v.members
    BY <2>1, <2>3, <2>9 DEF SameList
  <2> QED BY <2>8, <2>9, <2>10, <2>11, <2>12, <2>13, <2>14 DEF Filtered, FilteredBut, contacts
<1> QED BY <1>1, <1>2

(* The list is emptied.                                                      *)
LEMMA ListCleared ==
  ASSUME NEW v \in Listed, Flashing(v), v.displayed \subseteq v.rows, v.empty <=> v.displayed = {}
  PROVE  LET w == ClearView(v)
         IN  /\ Filtered(w) /\ w.contacts = {} /\ w.members = v.members /\ w.groups = v.groups
             /\ w.showGroups = v.showGroups
<1> DEFINE none == {}
           bare == [v EXCEPT !.contacts = none, !.rows = none, !.headers = none, !.collapsed = none,
                             !.shown = none, !.displayed = none, !.icons = none]
           w == IF v.rows = {} THEN bare ELSE UpdateEmpty(bare, TRUE)
<1>1. ClearView(v) = w
  BY DEF ClearView
<1>2. /\ none = {} /\ none \in SUBSET ToSet(Contacts) /\ none \in SUBSET ToSet(AllGroups)
      /\ none \in SUBSET Rows
  OBVIOUS
<1> HIDE DEF none
<1>3. bare \in Listed
  <2>1. /\ bare = [f \in {"members", "groups", "online", "page", "idles", "contacts", "rows",
                       "headers", "collapsed", "shown", "displayed", "icons", "entries", "flash",
                       "showGroups", "showOffline", "empty", "search", "match"} |-> bare[f]]
        /\ bare.members = v.members /\ bare.groups = v.groups /\ bare.online = v.online
        /\ bare.page = v.page /\ bare.idles = v.idles
        /\ bare.contacts = none /\ bare.rows = none /\ bare.headers = none
        /\ bare.collapsed = none /\ bare.shown = none /\ bare.displayed = none
        /\ bare.icons = none /\ bare.entries = v.entries /\ bare.flash = v.flash
        /\ bare.showGroups = v.showGroups /\ bare.showOffline = v.showOffline
        /\ bare.empty = v.empty /\ bare.search = v.search /\ bare.match = v.match
    BY DEF Listed
  <2> HIDE DEF bare
  <2> QED BY <1>2, <2>1 DEF Listed
<1>4. /\ bare.contacts = {} /\ bare.rows = {} /\ bare.displayed = {} /\ bare.icons = {}
      /\ bare.members = v.members /\ bare.groups = v.groups /\ bare.showGroups = v.showGroups
      /\ bare.entries = v.entries /\ bare.flash = v.flash /\ bare.empty = v.empty
  BY <1>2 DEF Listed
<1> HIDE DEF bare
<1>5. /\ w \in Listed /\ SameList(w, bare) /\ w.rows = {} /\ w.displayed = {} /\ w.icons = {}
      /\ w.empty
  <2>1. CASE v.rows = {}
    BY <1>3, <1>4, <2>1 DEF SameList
  <2>2. CASE v.rows # {}
    BY <1>3, <1>4, <2>2, EmptyUpdated
  <2> QED BY <2>1, <2>2
<1> HIDE DEF w
<1>6. Flashing(w)
  BY <1>4, <1>5 DEF Flashing, SameList
<1>7. Boxed(w) /\ HeadersShow(w) /\ (w.empty <=> w.displayed = {}) /\ \A r \in w.rows : Exact(w, r)
  BY <1>5 DEF Boxed, HeadersShow
<1> QED BY <1>1, <1>4, <1>5, <1>6, <1>7 DEF Filtered, FilteredBut, SameList

(* Whom the model has, and in which groups, says nothing about what should   *)
(* be displayed where that is claimed.                                       *)
SameBox(w, v) ==
  /\ w.online = v.online /\ w.contacts = v.contacts /\ w.rows = v.rows /\ w.headers = v.headers
  /\ w.collapsed = v.collapsed /\ w.shown = v.shown /\ w.displayed = v.displayed
  /\ w.icons = v.icons /\ w.entries = v.entries /\ w.flash = v.flash
  /\ w.showGroups = v.showGroups /\ w.showOffline = v.showOffline /\ w.empty = v.empty
  /\ w.search = v.search /\ w.match = v.match

LEMMA ModelMoves ==
  ASSUME NEW v, Filtered(v), NEW w \in Listed, SameBox(w, v)
  PROVE  Filtered(w)
<1>1. Boxed(w) /\ HeadersShow(w) /\ Flashing(w) /\ (w.empty <=> w.displayed = {})
  BY DEF Filtered, FilteredBut, SameBox, Boxed, HeadersShow, Flashing
<1>2. ASSUME NEW r \in w.rows PROVE Exact(w, r)
  <2>1. Exact(v, r)
    BY <1>2 DEF Filtered, FilteredBut, SameBox
  <2> QED BY <2>1 DEF SameBox, Exact, Searching, Passes, ShouldBeDisplayed, InTop
<1> QED BY <1>1, <1>2 DEF Filtered, FilteredBut

LEMMA GroupsStay ==
  ASSUME NEW v, InGroups(v), NEW w, w.members = v.members, w.contacts = v.contacts,
         w.rows = v.rows, w.groups = v.groups, w.showGroups = v.showGroups
  PROVE  InGroups(w)
BY DEF InGroups, HashedRight, Hashed

(* Each handler restores what holds of the list.                             *)
LEMMA StateIsListed ==
  ASSUME ViewInv
  PROVE  /\ ViewState \in Listed /\ Filtered(ViewState) /\ InGroups(ViewState)
         /\ pending \subseteq Events
         /\ ViewState.members = model.members /\ ViewState.groups = model.groups
         /\ ViewState.showGroups = view.showGroups /\ ViewState.rows = view.rows
         /\ ViewState.idles = window.idles /\ ViewState.entries = view.entries
BY ViewStateTyped DEF ViewInv, ViewState, ViewTyped

LEMMA AddedSettles ==
  ASSUME ViewInv, NEW i \in ToSet(Contacts), ModelAdded(i)
  PROVE  ViewInv'
<1> DEFINE s == ViewState
<1>1. /\ s \in Listed /\ Filtered(s) /\ InGroups(s) /\ pending \subseteq Events
      /\ s.members = model.members
  BY StateIsListed
<1>2. i \notin model.members /\ EventsUnchanged
  BY DEF ModelAdded
<1>3. PICK mine \in SUBSET ({"top"} \cup ToSet(Groups)) :
        ViewBecomes(IndividualsAdded([s EXCEPT !.members = @ \cup {i}, !.groups[i] = mine], {i}))
  BY DEF ModelAdded
<1> HIDE DEF s
<1> DEFINE members == s.members \cup {i}
           groups == [s.groups EXCEPT ![i] = mine]
           v == [s EXCEPT !.members = members, !.groups = groups]
           w == IndividualsAdded(v, {i})
<1>4. ViewBecomes(w)
  BY <1>3
<1>5. members \in SUBSET ToSet(Contacts) /\ \A j \in members : j = i \/ j \in s.members
  BY <1>1 DEF Listed
<1>6. /\ groups \in [ToSet(Contacts) -> SUBSET ({"top"} \cup ToSet(Groups))]
      /\ \A j \in ToSet(Contacts) : j # i => groups[j] = s.groups[j]
  BY <1>1 DEF Listed
<1>7. s.contacts = s.members /\ s.members \in SUBSET ToSet(Contacts) /\ i \notin s.contacts
  BY <1>1, <1>2 DEF InGroups, Listed
<1>8. members = s.contacts \cup {i}
  BY <1>7
<1> HIDE DEF members, groups
<1>9. v \in Listed
  BY <1>1, <1>5, <1>6 DEF Listed
<1>10. SameBox(v, s) /\ v.members = members /\ v.groups = groups
  BY <1>1 DEF Listed, SameBox
<1> HIDE DEF v
<1>11. Filtered(v)
  BY <1>1, <1>9, <1>10, ModelMoves
<1>12. \A j \in v.contacts : HashedRight(v, j)
  <2> SUFFICES ASSUME NEW j \in v.contacts PROVE HashedRight(v, j)
    OBVIOUS
  <2>1. j # i /\ j \in ToSet(Contacts) /\ HashedRight(s, j)
    BY <1>1, <1>7, <1>10 DEF SameBox, InGroups
  <2>2. v.groups[j] = s.groups[j] /\ v.showGroups = s.showGroups /\ Hashed(v, j) = Hashed(s, j)
    BY <1>6, <1>10, <2>1 DEF SameBox, Hashed
  <2> QED BY <2>1, <2>2, OthersRight
<1>13. /\ Filtered(w) /\ w.members = v.members /\ w.contacts = v.contacts \cup {i}
       /\ \A j \in w.contacts : HashedRight(w, j)
  <2> DEFINE one == {i}
  <2>1. one \in SUBSET ToSet(Contacts)
    OBVIOUS
  <2>2. w = IndividualsAdded(v, one)
    OBVIOUS
  <2> HIDE DEF one, w
  <2>3. /\ Filtered(w) /\ w.members = v.members /\ w.contacts = v.contacts \cup one
        /\ \A j \in w.contacts : HashedRight(w, j)
    BY <1>11, <1>12, <2>1, <2>2, IndividualsCome
  <2> QED BY <2>3 DEF one
<1> HIDE DEF w
<1>14. InGroups(w)
  BY <1>8, <1>10, <1>13 DEF InGroups, SameBox
<1>15. pending' \subseteq Events
  BY <1>1, <1>2 DEF EventsUnchanged
<1> QED BY <1>4, <1>13, <1>14, <1>15, Settles

LEMMA RemovedSettles ==
  ASSUME ViewInv, NEW i \in ToSet(Contacts), ModelRemoved(i)
  PROVE  ViewInv'
<1> DEFINE s == ViewState
           members == s.members \ {i}
           groups == [s.groups EXCEPT ![i] = {}]
           v == [s EXCEPT !.members = members, !.groups = groups]
           w == IndividualRemoved(v, i)
<1>1. /\ s \in Listed /\ Filtered(s) /\ InGroups(s) /\ pending \subseteq Events
  BY StateIsListed
<1>2. EventsUnchanged /\ ViewBecomes(w)
  BY DEF ModelRemoved
<1> HIDE DEF s
<1>3. members \in SUBSET ToSet(Contacts) /\ members = s.contacts \ {i}
  BY <1>1 DEF Listed, InGroups
<1>4. /\ groups \in [ToSet(Contacts) -> SUBSET ({"top"} \cup ToSet(Groups))]
      /\ \A j \in ToSet(Contacts) : j # i => groups[j] = s.groups[j]
  <2> DEFINE none == {}
  <2>1. none \in SUBSET ({"top"} \cup ToSet(Groups)) /\ groups = [s.groups EXCEPT ![i] = none]
    OBVIOUS
  <2> HIDE DEF none, groups
  <2> QED BY <1>1, <2>1 DEF Listed
<1> HIDE DEF members, groups
<1>5. v \in Listed
  BY <1>1, <1>3, <1>4 DEF Listed
<1>6. SameBox(v, s) /\ v.members = members /\ v.groups = groups
  BY <1>1 DEF Listed, SameBox
<1> HIDE DEF v
<1>7. Filtered(v) /\ v.contacts \in SUBSET ToSet(Contacts)
  BY <1>1, <1>5, <1>6, ModelMoves DEF Listed
<1>8. \A j \in v.contacts \ {i} : HashedRight(v, j)
  <2> SUFFICES ASSUME NEW j \in v.contacts \ {i} PROVE HashedRight(v, j)
    OBVIOUS
  <2>1. j # i /\ j \in ToSet(Contacts) /\ HashedRight(s, j)
    BY <1>1, <1>6, <1>7 DEF SameBox, InGroups
  <2>2. v.groups[j] = s.groups[j] /\ v.showGroups = s.showGroups /\ Hashed(v, j) = Hashed(s, j)
    BY <1>4, <1>6, <2>1 DEF SameBox, Hashed
  <2> QED BY <2>1, <2>2, OthersRight
<1>9. /\ Filtered(w) /\ w.members = v.members /\ w.contacts = v.contacts \ {i}
      /\ \A j \in w.contacts : HashedRight(w, j)
  BY <1>7, <1>8, IndividualGoes
<1> HIDE DEF w
<1>10. InGroups(w)
  BY <1>3, <1>6, <1>9 DEF InGroups, SameBox
<1>11. pending' \subseteq Events
  BY <1>1, <1>2 DEF EventsUnchanged
<1> QED BY <1>2, <1>9, <1>10, <1>11, Settles

LEMMA TopLeftSettles ==
  ASSUME ViewInv, NEW i \in ToSet(Contacts), LeavesTop(i)
  PROVE  ViewInv'
<1> DEFINE s == ViewState
           groups == [s.groups EXCEPT ![i] = @ \ {"top"}]
           v == [s EXCEPT !.groups = groups]
<1>1. /\ s \in Listed /\ Filtered(s) /\ InGroups(s) /\ pending \subseteq Events
  BY StateIsListed
<1>2. EventsUnchanged /\ ViewBecomes(v)
  BY DEF LeavesTop
<1> HIDE DEF s
<1>3. /\ groups \in [ToSet(Contacts) -> SUBSET ({"top"} \cup ToSet(Groups))]
      /\ \A j \in ToSet(Contacts) : groups[j] \cap ToSet(Groups) = s.groups[j] \cap ToSet(Groups)
  <2>1. s.groups \in [ToSet(Contacts) -> SUBSET ({"top"} \cup ToSet(Groups))]
    BY <1>1 DEF Listed
  <2>2. "top" \notin ToSet(Groups)
    BY RosterViewAssumption
  <2> QED BY <2>1, <2>2
<1> HIDE DEF groups
<1>4. v \in Listed
  BY <1>1, <1>3 DEF Listed
<1>5. SameBox(v, s) /\ v.members = s.members /\ v.groups = groups
  BY <1>1 DEF Listed, SameBox
<1> HIDE DEF v
<1>6. Filtered(v)
  BY <1>1, <1>4, <1>5, ModelMoves
<1>7. ASSUME NEW j \in v.contacts PROVE HashedRight(v, j)
  <2>1. j \in ToSet(Contacts) /\ HashedRight(s, j)
    BY <1>1, <1>4, <1>5 DEF SameBox, InGroups, Listed
  <2>2. v.groups[j] \cap ToSet(Groups) = s.groups[j] \cap ToSet(Groups)
    BY <1>3, <1>5, <2>1
  <2>3. v.showGroups = s.showGroups /\ Hashed(v, j) = Hashed(s, j)
    BY <1>5 DEF SameBox, Hashed
  <2> QED BY <2>1, <2>2, <2>3 DEF HashedRight
<1>8. InGroups(v)
  BY <1>1, <1>5, <1>7 DEF InGroups, SameBox
<1>9. pending' \subseteq Events
  BY <1>1, <1>2 DEF EventsUnchanged
<1> QED BY <1>2, <1>6, <1>8, <1>9, Settles

(* A row for one group more, or one less: the others keep theirs.            *)
OneMore(w, v, i, g) ==
  /\ Filtered(w) /\ SameList(w, v) /\ Hashed(w, i) = Hashed(v, i) \cup {g}
  /\ \A j \in v.contacts : j # i => Hashed(w, j) = Hashed(v, j)

OneLess(w, v, i, g) ==
  /\ Filtered(w) /\ SameList(w, v) /\ Hashed(w, i) = Hashed(v, i) \ {g}
  /\ \A j \in v.contacts : j # i => Hashed(w, j) = Hashed(v, j)

LEMMA RowComes ==
  ASSUME NEW v, Filtered(v), NEW i \in v.contacts, NEW g \in ToSet(AllGroups), g # "none"
  PROVE  OneMore(AddToGroup(v, i, g), v, i, g)
<1> DEFINE rows == {<<i, g, "row">>}
           w == AddRows(v, rows)
<1>1. v.contacts \in SUBSET ToSet(Contacts)
  BY DEF Filtered, FilteredBut, Listed
<1>2. AddToGroup(v, i, g) = w
  BY DEF AddToGroup
<1>3. /\ rows \in SUBSET Rows
      /\ \A r \in rows : r[3] = "row" /\ r[1] \in v.contacts /\ (v.showGroups => r[2] # "none")
      /\ \A j, h : <<j, h, "row">> \in rows <=> j = i /\ h = g
  <2>1. <<i, g, "row">> \in Rows
    BY <1>1 DEF Rows
  <2>2. \A j, h : <<j, h, "row">> = <<i, g, "row">> <=> j = i /\ h = g
    OBVIOUS
  <2> QED BY <2>1, <2>2
<1> HIDE DEF rows
<1>4. /\ Filtered(w) /\ SameList(w, v)
      /\ \A j \in ToSet(Contacts), h \in ToSet(AllGroups) :
            <<j, h, "row">> \in w.rows <=> <<j, h, "row">> \in v.rows \/ <<j, h, "row">> \in rows
  BY <1>3, RowsAdded
<1> HIDE DEF w
<1>5. \A j \in v.contacts : \A h : h \in Hashed(w, j) <=> h \in Hashed(v, j) \/ (j = i /\ h = g)
  BY <1>1, <1>3, <1>4, HashedIs
<1>6. Hashed(w, i) = Hashed(v, i) \cup {g} /\ \A j \in v.contacts : j # i => Hashed(w, j) = Hashed(v, j)
  BY <1>5
<1> QED BY <1>2, <1>4, <1>6 DEF OneMore

RowFor(i, g) == {<<i, g, "row">>}

LEMMA RowGoes ==
  ASSUME NEW v, Filtered(v), NEW i, NEW g
  PROVE  OneLess(RemoveRows(v, RowFor(i, g)), v, i, g)
<1> DEFINE rows == RowFor(i, g)
           w == RemoveRows(v, rows)
<1>1. \A j, h : <<j, h, "row">> \in rows <=> j = i /\ h = g
  BY DEF RowFor
<1> HIDE DEF rows
<1>2. Filtered(w) /\ SameList(w, v) /\ w.rows = v.rows \ rows
  BY RowsRemoved
<1> HIDE DEF w
<1>3. \A j, h : h \in Hashed(w, j) <=> h \in Hashed(v, j) /\ ~(j = i /\ h = g)
  BY <1>1, <1>2, HashedIs
<1>4. Hashed(w, i) = Hashed(v, i) \ {g} /\ \A j \in v.contacts : j # i => Hashed(w, j) = Hashed(v, j)
  BY <1>3
<1> QED BY <1>2, <1>4 DEF w, rows, OneLess

LEMMA GroupsChangedSettles ==
  ASSUME ViewInv, NEW i \in ToSet(Contacts), NEW g \in {"top"} \cup ToSet(Groups),
         NEW member \in BOOLEAN, GroupsChanged(i, g, member)
  PROVE  ViewInv'
<1> DEFINE s == ViewState
           mine == IF member THEN s.groups[i] \cup {g} ELSE s.groups[i] \ {g}
           groups == [s.groups EXCEPT ![i] = mine]
           v == [s EXCEPT !.groups = groups]
           w == IF ~v.showGroups THEN v
                ELSE IF member THEN AddToGroup(v, i, g) ELSE RemoveFromGroup(v, i, g)
<1>1. /\ s \in Listed /\ Filtered(s) /\ InGroups(s) /\ pending \subseteq Events
      /\ s.members = model.members /\ s.groups = model.groups
  BY StateIsListed
<1>2. /\ i \in model.members /\ (~member <=> g \in model.groups[i]) /\ (g = "top" => member)
      /\ EventsUnchanged
  BY DEF GroupsChanged
<1>3. v = [s EXCEPT !.groups[i] = IF member THEN @ \cup {g} ELSE @ \ {g}]
  <2> HIDE DEF s
  <2> QED BY <1>1 DEF Listed
<1>4. ViewBecomes(w)
  <2> DEFINE u == [ViewState EXCEPT !.groups[i] = IF member THEN @ \cup {g} ELSE @ \ {g}]
  <2>1. ViewBecomes(IF ~u.showGroups THEN u
                    ELSE IF member THEN AddToGroup(u, i, g) ELSE RemoveFromGroup(u, i, g))
    BY DEF GroupsChanged
  <2>2. u = v
    BY <1>3
  <2> HIDE DEF u, v
  <2> QED BY <2>1, <2>2
<1> HIDE DEF s
<1>5. /\ groups \in [ToSet(Contacts) -> SUBSET ({"top"} \cup ToSet(Groups))] /\ groups[i] = mine
      /\ \A j \in ToSet(Contacts) : j # i => groups[j] = s.groups[j]
  <2>1. s.groups \in [ToSet(Contacts) -> SUBSET ({"top"} \cup ToSet(Groups))]
    BY <1>1 DEF Listed
  <2>2. mine \in SUBSET ({"top"} \cup ToSet(Groups))
    BY <2>1
  <2> HIDE DEF mine
  <2> QED BY <2>1, <2>2
<1> HIDE DEF groups
<1>6. v \in Listed
  BY <1>1, <1>5 DEF Listed
<1>7. SameBox(v, s) /\ v.members = s.members /\ v.groups = groups
  BY <1>1 DEF Listed, SameBox
<1> HIDE DEF v
<1>8. Filtered(v) /\ v.contacts \in SUBSET ToSet(Contacts) /\ v.showGroups \in BOOLEAN
  BY <1>1, <1>6, <1>7, ModelMoves DEF Listed
<1>9. v.contacts = v.members /\ i \in v.contacts /\ \A j \in v.contacts : HashedRight(s, j)
  BY <1>1, <1>2, <1>7 DEF SameBox, InGroups
<1>10. /\ v.showGroups = s.showGroups /\ \A j : Hashed(v, j) = Hashed(s, j)
       /\ \A j \in v.contacts : j # i => v.groups[j] = s.groups[j]
  BY <1>5, <1>7, <1>8 DEF SameBox, Hashed
<1>11. g # "none" /\ g \in ToSet(AllGroups) /\ "ungrouped" \in ToSet(AllGroups)
  BY GroupsAre
<1>12. ASSUME NEW x, Filtered(x), SameList(x, v), HashedRight(x, i),
              \A j \in v.contacts : j # i => Hashed(x, j) = Hashed(v, j)
       PROVE  Filtered(x) /\ InGroups(x)
  <2>1. /\ x.contacts = v.contacts /\ x.members = v.members /\ x.groups = v.groups
        /\ x.showGroups = v.showGroups
    BY <1>12 DEF SameList
  <2>2. ASSUME NEW j \in v.contacts PROVE HashedRight(x, j)
    <3>1. CASE j = i
      BY <1>12, <3>1
    <3>2. CASE j # i
      <4>1. /\ HashedRight(s, j) /\ x.showGroups = s.showGroups /\ x.groups[j] = s.groups[j]
            /\ Hashed(x, j) = Hashed(s, j)
        BY <1>9, <1>10, <1>12, <2>1, <2>2, <3>2
      <4> QED BY <4>1, OthersRight
    <3> QED BY <3>1, <3>2
  <2> QED BY <1>9, <1>12, <2>1, <2>2 DEF InGroups
<1>13. Filtered(w) /\ InGroups(w)
  <2>1. CASE ~v.showGroups
    <3>1. w = v
      BY <2>1
    <3>2. HashedRight(v, i)
      BY <1>9, <1>10, <2>1 DEF HashedRight
    <3>3. SameList(v, v)
      BY DEF SameList
    <3> QED BY <1>8, <1>12, <3>1, <3>2, <3>3
  <2>2. CASE v.showGroups /\ member
    <3>1. w = AddToGroup(v, i, g)
      BY <2>2
    <3> HIDE DEF w
    <3>2. /\ Filtered(w) /\ SameList(w, v) /\ Hashed(w, i) = Hashed(v, i) \cup {g}
          /\ \A j \in v.contacts : j # i => Hashed(w, j) = Hashed(v, j)
      <4>1. OneMore(w, v, i, g)
        BY <1>8, <1>9, <1>11, <3>1, RowComes
      <4> QED BY <4>1 DEF OneMore
    <3>3. w.showGroups /\ w.groups[i] = s.groups[i] \cup {g}
      BY <1>5, <1>7, <2>2, <3>2 DEF SameList
    <3>4. HashedRight(s, i) /\ s.showGroups /\ Hashed(v, i) = Hashed(s, i)
      BY <1>9, <1>10, <2>2
    <3>5. HashedRight(w, i)
      BY <3>2, <3>3, <3>4 DEF HashedRight
    <3> QED BY <1>12, <3>2, <3>5
  <2>3. CASE v.showGroups /\ ~member
    <3> DEFINE left == Hashed(v, i) \ {g}
               u == IF left = {} THEN AddToGroup(v, i, "ungrouped") ELSE v
               gone == RowFor(i, g)
               x == RemoveRows(u, gone)
    <3>1. g \in ToSet(Groups) /\ g \in s.groups[i] /\ g # "ungrouped"
      BY <1>1, <1>2, <2>3, GroupsAre
    <3>2. HashedRight(s, i) /\ s.showGroups /\ Hashed(v, i) = Hashed(s, i)
      BY <1>9, <1>10, <2>3
    <3>3. g \in Hashed(v, i)
      BY <3>1, <3>2 DEF HashedRight
    <3>4. w = RemoveFromGroup(v, i, g) /\ RemoveFromGroup(v, i, g) = x
      BY <1>9, <2>3, <3>3 DEF RemoveFromGroup, RowFor
    <3>5. /\ Filtered(u) /\ SameList(u, v)
          /\ Hashed(u, i) = Hashed(v, i) \cup (IF left = {} THEN {"ungrouped"} ELSE {})
          /\ \A j \in v.contacts : j # i => Hashed(u, j) = Hashed(v, j)
      <4>1. CASE left = {}
        <5> DEFINE ug == "ungrouped"
        <5>1. u = AddToGroup(v, i, ug)
          BY <4>1
        <5>2. ug \in ToSet(AllGroups) /\ ug # "none"
          BY <1>11
        <5> HIDE DEF u, left, ug
        <5>3. /\ Filtered(u) /\ SameList(u, v) /\ Hashed(u, i) = Hashed(v, i) \cup {ug}
              /\ \A j \in v.contacts : j # i => Hashed(u, j) = Hashed(v, j)
          <6>1. OneMore(u, v, i, ug)
            BY <1>8, <1>9, <5>1, <5>2, RowComes
          <6> QED BY <6>1 DEF OneMore
        <5> QED BY <4>1, <5>3 DEF ug
      <4>2. CASE left # {}
        BY <1>8, <4>2 DEF SameList
      <4> QED BY <4>1, <4>2
    <3> HIDE DEF u, w
    <3>6. /\ Filtered(x) /\ SameList(x, u) /\ Hashed(x, i) = Hashed(u, i) \ {g}
          /\ \A j \in u.contacts : j # i => Hashed(x, j) = Hashed(u, j)
      <4>1. OneLess(x, u, i, g)
        BY <3>5, RowGoes
      <4> QED BY <4>1 DEF OneLess
    <3> HIDE DEF x
    <3>7. /\ SameList(x, v) /\ \A j \in v.contacts : j # i => Hashed(x, j) = Hashed(v, j)
      BY <3>5, <3>6 DEF SameList
    <3>8. x.showGroups /\ x.groups[i] = s.groups[i] \ {g}
      BY <1>5, <1>7, <2>3, <3>7 DEF SameList
    <3>9. "ungrouped" \notin ToSet(Groups)
      BY GroupsAre
    <3>10. HashedRight(x, i)
      <4>1. Hashed(x, i) = left \cup (IF left = {} THEN {"ungrouped"} ELSE {})
        BY <3>1, <3>5, <3>6
      <4>2. Hashed(x, i) # {}
        BY <4>1
      <4>3. Hashed(x, i) \cap ToSet(Groups) = left \cap ToSet(Groups)
        BY <3>9, <4>1
      <4>4. left \cap ToSet(Groups) = (s.groups[i] \ {g}) \cap ToSet(Groups)
        BY <3>2 DEF HashedRight
      <4> QED BY <3>8, <4>2, <4>3, <4>4 DEF HashedRight
    <3> QED BY <1>12, <3>4, <3>6, <3>7, <3>10
  <2> QED BY <1>8, <2>1, <2>2, <2>3
<1> HIDE DEF w
<1>14. pending' \subseteq Events
  BY <1>1, <1>2 DEF EventsUnchanged
<1> QED BY <1>4, <1>13, <1>14, Settles

LEMMA PresenceSettles ==
  ASSUME ViewInv, NEW i \in ToSet(Contacts), PresenceChanged(i)
  PROVE  ViewInv'
<1> DEFINE s == ViewState
           online == [s.online EXCEPT ![i] = ~@]
           v == [s EXCEPT !.online = online]
           rows == {r \in v.rows : r[1] = i}
           w == FilterRows(v, rows)
<1>1. /\ s \in Listed /\ Filtered(s) /\ InGroups(s) /\ pending \subseteq Events
  BY StateIsListed
<1>2. EventsUnchanged /\ ViewBecomes(w)
  BY DEF PresenceChanged
<1> HIDE DEF s
<1>3. /\ online \in [ToSet(Contacts) -> BOOLEAN]
      /\ \A j \in ToSet(Contacts) : j # i => online[j] = s.online[j]
  <2>1. s.online \in [ToSet(Contacts) -> BOOLEAN]
    BY <1>1 DEF Listed
  <2> QED BY <2>1
<1> HIDE DEF online
<1>4. v \in Listed
  BY <1>1, <1>3 DEF Listed
<1>5. /\ v.members = s.members /\ v.groups = s.groups /\ v.online = online
      /\ v.contacts = s.contacts /\ v.rows = s.rows /\ v.headers = s.headers
      /\ v.collapsed = s.collapsed /\ v.shown = s.shown /\ v.displayed = s.displayed
      /\ v.icons = s.icons /\ v.entries = s.entries /\ v.flash = s.flash
      /\ v.showGroups = s.showGroups /\ v.showOffline = s.showOffline /\ v.empty = s.empty
      /\ v.search = s.search /\ v.match = s.match
  BY <1>1 DEF Listed
<1> HIDE DEF v
<1>6. Boxed(v) /\ HeadersShow(v) /\ Flashing(v) /\ (v.empty <=> v.displayed = {})
  BY <1>1, <1>5 DEF Filtered, FilteredBut, Boxed, HeadersShow, Flashing
<1>7. ASSUME NEW r \in v.rows \ rows PROVE Exact(v, r)
  <2>1. r \in s.rows /\ Exact(s, r)
    BY <1>1, <1>5 DEF Filtered, FilteredBut
  <2>2. r[1] \in ToSet(Contacts) /\ r[1] # i
    BY <1>4, RowIs DEF Listed
  <2>3. v.online[r[1]] = s.online[r[1]]
    BY <1>3, <1>5, <2>2
  <2> QED BY <1>5, <2>1, <2>3 DEF Exact, Searching, Passes, ShouldBeDisplayed, InTop
<1>8. FilteredBut(v, rows)
  BY <1>4, <1>6, <1>7 DEF FilteredBut
<1>9. InGroups(v)
  BY <1>1, <1>5, GroupsStay
<1>10. rows \in SUBSET v.rows
  OBVIOUS
<1> HIDE DEF rows
<1>11. Filtered(w) /\ InGroups(w)
  BY <1>8, <1>9, <1>10, RefilterSettles
<1> HIDE DEF w
<1>12. pending' \subseteq Events
  BY <1>1, <1>2 DEF EventsUnchanged
<1> QED BY <1>2, <1>11, <1>12, Settles

LEMMA ToggleSettles ==
  ASSUME ViewInv, NEW g \in ToSet(AllGroups), ToggleGroup(g)
  PROVE  ViewInv'
<1> DEFINE s == ViewState
           collapsed == IF g \in s.collapsed THEN s.collapsed \ {g} ELSE s.collapsed \cup {g}
           v == [s EXCEPT !.collapsed = collapsed]
           rows == {r \in v.rows : r[2] = g}
           w == FilterRows(v, rows)
<1>1. /\ s \in Listed /\ Filtered(s) /\ InGroups(s) /\ pending \subseteq Events
  BY StateIsListed
<1>2. EventsUnchanged /\ ViewBecomes(w)
  BY DEF ToggleGroup
<1> HIDE DEF s
<1>3. /\ collapsed \in SUBSET ToSet(AllGroups)
      /\ \A h : h # g => (h \in collapsed <=> h \in s.collapsed)
  BY <1>1 DEF Listed
<1> HIDE DEF collapsed
<1>4. v \in Listed
  BY <1>1, <1>3 DEF Listed
<1>5. /\ v.members = s.members /\ v.groups = s.groups /\ v.online = s.online
      /\ v.contacts = s.contacts /\ v.rows = s.rows /\ v.headers = s.headers
      /\ v.collapsed = collapsed /\ v.shown = s.shown /\ v.displayed = s.displayed
      /\ v.icons = s.icons /\ v.entries = s.entries /\ v.flash = s.flash
      /\ v.showGroups = s.showGroups /\ v.showOffline = s.showOffline /\ v.empty = s.empty
      /\ v.search = s.search /\ v.match = s.match
  BY <1>1 DEF Listed
<1> HIDE DEF v
<1>6. Boxed(v) /\ HeadersShow(v) /\ Flashing(v) /\ (v.empty <=> v.displayed = {})
  BY <1>1, <1>5 DEF Filtered, FilteredBut, Boxed, HeadersShow, Flashing
<1>7. ASSUME NEW r \in v.rows \ rows PROVE Exact(v, r)
  <2>1. r \in s.rows /\ Exact(s, r)
    BY <1>1, <1>5 DEF Filtered, FilteredBut
  <2>2. r[2] \in v.collapsed <=> r[2] \in s.collapsed
    BY <1>3, <1>5
  <2> QED BY <1>5, <2>1, <2>2 DEF Exact, Searching, Passes, ShouldBeDisplayed, InTop
<1>8. FilteredBut(v, rows)
  BY <1>4, <1>6, <1>7 DEF FilteredBut
<1>9. InGroups(v)
  BY <1>1, <1>5, GroupsStay
<1>10. rows \in SUBSET v.rows
  OBVIOUS
<1> HIDE DEF rows
<1>11. Filtered(w) /\ InGroups(w)
  BY <1>8, <1>9, <1>10, RefilterSettles
<1> HIDE DEF w
<1>12. pending' \subseteq Events
  BY <1>1, <1>2 DEF EventsUnchanged
<1> QED BY <1>2, <1>11, <1>12, Settles

(* What is asked of all rows may be anything.                                *)
SameButFilter(v, s) ==
  /\ v.members = s.members /\ v.groups = s.groups
  /\ v.contacts = s.contacts /\ v.rows = s.rows /\ v.headers = s.headers
  /\ v.shown = s.shown /\ v.displayed = s.displayed
  /\ v.icons = s.icons /\ v.entries = s.entries /\ v.flash = s.flash
  /\ v.showGroups = s.showGroups /\ v.empty = s.empty

LEMMA AllFiltered ==
  ASSUME ViewInv, NEW s, Filtered(s), InGroups(s), NEW v \in Listed, SameButFilter(v, s)
  PROVE  Filtered(Refilter(v)) /\ InGroups(Refilter(v))
<1> DEFINE all == v.rows
           w == FilterRows(v, all)
           x == FilterGroups(w, v.headers)
<1>1. Refilter(v) = x
  BY DEF Refilter
<1>2. Boxed(v) /\ HeadersShow(v) /\ Flashing(v) /\ (v.empty <=> v.displayed = {})
  BY DEF SameButFilter, Filtered, FilteredBut, Boxed, HeadersShow, Flashing
<1>3. FilteredBut(v, all) /\ all \in SUBSET v.rows
  BY <1>2 DEF FilteredBut
<1>4. InGroups(v)
  BY GroupsStay DEF SameButFilter
<1> HIDE DEF all
<1>5. Filtered(w) /\ InGroups(w)
  BY <1>3, <1>4, RefilterSettles
<1> HIDE DEF w
<1>6. Filtered(x) /\ SameList(x, w) /\ x.rows = w.rows
  BY <1>5, GroupsKeep
<1> HIDE DEF x
<1>7. InGroups(x)
  BY <1>5, <1>6, GroupsStay DEF SameList
<1> QED BY <1>1, <1>6, <1>7

LEMMA OfflineSettles ==
  ASSUME ViewInv, ShowOffline
  PROVE  ViewInv'
<1> DEFINE s == ViewState
           offline == ~s.showOffline
           v == [s EXCEPT !.showOffline = offline]
<1>1. /\ s \in Listed /\ Filtered(s) /\ InGroups(s) /\ pending \subseteq Events
  BY StateIsListed
<1>2. EventsUnchanged /\ ViewBecomes(Refilter(v))
  BY DEF ShowOffline
<1> HIDE DEF s
<1>3. offline \in BOOLEAN
  OBVIOUS
<1> HIDE DEF offline
<1>4. v \in Listed
  BY <1>1, <1>3 DEF Listed
<1>5. SameButFilter(v, s)
  BY <1>1 DEF Listed, SameButFilter
<1> HIDE DEF v
<1>6. Filtered(Refilter(v)) /\ InGroups(Refilter(v))
  BY <1>1, <1>4, <1>5, AllFiltered
<1>7. pending' \subseteq Events
  BY <1>1, <1>2 DEF EventsUnchanged
<1> QED BY <1>2, <1>6, <1>7, Settles

LEMMA SearchSettles ==
  ASSUME ViewInv, NEW visible \in {"hidden", "text"}, NEW match \in SUBSET ToSet(Contacts),
         SearchTextChanged(visible, match)
  PROVE  ViewInv'
<1> DEFINE s == ViewState
           v == [s EXCEPT !.search = visible, !.match = match]
<1>1. /\ s \in Listed /\ Filtered(s) /\ InGroups(s) /\ pending \subseteq Events
  BY StateIsListed
<1>2. EventsUnchanged /\ ViewBecomes(Refilter(v))
  BY DEF SearchTextChanged
<1> HIDE DEF s
<1>3. v \in Listed
  BY <1>1 DEF Listed
<1>4. SameButFilter(v, s)
  BY <1>1 DEF Listed, SameButFilter
<1> HIDE DEF v
<1>5. Filtered(Refilter(v)) /\ InGroups(Refilter(v))
  BY <1>1, <1>3, <1>4, AllFiltered
<1>6. pending' \subseteq Events
  BY <1>1, <1>2 DEF EventsUnchanged
<1> QED BY <1>2, <1>5, <1>6, Settles

LEMMA ShowGroupsSettles ==
  ASSUME ViewInv, ShowGroups
  PROVE  ViewInv'
<1> DEFINE s == ViewState
           groups == ~s.showGroups
           v == [s EXCEPT !.showGroups = groups]
           x == ClearView(v)
           w == IndividualsAdded(x, model.members)
<1>1. /\ s \in Listed /\ Filtered(s) /\ InGroups(s) /\ pending \subseteq Events
      /\ s.members = model.members
  BY StateIsListed
<1>2. EventsUnchanged /\ ViewBecomes(w)
  BY DEF ShowGroups
<1> HIDE DEF s
<1>3. groups \in BOOLEAN
  OBVIOUS
<1> HIDE DEF groups
<1>4. v \in Listed
  BY <1>1, <1>3 DEF Listed
<1>5. /\ v.members = s.members /\ v.entries = s.entries /\ v.flash = s.flash
      /\ v.rows = s.rows /\ v.displayed = s.displayed /\ v.icons = s.icons /\ v.empty = s.empty
  BY <1>1 DEF Listed
<1> HIDE DEF v
<1>6. Flashing(v) /\ v.displayed \subseteq v.rows /\ (v.empty <=> v.displayed = {})
  BY <1>1, <1>5 DEF Filtered, FilteredBut, Flashing, Boxed
<1>7. Filtered(x) /\ x.contacts = {} /\ x.members = v.members
  BY <1>4, <1>6, ListCleared
<1> HIDE DEF x
<1>8. model.members \in SUBSET ToSet(Contacts) /\ \A i \in x.contacts : HashedRight(x, i)
  BY <1>1, <1>7 DEF Listed
<1>9. /\ Filtered(w) /\ w.members = x.members /\ w.contacts = x.contacts \cup model.members
      /\ \A i \in w.contacts : HashedRight(w, i)
  BY <1>7, <1>8, IndividualsCome
<1> HIDE DEF w
<1>10. InGroups(w)
  BY <1>1, <1>5, <1>7, <1>9 DEF InGroups
<1>11. pending' \subseteq Events
  BY <1>1, <1>2 DEF EventsUnchanged
<1> QED BY <1>2, <1>9, <1>10, <1>11, Settles

LEMMA EventAddedSettles ==
  ASSUME ViewInv, NEW e \in Events, EventAdded(e)
  PROVE  ViewInv'
<1> DEFINE s == ViewState
           one == {e}
           w == AddEvents(s, one)
<1>1. /\ s \in Listed /\ Filtered(s) /\ InGroups(s) /\ pending \subseteq Events
  BY StateIsListed
<1>2. pending' = pending \cup {e} /\ ViewBecomes(w) /\ one \in SUBSET Events
  BY DEF EventAdded
<1> HIDE DEF s, one
<1>3. /\ Filtered(w) /\ w.rows = s.rows /\ w.contacts = s.contacts
      /\ w.members = s.members /\ w.groups = s.groups /\ w.showGroups = s.showGroups
  BY <1>1, <1>2, EntriesCome
<1> HIDE DEF w
<1>4. InGroups(w)
  BY <1>1, <1>3, GroupsStay
<1>5. pending' \subseteq Events
  BY <1>1, <1>2
<1> QED BY <1>2, <1>3, <1>4, <1>5, Settles

LEMMA EventRemovedSettles ==
  ASSUME ViewInv, NEW e \in Events, EventRemoved(e)
  PROVE  ViewInv'
<1> DEFINE s == ViewState
           chosen == {k \in DOMAIN view.entries : view.entries[k].event = e /\ view.entries[k].current}
           w == FirstEntry(s, chosen)
<1>1. /\ s \in Listed /\ Filtered(s) /\ InGroups(s) /\ pending \subseteq Events
      /\ s.entries = view.entries
  BY StateIsListed
<1>2. pending' = pending \ {e} /\ ViewBecomes(w)
  BY DEF EventRemoved
<1> HIDE DEF s
<1>3. EntriesOf(s, chosen, EventOf[e])
  BY <1>1 DEF EntriesOf
<1> HIDE DEF chosen
<1>4. /\ Filtered(w) /\ w.rows = s.rows /\ w.contacts = s.contacts
      /\ w.members = s.members /\ w.groups = s.groups /\ w.showGroups = s.showGroups
  BY <1>1, <1>3, EntryGoes
<1> HIDE DEF w
<1>5. InGroups(w)
  BY <1>1, <1>4, GroupsStay
<1>6. pending' \subseteq Events
  BY <1>1, <1>2
<1> QED BY <1>2, <1>4, <1>5, <1>6, Settles

LEMMA LoadSettles ==
  ASSUME ViewInv, LoadEvents
  PROVE  ViewInv'
<1> DEFINE s == ViewState
           idles == s.idles - 1
           v == [s EXCEPT !.idles = idles]
           w == AddEvents(v, pending)
<1>1. /\ s \in Listed /\ Filtered(s) /\ InGroups(s) /\ pending \subseteq Events
      /\ s.idles = window.idles
  BY StateIsListed
<1>2. window.idles > 0 /\ EventsUnchanged /\ ViewBecomes(w)
  BY DEF LoadEvents
<1> HIDE DEF s
<1>3. idles \in Nat
  <2>1. s.idles \in Nat
    BY <1>1 DEF Listed
  <2> QED BY <1>1, <1>2, <2>1
<1> HIDE DEF idles
<1>4. v \in Listed
  BY <1>1, <1>3 DEF Listed
<1>5. SameBox(v, s) /\ v.members = s.members /\ v.groups = s.groups
  BY <1>1 DEF Listed, SameBox
<1> HIDE DEF v
<1>6. Filtered(v) /\ InGroups(v)
  BY <1>1, <1>4, <1>5, ModelMoves, GroupsStay DEF SameBox
<1>7. /\ Filtered(w) /\ w.rows = v.rows /\ w.contacts = v.contacts
      /\ w.members = v.members /\ w.groups = v.groups /\ w.showGroups = v.showGroups
  BY <1>1, <1>6, EntriesCome
<1> HIDE DEF w
<1>8. InGroups(w)
  BY <1>6, <1>7, GroupsStay
<1>9. pending' \subseteq Events
  BY <1>1, <1>2 DEF EventsUnchanged
<1> QED BY <1>2, <1>7, <1>8, <1>9, Settles

LEMMA FlashSettles ==
  ASSUME ViewInv, Flash
  PROVE  ViewInv'
<1> DEFINE s == ViewState
           named == {EventOf[n.event] : n \in ToSet(view.entries)} \cap view.contacts
           rows == UNION {RowsOf(s, i) : i \in named}
           on == view.flash = "icons next"
           icons == IF on THEN s.icons \cup rows ELSE s.icons \ rows
           flash == IF on THEN "no icons next" ELSE "icons next"
           v == [s EXCEPT !.icons = icons, !.flash = flash]
<1>1. /\ s \in Listed /\ Filtered(s) /\ InGroups(s) /\ pending \subseteq Events
      /\ s.entries = view.entries /\ s.rows = view.rows
  BY StateIsListed
<1>2. /\ UNCHANGED <<model, window, pending>> /\ view.flash # "off"
      /\ view' = [view EXCEPT !.icons = icons, !.flash = flash]
  <2>1. s.icons = view.icons
    BY DEF ViewState
  <2>2. /\ UNCHANGED <<model, window, pending>> /\ view.flash # "off"
        /\ view' = IF on THEN [view EXCEPT !.icons = @ \cup rows, !.flash = "no icons next"]
                         ELSE [view EXCEPT !.icons = @ \ rows, !.flash = "icons next"]
    BY DEF Flash
  <2> HIDE DEF rows, s
  <2>3. /\ [view EXCEPT !.icons = @ \cup rows, !.flash = "no icons next"]
             = [view EXCEPT !.icons = view.icons \cup rows, !.flash = "no icons next"]
        /\ [view EXCEPT !.icons = @ \ rows, !.flash = "icons next"]
             = [view EXCEPT !.icons = view.icons \ rows, !.flash = "icons next"]
    BY DEF ViewInv, ViewTyped
  <2>4. CASE on
    BY <2>1, <2>2, <2>3, <2>4
  <2>5. CASE ~on
    BY <2>1, <2>2, <2>3, <2>5
  <2> QED BY <2>2, <2>4, <2>5
<1>3. view.icons = s.icons /\ view.flash = s.flash
  BY DEF ViewState
<1>4. \A r \in rows : r \in s.rows /\ \E n \in ToSet(s.entries) : EventOf[n.event] = r[1]
  <2>1. \A r : r \in rows <=> \E i \in named : r \in RowsOf(s, i)
    OBVIOUS
  <2>2. \A i \in named : \E n \in ToSet(s.entries) : EventOf[n.event] = i
    BY <1>1
  <2> HIDE DEF rows, named, s
  <2>3. ASSUME NEW r \in rows
        PROVE  r \in s.rows /\ \E n \in ToSet(s.entries) : EventOf[n.event] = r[1]
    <3>1. PICK i \in named : r \in RowsOf(s, i)
      BY <2>1
    <3>2. PICK g \in Hashed(s, i) : r = <<i, g, "row">>
      BY <3>1 DEF RowsOf
    <3>3. r[1] = i /\ r \in s.rows
      BY <3>2 DEF Hashed
    <3> QED BY <2>2, <3>3
  <2> QED BY <2>3
<1>5. \A r : r \in icons => r \in s.icons \/ r \in rows
  OBVIOUS
<1>6. flash \in {"icons next", "no icons next"}
  OBVIOUS
<1>7. ViewBecomes(v)
  <2> DEFINE fields == {"contacts", "rows", "headers", "collapsed", "shown", "displayed", "icons",
                        "entries", "flash", "showGroups", "showOffline", "empty", "search", "match"}
             now == [view EXCEPT !.icons = icons, !.flash = flash]
  <2> HIDE DEF icons, flash
  <2>1. DOMAIN view = fields /\ view = [f \in fields |-> view[f]]
    BY DEF ViewInv, ViewTyped
  <2>2. /\ s.members = model.members /\ s.groups = model.groups /\ s.online = model.online
        /\ s.page = window.page /\ s.idles = window.idles
        /\ s.contacts = view.contacts /\ s.rows = view.rows /\ s.headers = view.headers
        /\ s.collapsed = view.collapsed /\ s.shown = view.shown /\ s.displayed = view.displayed
        /\ s.entries = view.entries /\ s.showGroups = view.showGroups
        /\ s.showOffline = view.showOffline /\ s.empty = view.empty
        /\ s.search = view.search /\ s.match = view.match
    BY DEF ViewState
  <2> HIDE DEF s
  <2>3. /\ v.members = s.members /\ v.groups = s.groups /\ v.online = s.online
        /\ v.page = s.page /\ v.idles = s.idles
        /\ v.contacts = s.contacts /\ v.rows = s.rows /\ v.headers = s.headers
        /\ v.collapsed = s.collapsed /\ v.shown = s.shown /\ v.displayed = s.displayed
        /\ v.entries = s.entries /\ v.showGroups = s.showGroups
        /\ v.showOffline = s.showOffline /\ v.empty = s.empty
        /\ v.search = s.search /\ v.match = s.match /\ v.icons = icons /\ v.flash = flash
    BY <1>1 DEF Listed
  <2> HIDE DEF v
  <2>4. now = [f \in fields |-> now[f]] /\ \A f \in fields : now[f] = v[f]
    <3>1. /\ now = [f \in fields |-> now[f]]
          /\ now.contacts = view.contacts /\ now.rows = view.rows
          /\ now.headers = view.headers /\ now.collapsed = view.collapsed
          /\ now.shown = view.shown /\ now.displayed = view.displayed
          /\ now.entries = view.entries /\ now.showGroups = view.showGroups
          /\ now.showOffline = view.showOffline /\ now.empty = view.empty
          /\ now.search = view.search /\ now.match = view.match
          /\ now.icons = icons /\ now.flash = flash
      BY <2>1
    <3> HIDE DEF now
    <3> QED BY <2>2, <2>3, <3>1
  <2> HIDE DEF now
  <2>5. view' = [f \in DOMAIN view |-> v[f]]
    <3>1. view' = now
      BY <1>2 DEF now
    <3> HIDE DEF fields
    <3> QED BY <2>1, <2>4, <3>1
  <2>6. /\ model = [members |-> model.members, groups |-> model.groups, online |-> model.online]
        /\ window = [page |-> window.page, idles |-> window.idles]
    BY DEF ViewInv, ViewTyped
  <2> QED BY <1>2, <2>2, <2>3, <2>5, <2>6 DEF ViewBecomes
<1>8. icons \in SUBSET Rows /\ icons \subseteq s.rows
  BY <1>1, <1>4, <1>5 DEF Filtered, FilteredBut, Boxed, Listed
<1>a. s.entries # <<>>
  BY <1>1, <1>2, <1>3 DEF Filtered, FilteredBut, Flashing
<1> HIDE DEF s, rows, icons, flash
<1>9. v \in Listed
  BY <1>1, <1>6, <1>8 DEF Listed
<1>10. /\ v.members = s.members /\ v.groups = s.groups /\ v.online = s.online
       /\ v.contacts = s.contacts /\ v.rows = s.rows /\ v.headers = s.headers
       /\ v.collapsed = s.collapsed /\ v.shown = s.shown /\ v.displayed = s.displayed
       /\ v.icons = icons /\ v.entries = s.entries /\ v.flash = flash
       /\ v.showGroups = s.showGroups /\ v.showOffline = s.showOffline /\ v.empty = s.empty
       /\ v.search = s.search /\ v.match = s.match
  BY <1>1 DEF Listed
<1> HIDE DEF v
<1>11. Boxed(v) /\ HeadersShow(v) /\ (v.empty <=> v.displayed = {})
  BY <1>1, <1>8, <1>10 DEF Filtered, FilteredBut, Boxed, HeadersShow
<1>12. Flashing(v)
  BY <1>1, <1>a, <1>4, <1>5, <1>6, <1>10 DEF Filtered, FilteredBut, Flashing
<1>13. \A r \in v.rows : Exact(v, r)
  BY <1>1, <1>10 DEF Filtered, FilteredBut, Exact, Searching, Passes, ShouldBeDisplayed, InTop
<1>14. Filtered(v)
  BY <1>9, <1>11, <1>12, <1>13 DEF Filtered, FilteredBut
<1>15. InGroups(v)
  BY <1>1, <1>10, GroupsStay
<1>16. pending' \subseteq Events
  BY <1>1, <1>2
<1> QED BY <1>7, <1>14, <1>15, <1>16, Settles

-----------------------------------------------------------------------------
LEMMA ViewStarts == ViewInit => ViewInv
<1> SUFFICES ASSUME ViewInit PROVE ViewInv
  OBVIOUS
<1> DEFINE none == {}
           empty == <<>>
           noGroups == [i \in ToSet(Contacts) |-> none]
           nobody == [i \in ToSet(Contacts) |-> FALSE]
<1>1. /\ none = {} /\ empty = <<>> /\ empty \in Seq(Entries)
      /\ noGroups \in [ToSet(Contacts) -> SUBSET ({"top"} \cup ToSet(Groups))]
      /\ nobody \in [ToSet(Contacts) -> BOOLEAN]
  OBVIOUS
<1>2. /\ model = [members |-> none, groups |-> noGroups, online |-> nobody]
      /\ view = [contacts |-> none, rows |-> none, headers |-> none, collapsed |-> none,
                 shown |-> none, displayed |-> none, icons |-> none, entries |-> empty,
                 flash |-> "off", showGroups |-> FALSE, showOffline |-> FALSE, empty |-> TRUE,
                 search |-> "hidden", match |-> none]
      /\ window = [page |-> "list", idles |-> 0] /\ pending = none
  BY DEF ViewInit
<1> HIDE DEF none, empty, noGroups, nobody
<1>3. ViewTyped
  BY <1>1, <1>2 DEF ViewTyped
<1> DEFINE s == ViewState
<1>4. /\ s.rows = {} /\ s.displayed = {} /\ s.icons = {} /\ s.entries = <<>> /\ s.flash = "off"
      /\ s.empty /\ s.contacts = {} /\ s.members = {}
  BY <1>1, <1>2 DEF ViewState
<1>5. s \in Listed
  BY <1>3, ViewStateTyped
<1> HIDE DEF s
<1>6. Boxed(s) /\ HeadersShow(s) /\ Flashing(s) /\ (s.empty <=> s.displayed = {})
      /\ (\A r \in s.rows : Exact(s, r)) /\ InGroups(s)
  BY <1>4 DEF Boxed, HeadersShow, Flashing, InGroups
<1> QED BY <1>3, <1>5, <1>6 DEF ViewInv, Filtered, FilteredBut, s

LEMMA ViewSteps == ViewInv /\ [ViewNext]_viewVars => ViewInv'
<1> SUFFICES ASSUME ViewInv, [ViewNext]_viewVars PROVE ViewInv'
  OBVIOUS
<1>1. CASE ViewNext
  <2>1. ASSUME NEW i \in ToSet(Contacts),
               ModelAdded(i) \/ ModelRemoved(i) \/ LeavesTop(i) \/ PresenceChanged(i)
        PROVE  ViewInv'
    BY <2>1, AddedSettles, RemovedSettles, TopLeftSettles, PresenceSettles
  <2>2. ASSUME NEW i \in ToSet(Contacts), NEW g \in {"top"} \cup ToSet(Groups),
               NEW member \in BOOLEAN, GroupsChanged(i, g, member)
        PROVE  ViewInv'
    BY <2>2, GroupsChangedSettles
  <2>3. CASE ShowOffline \/ ShowGroups \/ LoadEvents \/ Flash
    BY <2>3, OfflineSettles, ShowGroupsSettles, LoadSettles, FlashSettles
  <2>4. ASSUME NEW g \in ToSet(AllGroups), ToggleGroup(g) PROVE ViewInv'
    BY <2>4, ToggleSettles
  <2>5. ASSUME NEW visible \in {"hidden", "text"}, NEW match \in SUBSET ToSet(Contacts),
               SearchTextChanged(visible, match)
        PROVE  ViewInv'
    BY <2>5, SearchSettles
  <2>6. ASSUME NEW e \in Events, EventAdded(e) \/ EventRemoved(e) PROVE ViewInv'
    BY <2>6, EventAddedSettles, EventRemovedSettles
  <2> QED BY <1>1, <2>1, <2>2, <2>3, <2>4, <2>5, <2>6 DEF ViewNext, ViewStep
<1>2. CASE UNCHANGED viewVars
  <2>1. ViewTyped' /\ ViewState' = ViewState
    BY <1>2 DEF viewVars, ViewInv, ViewTyped, ViewState
  <2> QED BY <2>1, SettlesThere DEF ViewInv
<1> QED BY <1>1, <1>2

LEMMA RowsFollow == ViewInv => RowsFollowTheModel
<1> SUFFICES ASSUME ViewInv PROVE RowsFollowTheModel
  OBVIOUS
<1> DEFINE s == ViewState
<1>1. s \in Listed /\ Filtered(s) /\ InGroups(s)
  BY StateIsListed
<1>2. /\ s.members = model.members /\ s.groups = model.groups /\ s.online = model.online
      /\ s.contacts = view.contacts /\ s.rows = view.rows /\ s.shown = view.shown
      /\ s.displayed = view.displayed /\ s.icons = view.icons /\ s.entries = view.entries
      /\ s.flash = view.flash /\ s.showGroups = view.showGroups
      /\ s.showOffline = view.showOffline /\ s.empty = view.empty
  BY DEF ViewState
<1> HIDE DEF s
<1>3. /\ view.contacts = model.members
      /\ \A i \in view.contacts :
           LET rows == Hashed(s, i)
           IN  IF view.showGroups
               THEN rows # {} /\ rows \cap ToSet(Groups) = model.groups[i] \cap ToSet(Groups)
               ELSE rows = {"none"}
  BY <1>1, <1>2 DEF InGroups, HashedRight
<1>4. view.showGroups => {r[2] : r \in {q \in view.displayed : q[3] = "row"}} \subseteq view.shown
  BY <1>1, <1>2 DEF Filtered, FilteredBut, HeadersShow
<1>5. /\ \A r \in view.rows :
           view.showGroups \/ Searching(s) \/ view.showOffline \/ model.online[r[1]]
             => (r \in view.displayed <=> Passes(s, r))
      /\ view.empty <=> view.displayed = {}
  BY <1>1, <1>2 DEF Filtered, FilteredBut, Exact
<1>6. /\ view.flash = "off" <=> view.entries = <<>>
      /\ \A r \in view.icons : r[3] = "row" => \E n \in ToSet(view.entries) : EventOf[n.event] = r[1]
  BY <1>1, <1>2 DEF Filtered, FilteredBut, Flashing
<1> QED BY <1>3, <1>4, <1>5, <1>6 DEF RowsFollowTheModel, FilterIsUpToDate, s

(* Whatever individuals come and go, join groups and leave them, come online *)
(* and go, and however the list is laid out, folded and searched, the rows   *)
(* of the list are those of the model, and flash while there are events.     *)
THEOREM RowsAreTheModel == ViewSpec => []RowsFollowTheModel
<1>1. ViewSpec => []ViewInv
  BY ViewStarts, ViewSteps, PTL DEF ViewSpec
<1> QED BY <1>1, RowsFollow, PTL
============================================================================
