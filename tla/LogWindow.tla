------------------------------ MODULE LogWindow ------------------------------
(***************************************************************************)
(* libempathy-gtk/empathy-log-window.c and libempathy/action-chain.c: the   *)
(* window of the previous conversations.  Its panes say whose, which and    *)
(* what days' events are shown; a chain of actions asks the logger for      *)
(* them one call at a time, and a counter tells the answers that are still  *)
(* wanted from those that are not.                                          *)
(***************************************************************************)
EXTENDS Naturals, Sequences, FiniteSets, SequencesExt

CONSTANTS
  Entities, AccountOf,  \* contacts and rooms with logs, and their accounts
  LastDay,              \* days are 1..LastDay, and the last is today
  CallLogs,             \* the entries of the logs that are calls; others are texts
  MaxActs, MaxSearches   \* bounds: what the user does and happens to the logs, the searches at once

ASSUME LogsAssumption ==
  /\ IsFiniteSet(Entities) /\ AccountOf \in [Entities -> STRING]
  /\ LastDay \in Nat \ {0} /\ CallLogs \subseteq Entities \X (1..LastDay)
  /\ {MaxActs, MaxSearches} \subseteq Nat

Days == 1..LastDay
Entry == Entities \X Days
LogAccounts == {AccountOf[e] : e \in Entities}
Kinds == {"anything", "calls"}
Anyone == "anyone"
Anytime == 0            \* the row above the days
NoChat == "no chat"

VARIABLES
  logs,      \* what the logger has written
  win,       \* priv
  strays,    \* calls made by a window that was closed
  found,     \* number of searches in the logger; their handlers are static
  late,      \* history: entries written since they were last read, or not read for an error
  acts,
  fate       \* "fine"; "mixed": a closed window's call was answered to another; "crash"
logVars == <<logs, win, strays, found, late, acts, fate>>

Closed == win.open = FALSE
(* The text searched for (last_find) stands for the entries that it lets     *)
(* pass: all but the calls that do not contain it.                          *)
New == [open |-> TRUE, account |-> "all", chat |-> NoChat,
        listed |-> {}, who |-> {}, what |-> "anything", days |-> {}, when |-> {},
        current |-> {}, passes |-> Entry, hits |-> {}, blocked |-> 0,
        queue |-> <<>>, running |-> FALSE, calls |-> {}, shown |-> {}, twice |-> FALSE, spin |-> FALSE]

-----------------------------------------------------------------------------
(* The panes.                                                               *)
Targets(w) == IF Anyone \in w.who THEN w.listed ELSE w.who
ChosenDays(w) == IF Anytime \in w.when THEN w.days ELSE w.when
OfKind(kind) == IF kind = "calls" THEN CallLogs ELSE Entry

Ask(do, of, w) == [do |-> do, of |-> of, what |-> w.what]
Asks(do, S, w) == [i \in 1..Cardinality(S) |-> Ask(do, SetToSeq(S)[i], w)]
Sync(do) == <<[do |-> do, of |-> <<>>, what |-> "anything"]>>

(* Mutant: the counter is not incremented. *)
OutdateKeepsCount(w) == [w EXCEPT !.queue = <<>>]

(* _tpl_action_chain_clear () and count++ *)
Stale(calls) == {[c EXCEPT !.wanted = FALSE] : c \in calls}
Outdate(w) == [w EXCEPT !.queue = <<>>, !.calls = Stale(@)]

StartSpinner(w, asks) == [w EXCEPT !.spin = TRUE, !.queue = asks \o Sync("show")]

(* log_window_get_messages_for_dates () *)
DayEvents(w) == StartSpinner(Outdate(w), Asks("events", Targets(w) \X ChosenDays(w), w))

(* populate_events_from_search_hits () *)
HitEvents(w) ==
  StartSpinner(w, Asks("events", w.hits \cap (Targets(w) \X (IF Anytime \in w.when THEN Days ELSE w.when)), w))

Empty(w) == [Outdate(w) EXCEPT !.shown = {}, !.twice = FALSE]

(* log_window_chats_get_messages (), up to the start of the chain.          *)
Latest(days) == IF days = {} THEN {} ELSE {CHOOSE d \in days : \A o \in days : o <= d}
GetMessages(w, force) ==
  IF w.who = {} THEN w
  ELSE IF w.hits # {} /\ ~force THEN HitEvents(Empty(w))
  ELSE IF w.hits # {}
  THEN LET days == {h[2] : h \in {h \in w.hits : h[1] \in Targets(w)}}
           x == [Empty(w) EXCEPT !.days = days, !.when = Latest(days)]
       IN IF days = {} \/ w.blocked > 0 THEN x ELSE HitEvents(Empty(x))
  ELSE IF force \/ w.when = {}
  THEN [Empty(w) EXCEPT !.current = w.when, !.days = {}, !.when = {},
          !.queue = Asks("dates", {<<e>> : e \in Targets(w)}, w) \o Sync("select")]
  ELSE DayEvents(Empty(w))

(* select_first_entity (): the first row is "Anyone", if there is one.      *)
SelectFirstEntity(w) ==
  IF w.listed = {} \/ w.who = {Anyone} THEN w
  ELSE GetMessages([w EXCEPT !.who = {Anyone}], TRUE)

(* select_date (): the days that were selected before, or the most recent.  *)
SelectDate(w) ==
  LET before == IF w.days = {} THEN {} ELSE w.current \cap (w.days \cup {Anytime})
      when == IF before = {} THEN Latest(w.days)
              ELSE IF Anytime \in before THEN {Anytime} ELSE before
      x == [w EXCEPT !.when = when]
  IN IF when = w.when \/ w.blocked > 0 THEN x ELSE GetMessages(x, FALSE)

-----------------------------------------------------------------------------
(* _tpl_action_chain_continue (): an action that is not a call of the       *)
(* logger runs at once, may replace the chain, and continues it; to start   *)
(* a chain that is running does nothing.                                    *)
ChainEnds(w) == [w EXCEPT !.running = FALSE]
Call(ask) == [do |-> ask.do, of |-> ask.of, what |-> ask.what, wanted |-> TRUE]
Calls(w) ==
  IF w.queue = <<>> THEN ChainEnds(w)
  ELSE IF Head(w.queue).do = "show" THEN ChainEnds([w EXCEPT !.queue = Tail(@), !.spin = FALSE])
  ELSE [w EXCEPT !.queue = Tail(@), !.running = Len(w.queue) > 1,
          !.calls = @ \cup {Call(Head(w.queue))}]
Dates(w) ==
  IF w.queue # <<>> /\ Head(w.queue).do = "select"
  THEN Calls(SelectDate([w EXCEPT !.queue = Tail(@), !.running = TRUE])) ELSE Calls(w)
Continue(w) ==
  IF w.queue # <<>> /\ Head(w.queue).do = "first"
  THEN Dates(SelectFirstEntity([w EXCEPT !.queue = Tail(@), !.running = TRUE])) ELSE Dates(w)
Start(w) == IF w.running \/ w.queue = <<>> THEN w ELSE Continue(w)

(* populate_entities_from_search_hits () *)
PopulateHits(w) ==
  LET listed == {e \in {h[1] : h \in w.hits} : w.account \in {"all", "none", AccountOf[e]}}
      x == [w EXCEPT !.listed = listed, !.who = IF listed = {} THEN {} ELSE {Anyone}]
  IN Start(GetMessages(x, TRUE))

(* log_window_who_populate () *)
WhoPopulate(w) ==
  LET x == Outdate([w EXCEPT !.listed = {}, !.who = {}])
      accounts == IF w.account = "all" THEN LogAccounts ELSE {w.account}
  IN IF w.hits # {} THEN PopulateHits(w)
     ELSE IF w.account = "none" THEN x
     ELSE Start([x EXCEPT !.queue = Asks("entities", {<<a>> : a \in accounts}, w) \o Sync("first")])

-----------------------------------------------------------------------------
(* Answers of the logger.                                                   *)
(* log_manager_got_entities_cb () and log_window_chats_set_selected ()      *)
GotEntities(w, account) ==
  LET new == {e \in Entities : AccountOf[e] = account /\ \E d \in Days : <<e, d>> \in logs}
      x == [w EXCEPT !.listed = @ \cup new]
      asked == w.chat # NoChat /\ AccountOf[w.chat] = account /\ new # {}
      y == [x EXCEPT !.chat = NoChat, !.who = @ \cup {w.chat}]
  IN IF ~asked THEN x
     ELSE IF w.chat \in x.listed \ x.who THEN Start(GetMessages(y, TRUE))
     ELSE [x EXCEPT !.chat = NoChat]

GotDates(w, c) ==
  [w EXCEPT !.days = @ \cup {d \in Days : <<c.of[1], d>> \in logs \cap OfKind(c.what)}]

(* log_window_append_message (): calls without the text searched for are     *)
(* ignored by log_window_append_call ().                                    *)
ToAppend(w, events) == events \cap w.passes

GotEvents(w, c) ==
  LET new == ToAppend(w, {c.of} \cap logs \cap OfKind(c.what))
  IN [w EXCEPT !.shown = @ \cup new, !.twice = @ \/ new \cap w.shown # {}]

Got(w, c) ==
  CASE c.do = "entities" -> GotEntities(w, c.of[1])
    [] c.do = "dates" -> GotDates(w, c)
    [] c.do = "events" -> GotEvents(w, c)

(* Mutant: an answer that is not wanted any more ends the chain. *)
AnsweredStops(w, c, ok) ==
  IF c.wanted THEN Continue(IF ok THEN Got(w, c) ELSE w) ELSE w

Answered(w, c, ok) == Continue(IF c.wanted /\ ok THEN Got(w, c) ELSE w)

Answer ==
  \E c \in win.calls :
    /\ fate = "fine"
    /\ \E ok \in BOOLEAN :
         /\ win' = Answered([win EXCEPT !.calls = @ \ {c}], c, ok)
         /\ late' = IF c.do # "events" \/ ~c.wanted THEN late
                    ELSE IF ok THEN late \ {c.of} ELSE late \cup {c.of}
    /\ UNCHANGED <<logs, strays, found, acts, fate>>

(* The answer to a window that was closed: log_window is NULL, which only   *)
(* log_manager_got_entities_cb () uses; or another window, whose counter    *)
(* may be the same, and whose chain goes on.                                *)
StrayAnswer ==
  \E c \in strays : \E same \in BOOLEAN :
    /\ fate = "fine"
    /\ strays' = strays \ {c}
    /\ IF Closed
       THEN fate' = (IF c.do = "entities" THEN "crash" ELSE fate) /\ UNCHANGED win
       ELSE /\ fate' = IF same /\ c.do = "entities" THEN "crash" ELSE "mixed"
            /\ win' = Answered(win, [c EXCEPT !.wanted = same], TRUE)
    /\ UNCHANGED <<logs, found, late, acts>>

(* log_manager_searched_new_cb (): an error leaves the days' handler blocked. *)
Searched ==
  /\ found > 0 /\ fate = "fine"
  /\ found' = found - 1
  /\ \/ UNCHANGED win
     \/ Closed /\ UNCHANGED win
     \/ \E hits \in SUBSET logs :
          /\ ~Closed
          /\ win' = PopulateHits([win EXCEPT !.hits = hits, !.blocked = IF @ = 0 THEN 0 ELSE @ - 1])
  /\ UNCHANGED <<logs, strays, late, acts, fate>>

-----------------------------------------------------------------------------
(* What the user does.                                                      *)
Act ==
  /\ ~Closed /\ fate = "fine" /\ acts < MaxActs
  /\ acts' = acts + 1
  /\ UNCHANGED <<strays, fate>>
Show(w) == win' = w

SelectWho(S) ==
  /\ Act /\ S # win.who
  /\ Show(Start(GetMessages([win EXCEPT !.who = S], TRUE)))
  /\ UNCHANGED <<logs, found, late>>

SelectWhen(S) ==
  /\ Act /\ S # win.when
  /\ LET w == [win EXCEPT !.when = S]
     IN Show(IF win.blocked > 0 THEN w ELSE Start(GetMessages(w, FALSE)))
  /\ UNCHANGED <<logs, found, late>>

SelectWhat(kind) ==
  /\ Act /\ kind # win.what
  /\ Show(Start(GetMessages([win EXCEPT !.what = kind], win.hits = {})))
  /\ UNCHANGED <<logs, found, late>>

ChooseAccount(a) ==
  /\ Act /\ a # win.account
  /\ Show(WhoPopulate([win EXCEPT !.account = a, !.shown = {}, !.twice = FALSE]))
  /\ UNCHANGED <<logs, found, late>>

(* start_find_search () and log_window_find_populate (): neither the chain   *)
(* nor the counter changes, and calls are filtered by the new text before    *)
(* its hits arrive.                                                         *)
Search ==
  /\ Act /\ found < MaxSearches
  /\ found' = found + 1
  /\ \E calls \in SUBSET CallLogs :
       Show([win EXCEPT !.passes = (Entry \ CallLogs) \cup calls,
               !.shown = {}, !.twice = FALSE, !.listed = {}, !.who = {}, !.days = {},
               !.when = {}, !.blocked = @ + 1])
  /\ UNCHANGED <<logs, late>>

ClearSearch ==
  /\ Act
  /\ Show(WhoPopulate([win EXCEPT !.shown = {}, !.twice = FALSE, !.listed = {}, !.who = {},
                         !.days = {}, !.when = {}, !.passes = Entry, !.hits = {}]))
  /\ UNCHANGED <<logs, found, late>>

(* log_window_delete_menu_clicked_cb () and log_window_logger_clear_account_cb () *)
DeleteLogs(accounts) ==
  /\ Act
  /\ logs' \in {logs, {l \in logs : AccountOf[l[1]] \notin accounts}}
  /\ late' = late \cap logs'
  /\ Show(WhoPopulate([win EXCEPT !.shown = {}, !.twice = FALSE]))
  /\ UNCHANGED found

(* Something is sent or received today, or a call ends: the logger writes   *)
(* it before or after the observer hears of it.  maybe_refresh_logs ()      *)
Logged(e) ==
  /\ Act /\ <<e, LastDay>> \notin logs
  /\ logs' = logs \cup {<<e, LastDay>>}
  /\ late' = late \cup {<<e, LastDay>>}
  /\ UNCHANGED <<win, found>>

Observed(e) ==
  LET shows == /\ win.who # {} /\ <<e, LastDay>> \in OfKind(win.what)
               /\ win.when \cap {Anytime, LastDay} # {}
               /\ Anyone \in win.who \/ e \in win.who
  IN /\ Act /\ shows
     /\ Show(Start(GetMessages(win, FALSE)))
     /\ UNCHANGED <<logs, found, late>>

Opened(chat) ==
  WhoPopulate([New EXCEPT !.chat = chat, !.account = IF chat = NoChat THEN "all" ELSE AccountOf[chat]])

CloseLogs ==
  /\ ~Closed /\ fate = "fine"
  /\ win' = [New EXCEPT !.open = FALSE]
  /\ strays' = strays \cup win.calls
  /\ UNCHANGED <<logs, found, late, acts, fate>>

(* empathy_log_window_show () *)
ShowLogs(chat) ==
  /\ Closed /\ fate = "fine" /\ acts < MaxActs
  /\ acts' = acts + 1
  /\ win' = Opened(chat)
  /\ UNCHANGED <<logs, strays, found, late, fate>>

-----------------------------------------------------------------------------
LogsInit ==
  /\ logs \in (SUBSET Entry) \ {{}}
  /\ win = [New EXCEPT !.open = FALSE]
  /\ strays = {} /\ found = 0 /\ late = {} /\ acts = 0 /\ fate = "fine"

LogsNext ==
  \/ Answer \/ StrayAnswer \/ Searched \/ Search \/ ClearSearch \/ CloseLogs
  \/ \E chat \in Entities \cup {NoChat} : ShowLogs(chat)
  \/ \E S \in (SUBSET win.listed) \cup (IF win.listed = {} THEN {} ELSE {{Anyone}}) : SelectWho(S)
  \/ \E S \in (SUBSET win.days) \cup (IF win.days = {} THEN {} ELSE {{Anytime}}) : SelectWhen(S)
  \/ \E kind \in Kinds : SelectWhat(kind)
  \/ \E a \in LogAccounts \cup {"all", "none"} : ChooseAccount(a)
  \/ \E accounts \in {LogAccounts} \cup {{a} : a \in LogAccounts} : DeleteLogs(accounts)
  \/ \E e \in Entities : Logged(e) \/ Observed(e)

(* The logger answers.                                                      *)
LogsFairness == WF_logVars(Answer) /\ WF_logVars(Searched)
LogsSpec == LogsInit /\ [][LogsNext]_logVars /\ LogsFairness

-----------------------------------------------------------------------------
AtRest == win.open /\ win.calls = {} /\ win.queue = <<>> /\ found = 0 /\ win.blocked = 0

Wanted ==
  logs \cap OfKind(win.what) \cap win.passes \cap (Targets(win) \X ChosenDays(win))
       \cap (IF win.hits = {} THEN Entry ELSE win.hits)

(* One call at a time, and when all is answered the events shown are those  *)
(* of the panes, each once, but for the calls that do not contain the text  *)
(* searched for now: none was left by the filter of an earlier text.        *)
EventsFollowPanes ==
  fate = "fine" =>
    /\ Cardinality(win.calls) <= 1 /\ ~win.twice
    /\ win.queue # <<>> => win.running /\ win.calls # {}
    /\ AtRest /\ win.who # {} /\ win.when # {} =>
         win.shown \subseteq Wanted /\ Wanted \ win.shown \subseteq late

(* What is being loaded is shown in the end, unless nothing is chosen any   *)
(* more: then nobody stops the spinner.                                     *)
SpinnerStops ==
  win.spin ~> (~win.spin \/ win.who = {} \/ win.when = {} \/ win.blocked > 0 \/ fate # "fine")
=============================================================================
