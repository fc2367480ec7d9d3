--------------------------- MODULE TextChatProofs ---------------------------
(***************************************************************************)
(* Text chats, for any chats, contacts, messages and channels: the windows *)
(* and their tabs, a channel that gets ready, the messages and their unread *)
(* count, and the password of a room.                                      *)
(***************************************************************************)
EXTENDS ChatMessages, ChatPassword, TpChat, ChatManager, ListFacts, TLAPS

-----------------------------------------------------------------------------
(* Windows.  Tabs are in place when no chat has two of them and the windows *)
(* are those that have tabs.                                                *)

TabsFit(ws, ts) ==
  /\ ws \in Seq(Windows) /\ IsInjective(ws)
  /\ ts \in [Windows -> Seq(Chats)]
  /\ ToSet(ws) = {w \in Windows : ts[w] # <<>>}
  /\ \A w \in Windows : IsInjective(ts[w])
  /\ \A v, w \in Windows : v # w => ToSet(ts[v]) \intersect ToSet(ts[w]) = {}

LEMMA EmptyList ==
  ASSUME NEW S, NEW s \in Seq(S)
  PROVE  /\ ToSet(s) \subseteq S /\ (s = <<>> <=> ToSet(s) = {})
<1>1. DOMAIN s = 1..Len(s) /\ Len(s) \in Nat /\ \A i \in 1..Len(s) : s[i] \in S
  OBVIOUS
<1>2. ToSet(s) \subseteq S
  BY <1>1 DEF ToSet
<1>3. CASE s = <<>>
  BY <1>1, <1>2, <1>3 DEF ToSet
<1>4. CASE s # <<>>
  <2>1. 1 \in DOMAIN s
    BY <1>1, <1>4
  <2> QED BY <1>2, <1>4, <2>1 DEF ToSet
<1> QED BY <1>3, <1>4

(* The tabs of one window become others. *)
LEMMA TabsOfOne ==
  ASSUME NEW ws, NEW ts, TabsFit(ws, ts), NEW w \in Windows,
         NEW s \in Seq(Chats), IsInjective(s),
         \A v \in Windows \ {w} : ToSet(ts[v]) \intersect ToSet(s) = {},
         NEW us \in Seq(Windows), IsInjective(us),
         ToSet(us) = IF s = <<>> THEN ToSet(ws) \ {w} ELSE ToSet(ws) \union {w}
  PROVE  TabsFit(us, [ts EXCEPT ![w] = s])
<1> DEFINE t == [ts EXCEPT ![w] = s]
<1>1. /\ t \in [Windows -> Seq(Chats)] /\ t[w] = s
      /\ \A v \in Windows \ {w} : t[v] = ts[v]
  BY DEF TabsFit
<1> HIDE DEF t
<1>2. ToSet(us) = {v \in Windows : t[v] # <<>>}
  BY <1>1 DEF TabsFit
<1>3. \A v \in Windows : IsInjective(t[v])
  BY <1>1 DEF TabsFit
<1>4. \A u, v \in Windows : u # v => ToSet(t[u]) \intersect ToSet(t[v]) = {}
  BY <1>1 DEF TabsFit
<1> QED BY <1>1, <1>2, <1>3, <1>4 DEF TabsFit, t

LEMMA TabAdded ==
  ASSUME NEW ws, NEW ts, TabsFit(ws, ts), NEW w \in Windows, NEW c \in Chats,
         \A v \in Windows : c \notin ToSet(ts[v]),
         NEW s \in Seq(Chats), IsInjective(s), ToSet(s) = ToSet(ts[w]) \union {c}
  PROVE  TabsFit(AddTo(w, c, ws), [ts EXCEPT ![w] = s])
<1> DEFINE us == AddTo(w, c, ws)
<1>1. s # <<>>
  BY EmptyList
<1>2. \A v \in Windows \ {w} : ToSet(ts[v]) \intersect ToSet(s) = {}
  BY DEF TabsFit
<1>3. us \in Seq(Windows) /\ IsInjective(us) /\ ToSet(us) = ToSet(ws) \union {w}
  <2>1. CASE w \in ToSet(ws)
    BY <2>1 DEF AddTo, TabsFit
  <2>2. CASE w \notin ToSet(ws)
    <3>1. us = <<w>> \o ws
      BY <2>2 DEF AddTo
    <3> QED BY <2>2, <3>1, PrependSet DEF TabsFit
  <2> QED BY <2>1, <2>2
<1> HIDE DEF us
<1>4. TabsFit(us, [ts EXCEPT ![w] = s])
  BY <1>1, <1>2, <1>3, TabsOfOne
<1> QED BY <1>4 DEF us

(* A window loses some tabs, and goes with the last one. *)
LEMMA TabsGone ==
  ASSUME NEW ws, NEW ts, TabsFit(ws, ts), NEW w \in Windows,
         NEW s \in Seq(Chats), IsInjective(s), ToSet(s) \subseteq ToSet(ts[w]), w \in ToSet(ws)
  PROVE  TabsFit(IF [ts EXCEPT ![w] = s][w] = <<>> THEN RemoveFirst(ws, w) ELSE ws,
                 [ts EXCEPT ![w] = s])
<1> DEFINE us == IF s = <<>> THEN RemoveFirst(ws, w) ELSE ws
<1>1. /\ us \in Seq(Windows) /\ IsInjective(us)
      /\ ToSet(us) = IF s = <<>> THEN ToSet(ws) \ {w} ELSE ToSet(ws) \union {w}
  <2>1. ws \in Seq(Windows) /\ IsInjective(ws)
    BY DEF TabsFit
  <2> QED BY <2>1, RemoveFirstSet
<1> HIDE DEF us
<1>2. \A v \in Windows \ {w} : ToSet(ts[v]) \intersect ToSet(s) = {}
  BY DEF TabsFit
<1>3. TabsFit(us, [ts EXCEPT ![w] = s])
  BY <1>1, <1>2, TabsOfOne
<1>4. [ts EXCEPT ![w] = s][w] = s
  BY DEF TabsFit
<1> QED BY <1>3, <1>4 DEF us

-----------------------------------------------------------------------------
(* The chats: a dialog is about a room that stays in its window as long as  *)
(* the dialog is up, because only contacts are dropped elsewhere meanwhile. *)

ChatsTyped ==
  /\ live \subseteq Open
  /\ text \in [Chats -> Drafts] /\ drafts \in [Ids -> Drafts] /\ left \in [Chats -> Drafts]
  /\ closed \in Seq(Chats)

DialogTells ==
  dialog # None =>
    /\ dialog.window \in Windows
    /\ dialog.chat # None => dialog.chat \in Rooms /\ dialog.chat \in ToSet(tabs[dialog.window])
    /\ \E r \in Rooms : r \in ToSet(tabs[dialog.window])

TabsKept == TabsFit(windows, tabs)

ChatsInv == TabsKept /\ ChatsTyped /\ DialogTells /\ DraftIsLast

LEMMA TabsTell ==
  ASSUME TabsKept
  PROVE  /\ Open \subseteq Chats
         /\ \A w \in Windows : ToSet(tabs[w]) \subseteq Open
         /\ \A w \in Windows : (w \in ToSet(windows)) <=> (ToSet(tabs[w]) # {})
         /\ \A c \in Open : WindowOf(c) \in Windows /\ c \in ToSet(tabs[WindowOf(c)])
         /\ \A w \in Windows : \A c \in ToSet(tabs[w]) : w = WindowOf(c)
<1>1. \A w \in Windows : tabs[w] \in Seq(Chats)
  BY DEF TabsKept, TabsFit
<1>2. \A w \in Windows : ToSet(tabs[w]) \subseteq Chats /\ (tabs[w] = <<>> <=> ToSet(tabs[w]) = {})
  BY <1>1, EmptyList
<1>3. \A c \in Open : \E w \in Windows : c \in ToSet(tabs[w])
  BY DEF Open
<1>4. \A c \in Open : WindowOf(c) \in Windows /\ c \in ToSet(tabs[WindowOf(c)])
  BY <1>3 DEF WindowOf
<1>5. \A w \in Windows : ToSet(tabs[w]) \subseteq Open
  BY DEF Open
<1>6. \A w \in Windows : \A c \in ToSet(tabs[w]) : w = WindowOf(c)
  BY <1>4, <1>5 DEF TabsKept, TabsFit
<1>7. Open \subseteq Chats
  BY <1>2, <1>3
<1>8. \A w \in Windows : (w \in ToSet(windows)) <=> (ToSet(tabs[w]) # {})
  BY <1>2 DEF TabsKept, TabsFit
<1> QED BY <1>4, <1>5, <1>6, <1>7, <1>8

(* There is always a window for one more chat. *)
LEMMA RoomForOne ==
  ASSUME ManagerAssumption, TabsKept
  PROVE  NewWindow \in Windows /\ NewWindow \notin ToSet(windows) /\ tabs[NewWindow] = <<>>
<1>1. \E w \in Windows : w \notin ToSet(windows)
  <2> SUFFICES ASSUME Windows \subseteq ToSet(windows) PROVE FALSE
    OBVIOUS
  <2> DEFINE f == [w \in Windows |-> CHOOSE c \in Chats : c \in ToSet(tabs[w])]
  <2>1. \A w \in Windows : f[w] \in Chats /\ f[w] \in ToSet(tabs[w])
    BY TabsTell DEF Open
  <2>2. f \in [Windows -> Chats]
    BY <2>1
  <2> HIDE DEF f
  <2>3. \A v, w \in Windows : f[v] = f[w] => v = w
    BY <2>1 DEF TabsKept, TabsFit
  <2>4. f \in Injection(Windows, Chats)
    BY <2>2, <2>3 DEF Injection, IsInjective
  <2>5. Cardinality(Windows) <= Cardinality(Chats)
    BY <2>4, FS_Injection DEF ManagerAssumption
  <2>6. Cardinality(Windows) \in Nat /\ Cardinality(Chats) \in Nat
    BY FS_CardinalityType DEF ManagerAssumption
  <2> QED BY <2>5, <2>6 DEF ManagerAssumption
<1>2. NewWindow \in Windows /\ NewWindow \notin ToSet(windows)
  BY <1>1 DEF NewWindow
<1> QED BY <1>2 DEF TabsKept, TabsFit

LEMMA DefaultFits ==
  ASSUME ManagerAssumption, TabsKept, NEW c
  PROVE  Default(c) \in Windows
<1> DEFINE fit == {i \in DOMAIN windows :
               \E d \in ToSet(tabs[windows[i]]) : (d \in Rooms) = (c \in Rooms)}
<1>1. windows \in Seq(Windows) /\ DOMAIN windows = 1..Len(windows) /\ Len(windows) \in Nat
  BY DEF TabsKept, TabsFit
<1>2. CASE fit = {}
  BY <1>2, RoomForOne DEF Default
<1>3. CASE fit # {}
  <2>1. \A i \in fit : i \in Nat
    BY <1>1
  <2>2. Min(fit) \in fit
    BY <1>3, <2>1, FirstOf DEF Min
  <2>3. windows[Min(fit)] \in Windows
    BY <1>1, <2>2
  <2>4. Default(c) = windows[Min(fit)]
    BY <1>3 DEF Default
  <2> QED BY <2>3, <2>4
<1> QED BY <1>2, <1>3

(* What the manager keeps of chats that are closed. *)
LEMMA ClosedKeeps ==
  ASSUME ManagerAssumption, ChatsTyped, NEW cs \in Seq(Chats), ClosedChat(cs)
  PROVE  /\ closed' \in Seq(Chats) /\ drafts' \in [Ids -> Drafts] /\ left' \in [Chats -> Drafts]
         /\ \A c \in Chats : HasOwnDraft(c) =>
              IF c \in ToSet(cs) THEN drafts'[Id(c)] = text[c] /\ left'[c] = text[c]
              ELSE drafts'[Id(c)] = drafts[Id(c)] /\ left'[c] = left[c]
<1> DEFINE own(i) == {k \in DOMAIN cs : Id(cs[k]) = i}
<1>1. DOMAIN cs = 1..Len(cs) /\ Len(cs) \in Nat /\ \A k \in DOMAIN cs : cs[k] \in Chats
  OBVIOUS
<1>2. drafts' = [i \in Ids |-> IF own(i) = {} THEN drafts[i] ELSE text[cs[Max(own(i))]]]
  BY DEF ClosedChat
<1>3. ASSUME NEW i, own(i) # {} PROVE Max(own(i)) \in own(i)
  <2>1. own(i) \subseteq 1..Len(cs)
    BY <1>1
  <2> QED BY <1>1, <1>3, <2>1, LastOf
<1>4. ASSUME NEW i, own(i) # {} PROVE cs[Max(own(i))] \in ToSet(cs) /\ Id(cs[Max(own(i))]) = i
  BY <1>3, <1>4 DEF ToSet
<1>5. \A c \in ToSet(cs) : own(Id(c)) # {}
  BY DEF ToSet
<1>6. ASSUME NEW c \in Chats, HasOwnDraft(c), own(Id(c)) # {} PROVE c \in ToSet(cs)
  <2>1. ToSet(cs) \subseteq Chats
    BY EmptyList
  <2> QED BY <1>4, <1>6, <2>1 DEF HasOwnDraft
<1> HIDE DEF own
<1>7. ToSet(cs) \subseteq Chats
  BY EmptyList
<1>8. closed' \in Seq(Chats)
  <2>1. closed \in Seq(Chats) /\ closed' = closed \o cs
    BY DEF ChatsTyped, ClosedChat
  <2> QED BY <2>1
<1>9. drafts' \in [Ids -> Drafts]
  BY <1>2, <1>4, <1>7 DEF ChatsTyped
<1>10. left' \in [Chats -> Drafts]
  BY DEF ChatsTyped, ClosedChat
<1>11. ASSUME NEW c \in Chats, HasOwnDraft(c)
       PROVE IF c \in ToSet(cs) THEN drafts'[Id(c)] = text[c] /\ left'[c] = text[c]
             ELSE drafts'[Id(c)] = drafts[Id(c)] /\ left'[c] = left[c]
  <2>1. Id(c) \in Ids
    BY DEF ManagerAssumption
  <2>2. left'[c] = IF c \in ToSet(cs) THEN text[c] ELSE left[c]
    BY DEF ClosedChat
  <2>3. CASE c \in ToSet(cs)
    <3>1. cs[Max(own(Id(c)))] \in Chats /\ Id(cs[Max(own(Id(c)))]) = Id(c)
      BY <1>4, <1>5, <1>7, <2>3
    <3>2. cs[Max(own(Id(c)))] = c
      BY <1>11, <3>1 DEF HasOwnDraft
    <3> QED BY <1>2, <1>5, <2>1, <2>2, <2>3, <3>2
  <2>4. CASE c \notin ToSet(cs)
    <3>1. own(Id(c)) = {}
      BY <1>6, <1>11, <2>4
    <3> QED BY <1>2, <2>1, <2>2, <2>4, <3>1
  <2> QED BY <2>3, <2>4
<1> QED BY <1>8, <1>9, <1>10, <1>11

(* Chats that are closed are gone from the screen, with their drafts kept.  *)
LEMMA RemoveChatsInv ==
  ASSUME ManagerAssumption, ChatsInv, NEW w \in Windows, NEW cs \in Seq(Chats),
         cs = tabs[w] \/ \E c \in ToSet(tabs[w]) : cs = <<c>>, w \in ToSet(windows),
         RemoveChats(w, cs), dialog' = None
  PROVE  ChatsInv' /\ Open' = Open \ ToSet(cs)
<1> DEFINE s == IF cs = tabs[w] THEN <<>> ELSE RemoveFirst(tabs[w], cs[1])
<1>1. tabs \in [Windows -> Seq(Chats)] /\ tabs[w] \in Seq(Chats) /\ IsInjective(tabs[w])
  BY DEF ChatsInv, TabsKept, TabsFit
<1>2. s \in Seq(Chats) /\ IsInjective(s) /\ ToSet(s) = ToSet(tabs[w]) \ ToSet(cs)
  <2>1. CASE cs = tabs[w]
    BY <2>1 DEF ToSet, IsInjective
  <2>2. CASE cs # tabs[w]
    <3>1. PICK c \in ToSet(tabs[w]) : cs = <<c>>
      BY <2>2
    <3>2. ToSet(cs) = {c} /\ cs[1] = c
      BY <3>1 DEF ToSet
    <3> QED BY <1>1, <2>2, <3>2, RemoveFirstSet
  <2> QED BY <2>1, <2>2
<1>3. tabs' = [tabs EXCEPT ![w] = s]
  BY DEF RemoveChats
<1> HIDE DEF s
<1>4. windows' = IF tabs'[w] = <<>> THEN RemoveFirst(windows, w) ELSE windows
  BY DEF RemoveChats
<1>5. TabsKept'
  BY <1>2, <1>3, <1>4, TabsGone DEF ChatsInv, TabsKept
<1>6. tabs'[w] = s /\ \A v \in Windows \ {w} : tabs'[v] = tabs[v]
  BY <1>1, <1>3
<1>7. ToSet(cs) \subseteq ToSet(tabs[w])
  BY DEF ToSet
<1>8. \A v \in Windows \ {w} : ToSet(tabs[v]) \intersect ToSet(cs) = {}
  BY <1>7 DEF ChatsInv, TabsKept, TabsFit
<1>9. Open' = Open \ ToSet(cs)
  <2>1. \A v \in Windows : ToSet(tabs'[v]) = ToSet(tabs[v]) \ ToSet(cs)
    BY <1>2, <1>6, <1>8
  <2> QED BY <2>1 DEF Open
<1>10. ClosedChat(cs)
  BY DEF RemoveChats
<1>11. ChatsTyped /\ DraftIsLast
  BY DEF ChatsInv
<1>12. text' \in [Chats -> Drafts]
  BY <1>11 DEF RemoveChats, ChatsTyped, ManagerAssumption
<1>13. live' \subseteq Open'
  BY <1>9, <1>11 DEF RemoveChats, ChatsTyped
<1>14. ChatsTyped'
  BY <1>10, <1>11, <1>12, <1>13, ClosedKeeps DEF ChatsTyped
<1>15. DraftIsLast'
  <2>1. ASSUME NEW c \in Chats, c \notin Open', HasOwnDraft(c) PROVE drafts'[Id(c)] = left'[c]
    <3>1. CASE c \in ToSet(cs)
      BY <1>10, <1>11, <2>1, <3>1, ClosedKeeps
    <3>2. CASE c \notin ToSet(cs)
      <4>1. c \notin Open
        BY <1>9, <2>1, <3>2
      <4>2. drafts[Id(c)] = left[c]
        BY <1>11, <2>1, <4>1 DEF DraftIsLast
      <4> QED BY <1>10, <1>11, <2>1, <3>2, <4>2, ClosedKeeps
    <3> QED BY <3>1, <3>2
  <2> QED BY <2>1 DEF DraftIsLast, HasOwnDraft
<1>16. DialogTells'
  BY DEF DialogTells
<1> QED BY <1>5, <1>9, <1>14, <1>15, <1>16 DEF ChatsInv

(* A page that is moved stays on the screen, and no room leaves its window  *)
(* while a dialog is up.                                                    *)
LEMMA MovePageKeeps ==
  ASSUME ManagerAssumption, ChatsInv, NEW c \in Chats, NEW w \in Windows,
         MovePage(c, w), dialog # None => c \notin Rooms
  PROVE  TabsKept' /\ Open' = Open /\ DialogTells'
<1> DEFINE old == WindowOf(c)
           s == RemoveFirst(tabs[old], c)
           without == [tabs EXCEPT ![old] = s]
           ws == IF without[old] = <<>> THEN RemoveFirst(windows, old) ELSE windows
<1>1. /\ tabs' = [without EXCEPT ![w] = Append(@, c)] /\ windows' = AddTo(w, c, ws)
      /\ c \in Open /\ w # old
  BY DEF MovePage
<1>2. TabsKept
  BY DEF ChatsInv
<1>3. old \in Windows /\ old \in ToSet(windows) /\ c \in ToSet(tabs[old])
  BY <1>1, <1>2, TabsTell
<1>4. \A v \in Windows \ {old} : c \notin ToSet(tabs[v])
  BY <1>2, TabsTell
<1>5. tabs \in [Windows -> Seq(Chats)] /\ tabs[old] \in Seq(Chats) /\ IsInjective(tabs[old])
  BY <1>2, <1>3 DEF TabsKept, TabsFit
<1>6. s \in Seq(Chats) /\ IsInjective(s) /\ ToSet(s) = ToSet(tabs[old]) \ {c}
  BY <1>5, RemoveFirstSet
<1> HIDE DEF s, old
<1>7. TabsFit(ws, without)
  BY <1>2, <1>3, <1>6, TabsGone DEF TabsKept
<1>8. without[old] = s /\ \A v \in Windows \ {old} : without[v] = tabs[v]
  BY <1>3, <1>5
<1>9. \A v \in Windows : c \notin ToSet(without[v])
  BY <1>4, <1>6, <1>8
<1> HIDE DEF ws, without
<1> DEFINE more == Append(without[w], c)
<1>10. TabsKept' /\ ToSet(tabs'[w]) = ToSet(without[w]) \union {c}
  <2>1. without \in [Windows -> Seq(Chats)] /\ IsInjective(without[w]) /\ without[w] \in Seq(Chats)
    BY <1>7 DEF TabsFit
  <2>2. more \in Seq(Chats) /\ IsInjective(more) /\ ToSet(more) = ToSet(without[w]) \union {c}
    BY <1>9, <2>1, AppendSet
  <2>3. tabs' = [without EXCEPT ![w] = more]
    BY <1>1
  <2> HIDE DEF more
  <2>4. TabsFit(AddTo(w, c, ws), [without EXCEPT ![w] = more])
    BY <1>7, <1>9, <2>2, TabAdded
  <2>5. TabsFit(windows', tabs')
    BY <1>1, <2>3, <2>4, Zenon
  <2>6. tabs'[w] = more
    BY <2>1, <2>3
  <2> QED BY <2>2, <2>5, <2>6 DEF TabsKept
<1>11. \A v \in Windows \ {w} : tabs'[v] = without[v]
  BY <1>1, <1>7 DEF TabsFit
<1>12. \A v \in Windows : ToSet(tabs'[v]) = (ToSet(tabs[v]) \ {c}) \union (IF v = w THEN {c} ELSE {})
  <2>1. \A v \in Windows : ToSet(without[v]) = ToSet(tabs[v]) \ {c}
    BY <1>4, <1>6, <1>8
  <2> QED BY <1>10, <1>11, <2>1
<1>13. Open' = Open
  <2>1. c \in ToSet(tabs'[w])
    BY <1>12
  <2>2. \A x : x # c => (x \in Open' <=> x \in Open)
    BY <1>12 DEF Open
  <2> QED BY <1>1, <2>1, <2>2 DEF Open
<1>14. DialogTells'
  <2>1. dialog' = dialog /\ DialogTells
    BY DEF MovePage, ChatsInv
  <2> QED BY <1>12, <2>1 DEF DialogTells
<1> QED BY <1>10, <1>13, <1>14

LEMMA MoveInv ==
  ASSUME ManagerAssumption, ChatsInv, NEW c \in Chats, NEW w \in Windows,
         Move(c, w), dialog # None => c \notin Rooms
  PROVE  ChatsInv' /\ Open' = Open
<1>1. TabsKept' /\ Open' = Open /\ DialogTells'
  BY MovePageKeeps DEF Move
<1>2. ChatsTyped /\ DraftIsLast /\ ClosedChat(<<c>>) /\ c \in Open
  BY DEF ChatsInv, Move, MovePage
<1>3. <<c>> \in Seq(Chats) /\ ToSet(<<c>>) = {c}
  BY DEF ToSet
<1>4. ChatsTyped'
  <2>1. UNCHANGED <<live, text>>
    BY DEF Move, MovePage
  <2> QED BY <1>1, <1>2, <1>3, <2>1, ClosedKeeps DEF ChatsTyped
<1>5. DraftIsLast'
  <2>1. ASSUME NEW d \in Chats, d \notin Open, HasOwnDraft(d) PROVE drafts'[Id(d)] = left'[d]
    <3>1. drafts[Id(d)] = left[d] /\ d \notin ToSet(<<c>>)
      BY <1>2, <1>3, <2>1 DEF DraftIsLast
    <3> QED BY <1>2, <1>3, <2>1, <3>1, ClosedKeeps
  <2> QED BY <1>1, <2>1 DEF DraftIsLast, HasOwnDraft
<1> QED BY <1>1, <1>4, <1>5 DEF ChatsInv

LEMMA ConfirmRemoves ==
  ASSUME ManagerAssumption, ChatsInv, Confirm
  PROVE  /\ ChatsInv' /\ dialog.window \in Windows
         /\ Open' = Open \/ \E S \in SUBSET ToSet(tabs[dialog.window]) : Open' = Open \ S
<1> DEFINE w == dialog.window
           cs == IF dialog.chat = None THEN tabs[w] ELSE <<dialog.chat>>
<1>1. dialog # None /\ dialog' = None /\ RemoveChats(w, cs)
  BY DEF Confirm
<1>2. /\ w \in Windows
      /\ dialog.chat # None => dialog.chat \in ToSet(tabs[w])
      /\ ToSet(tabs[w]) # {}
  BY <1>1 DEF ChatsInv, DialogTells
<1>3. TabsKept /\ tabs[w] \in Seq(Chats)
  BY <1>2 DEF ChatsInv, TabsKept, TabsFit
<1>4. w \in ToSet(windows) /\ ToSet(tabs[w]) \subseteq Chats
  BY <1>2, <1>3, TabsTell
<1>5. cs = tabs[w] \/ \E c \in ToSet(tabs[w]) : cs = <<c>>
  BY <1>2
<1>6. cs \in Seq(Chats) /\ ToSet(cs) \subseteq ToSet(tabs[w])
  <2>1. ASSUME NEW c \in ToSet(tabs[w]) PROVE <<c>> \in Seq(Chats) /\ ToSet(<<c>>) = {c}
    BY <1>4 DEF ToSet
  <2> QED BY <1>3, <1>5, <2>1
<1> HIDE DEF cs
<1>7. ChatsInv' /\ Open' = Open \ ToSet(cs)
  BY <1>1, <1>2, <1>4, <1>5, <1>6, RemoveChatsInv
<1> QED BY <1>2, <1>6, <1>7

LEMMA CloseTabInv ==
  ASSUME ManagerAssumption, ChatsInv, NEW c \in Chats, CloseTab(c)
  PROVE  ChatsInv' /\ (Open' = Open \/ (~NeedsConfirmation(c) /\ Open' = Open \ {c}))
<1>1. TabsKept /\ c \in Open /\ dialog = None
  BY DEF ChatsInv, CloseTab
<1>2. /\ WindowOf(c) \in Windows /\ c \in ToSet(tabs[WindowOf(c)])
      /\ WindowOf(c) \in ToSet(windows)
  BY <1>1, TabsTell
<1>3. CASE NeedsConfirmation(c)
  <2>1. /\ dialog' = [window |-> WindowOf(c), chat |-> c]
        /\ UNCHANGED <<windows, tabs, live, text, drafts, closed, left>>
    BY <1>3 DEF CloseTab
  <2>2. Open' = Open /\ TabsKept' /\ ChatsTyped' /\ DraftIsLast'
    BY <2>1 DEF ChatsInv, Open, TabsKept, ChatsTyped, DraftIsLast
  <2>3. DialogTells'
    <3>1. dialog'.window = WindowOf(c) /\ dialog'.chat = c /\ c \in Rooms
      BY <1>3, <2>1 DEF NeedsConfirmation
    <3>2. c \in ToSet(tabs'[WindowOf(c)])
      BY <1>2, <2>1, Zenon
    <3>3. dialog'.window \in Windows /\ dialog'.chat \in Rooms /\ dialog'.chat \in ToSet(tabs'[dialog'.window])
      BY <1>2, <3>1, <3>2, Zenon
    <3> QED BY <3>3, Zenon DEF DialogTells
  <2> QED BY <2>2, <2>3 DEF ChatsInv
<1>4. CASE ~NeedsConfirmation(c)
  <2>1. RemoveChats(WindowOf(c), <<c>>) /\ dialog' = None
    BY <1>1, <1>4 DEF CloseTab
  <2>2. <<c>> \in Seq(Chats) /\ ToSet(<<c>>) = {c}
    BY DEF ToSet
  <2>3. ChatsInv' /\ Open' = Open \ {c}
    BY <1>2, <2>1, <2>2, RemoveChatsInv
  <2> QED BY <1>4, <2>3
<1> QED BY <1>3, <1>4

LEMMA CloseWindowInv ==
  ASSUME ManagerAssumption, ChatsInv, NEW w \in Windows, CloseWindow(w)
  PROVE  /\ ChatsInv'
         /\ \/ Open' = Open
            \/ /\ \A c \in ToSet(tabs[w]) : ~NeedsConfirmation(c)
               /\ Open' = Open \ ToSet(tabs[w])
<1> DEFINE rooms == {c \in ToSet(tabs[w]) : NeedsConfirmation(c)}
<1>1. TabsKept /\ w \in ToSet(windows) /\ dialog = None /\ tabs[w] \in Seq(Chats)
  BY DEF ChatsInv, CloseWindow, TabsKept, TabsFit
<1>2. CASE rooms # {}
  <2>1. /\ dialog' = [window |-> w, chat |-> IF Len(tabs[w]) = 1 THEN tabs[w][1] ELSE None]
        /\ UNCHANGED <<windows, tabs, live, text, drafts, closed, left>>
    BY <1>2 DEF CloseWindow
  <2>2. Open' = Open /\ TabsKept' /\ ChatsTyped' /\ DraftIsLast'
    BY <2>1 DEF ChatsInv, Open, TabsKept, ChatsTyped, DraftIsLast
  <2>3. PICK r \in ToSet(tabs[w]) : r \in Rooms
    BY <1>2 DEF NeedsConfirmation
  <2>4. Len(tabs[w]) = 1 => tabs[w][1] = r
    BY <1>1, <2>3 DEF ToSet
  <2>5. DialogTells'
    BY <2>1, <2>3, <2>4 DEF DialogTells
  <2> QED BY <2>2, <2>5 DEF ChatsInv
<1>3. CASE rooms = {}
  <2>1. RemoveChats(w, tabs[w]) /\ dialog' = None
    BY <1>1, <1>3 DEF CloseWindow
  <2>2. ChatsInv' /\ Open' = Open \ ToSet(tabs[w])
    BY <1>1, <2>1, RemoveChatsInv
  <2> QED BY <1>3, <2>2
<1> QED BY <1>2, <1>3

LEMMA HandleInv ==
  ASSUME ManagerAssumption, ChatsInv, NEW c \in Chats, NEW separate \in BOOLEAN,
         Handle(c, separate)
  PROVE  ChatsInv' /\ Open' = Open \union {c}
<1>1. TabsKept /\ ChatsTyped /\ DialogTells /\ DraftIsLast
  BY DEF ChatsInv
<1>2. live' = live \union {c} /\ UNCHANGED <<drafts, closed, dialog>>
  BY DEF Handle
<1>3. CASE c \in Open
  <2>1. UNCHANGED <<windows, tabs, text, left>>
    BY <1>3 DEF Handle
  <2>2. Open' = Open /\ TabsKept' /\ DialogTells' /\ DraftIsLast'
    BY <1>1, <1>2, <2>1 DEF Open, TabsKept, DialogTells, DraftIsLast
  <2>3. ChatsTyped'
    BY <1>1, <1>2, <1>3, <2>1, <2>2 DEF ChatsTyped
  <2> QED BY <1>3, <2>2, <2>3 DEF ChatsInv
<1>4. CASE c \notin Open
  <2> DEFINE w == IF separate THEN NewWindow ELSE Default(c)
  <2>1. w \in Windows
    BY <1>1, RoomForOne, DefaultFits
  <2>2. /\ windows' = AddTo(w, c, windows) /\ tabs' = [tabs EXCEPT ![w] = Append(@, c)]
        /\ text' = [text EXCEPT ![c] = drafts[Id(c)]] /\ left' = [left EXCEPT ![c] = NoText]
    BY <1>4 DEF Handle
  <2> HIDE DEF w
  <2>3. \A v \in Windows : c \notin ToSet(tabs[v])
    BY <1>4 DEF Open
  <2> DEFINE more == Append(tabs[w], c)
  <2>4. TabsKept' /\ ToSet(tabs'[w]) = ToSet(tabs[w]) \union {c}
    <3>1. TabsFit(windows, tabs) /\ tabs \in [Windows -> Seq(Chats)]
      BY <1>1 DEF TabsKept, TabsFit
    <3>2. more \in Seq(Chats) /\ IsInjective(more) /\ ToSet(more) = ToSet(tabs[w]) \union {c}
      <4>1. tabs[w] \in Seq(Chats) /\ IsInjective(tabs[w]) /\ c \notin ToSet(tabs[w])
        BY <2>1, <2>3, <3>1 DEF TabsFit
      <4> QED BY <4>1, AppendSet
    <3>3. tabs' = [tabs EXCEPT ![w] = more]
      BY <2>2
    <3> HIDE DEF more
    <3>4. TabsFit(AddTo(w, c, windows), [tabs EXCEPT ![w] = more])
      BY <2>1, <2>3, <3>1, <3>2, TabAdded
    <3>5. TabsFit(windows', tabs')
      BY <2>2, <3>3, <3>4, Zenon
    <3>6. tabs'[w] = more
      BY <2>1, <3>1, <3>3
    <3> QED BY <3>2, <3>5, <3>6 DEF TabsKept
  <2>5. \A v \in Windows \ {w} : tabs'[v] = tabs[v]
    BY <1>1, <2>2 DEF TabsKept, TabsFit
  <2>6. Open' = Open \union {c}
    BY <2>1, <2>4, <2>5 DEF Open
  <2>7. DialogTells'
    BY <1>1, <1>2, <2>4, <2>5 DEF DialogTells
  <2>8. ChatsTyped'
    <3>1. drafts[Id(c)] \in Drafts /\ NoText \in Drafts
      BY <1>1 DEF ChatsTyped, ManagerAssumption
    <3> QED BY <1>1, <1>2, <2>2, <2>6, <3>1 DEF ChatsTyped
  <2>9. DraftIsLast'
    BY <1>1, <1>2, <2>2, <2>6 DEF DraftIsLast, HasOwnDraft, ChatsTyped
  <2> QED BY <2>4, <2>6, <2>7, <2>8, <2>9 DEF ChatsInv
<1> QED BY <1>3, <1>4

(* What leaves the tabs alone. *)
LEMMA TabsStay ==
  ASSUME ManagerAssumption, ChatsInv,
         \/ \E c \in Chats : ChannelLost(c)
         \/ Refuse \/ Undo
         \/ \E c \in Typed, t \in Drafts : Type(c, t)
         \/ UNCHANGED windowsVars
  PROVE  ChatsInv' /\ Open' = Open
<1>1. TabsKept /\ ChatsTyped /\ DialogTells /\ DraftIsLast
  BY DEF ChatsInv
<1>2. UNCHANGED <<windows, tabs, drafts, left>> /\ dialog' \in {dialog, None}
  BY DEF ChannelLost, Refuse, Undo, Type, windowsVars
<1>3. Open' = Open /\ TabsKept' /\ DialogTells' /\ DraftIsLast'
  BY <1>1, <1>2 DEF Open, TabsKept, DialogTells, DraftIsLast
<1>4. live' \subseteq live
  BY DEF ChannelLost, Refuse, Undo, Type, windowsVars
<1>5. text' \in [Chats -> Drafts]
  BY <1>1 DEF ChannelLost, Refuse, Undo, Type, windowsVars, ChatsTyped
<1>6. closed' \in Seq(Chats)
  <2>1. CASE Undo
    <3>1. closed \in Seq(Chats) /\ closed # <<>> /\ closed' = Front(closed)
      BY <1>1, <2>1 DEF ChatsTyped, Undo
    <3> QED BY <3>1 DEF Front
  <2>2. CASE ~Undo
    BY <1>1, <2>2 DEF ChannelLost, Refuse, Type, windowsVars, ChatsTyped
  <2> QED BY <2>1, <2>2
<1>7. ChatsTyped'
  BY <1>1, <1>2, <1>3, <1>4, <1>5, <1>6 DEF ChatsTyped
<1> QED BY <1>3, <1>7 DEF ChatsInv

LEMMA DragTabInv ==
  ASSUME ManagerAssumption, ChatsInv, NEW c \in Chats, NEW w \in Windows, DragTab(c, w)
  PROVE  ChatsInv' /\ Open' = Open
<1>1. dialog = None /\ MovePage(c, w) /\ UNCHANGED <<closed, drafts, left, live, text>>
  BY DEF DragTab, MovePage
<1>2. TabsKept' /\ Open' = Open /\ DialogTells'
  BY <1>1, MovePageKeeps
<1>3. ChatsTyped' /\ DraftIsLast'
  BY <1>1, <1>2 DEF ChatsInv, ChatsTyped, DraftIsLast
<1> QED BY <1>2, <1>3 DEF ChatsInv

(* What leaves the screen in a step, besides the invariant. *)
LEMMA ChatsStep ==
  ASSUME ManagerAssumption, ChatsInv, [WindowsNext]_windowsVars
  PROVE  /\ ChatsInv'
         /\ \A c \in Chats : NeedsConfirmation(c) /\ c \in Open /\ c \notin Open' =>
              dialog # None /\ c \in ToSet(tabs[dialog.window])
<1>1. CASE \E c \in Chats, separate \in BOOLEAN : Handle(c, separate)
  BY <1>1, HandleInv
<1>2. CASE \E c \in Chats : CloseTab(c)
  BY <1>2, CloseTabInv
<1>3. CASE \E c \in Chats : Detach(c)
  <2>1. TabsKept
    BY DEF ChatsInv
  <2> QED BY <1>3, <2>1, RoomForOne, MoveInv DEF Detach
<1>4. CASE \E c \in Chats, w \in Windows : DragTab(c, w)
  BY <1>4, DragTabInv
<1>5. CASE \E c \in Chats, w \in Windows : Drop(c, w)
  <2>1. PICK c \in Chats, w \in Windows : Move(c, w) /\ c \notin Rooms
    BY <1>5 DEF Drop
  <2>2. ChatsInv' /\ Open' = Open
    BY <2>1, MoveInv
  <2> QED BY <2>2
<1>6. CASE \E w \in Windows : CloseWindow(w)
  BY <1>6, CloseWindowInv
<1>7. CASE Confirm
  <2>1. dialog # None
    BY <1>7 DEF Confirm
  <2> QED BY <1>7, <2>1, ConfirmRemoves
<1>8. CASE \/ \E c \in Chats : ChannelLost(c)
           \/ Refuse \/ Undo
           \/ \E c \in Typed, t \in Drafts : Type(c, t)
           \/ UNCHANGED windowsVars
  BY <1>8, TabsStay
<1> QED BY <1>1, <1>2, <1>3, <1>4, <1>5, <1>6, <1>7, <1>8 DEF WindowsNext

LEMMA ChatsStart ==
  ASSUME ManagerAssumption, WindowsInit
  PROVE  ChatsInv
<1>1. /\ windows = <<>> /\ tabs = [w \in Windows |-> <<>>] /\ live = {} /\ closed = <<>>
      /\ text = [c \in Chats |-> NoText] /\ left = [c \in Chats |-> NoText]
      /\ drafts = [i \in Ids |-> NoText] /\ dialog = None
  BY DEF WindowsInit
<1>2. ToSet(<<>>) = {} /\ IsInjective(<<>>)
  BY DEF ToSet, IsInjective
<1>3. <<>> \in Seq(Windows) /\ <<>> \in Seq(Chats)
  OBVIOUS
<1>4. TabsKept
  BY <1>1, <1>2, <1>3 DEF TabsKept, TabsFit
<1>5. ChatsTyped
  BY <1>1, <1>3 DEF ChatsTyped, ManagerAssumption
<1>6. DialogTells /\ DraftIsLast
  BY <1>1 DEF DialogTells, DraftIsLast, ManagerAssumption
<1> QED BY <1>4, <1>5, <1>6 DEF ChatsInv

LEMMA ChatsAlways == ASSUME ManagerAssumption PROVE WindowsSpec => []ChatsInv
<1>1. WindowsInit => ChatsInv
  BY ChatsStart
<1>2. ChatsInv /\ [WindowsNext]_windowsVars => ChatsInv'
  BY ChatsStep
<1> QED BY <1>1, <1>2, PTL DEF WindowsSpec

(* Chats are kept: the dialog of a window finds its window and its chat, in *)
(* the tab where it is, and a chat that pops up again finds the last draft  *)
(* that was saved for it.                                                   *)
THEOREM ChatsKept == WindowsSpec => []ChatsAreKept
<1>1. ChatsInv => ChatsAreKept
  <2> SUFFICES ASSUME ChatsInv PROVE ChatsAreKept
    OBVIOUS
  <2>1. WindowsTypeOK
    BY DEF ChatsInv, TabsKept, TabsFit, ChatsTyped, WindowsTypeOK
  <2>2. DialogFindsChat
    BY TabsTell DEF ChatsInv, DialogTells, DialogFindsChat
  <2> QED BY <2>1, <2>2 DEF ChatsInv, ChatsAreKept
<1> QED BY <1>1, ChatsAlways, ManagerAssumption, PTL

(* Whatever is closed, moved or dropped, no room the user is in goes from   *)
(* the screen but by the answer to a question about its window.             *)
THEOREM RoomsAsked == WindowsSpec => RoomsAreAsked
<1>1. ChatsInv /\ [WindowsNext]_windowsVars =>
        [\A c \in Rooms : NeedsConfirmation(c) /\ c \notin Open' =>
           dialog # None /\ c \in ToSet(tabs[dialog.window])]_windowsVars
  <2> SUFFICES ASSUME ChatsInv, [WindowsNext]_windowsVars,
                      NEW c \in Rooms, NeedsConfirmation(c), c \notin Open'
               PROVE  dialog # None /\ c \in ToSet(tabs[dialog.window])
    OBVIOUS
  <2>1. c \in Chats /\ c \in Open
    BY ManagerAssumption DEF ManagerAssumption, NeedsConfirmation, ChatsInv, ChatsTyped
  <2> QED BY <2>1, ChatsStep, ManagerAssumption
<1> QED BY <1>1, ChatsAlways, ManagerAssumption, PTL DEF WindowsSpec, RoomsAreAsked

-----------------------------------------------------------------------------
(* The password of a room.  A bar listens to the channel of the moment it   *)
(* was displayed at, and is gone once that one is.                          *)

Stages == Bars \union {"none", "lookup", "saved", "gave up", "done"}

BarsInv ==
  /\ channel \in used \union {NoChannel} /\ used \subseteq RoomChannels
  /\ stage \in [RoomChannels -> Stages]
  /\ on \in [RoomChannels -> used \union {NoChannel}]
  /\ \A c \in RoomChannels : stage[c] \in {"saved", "providing"} => channel # NoChannel
  /\ \A c \in RoomChannels : stage[c] \in Bars => on[c] \in {channel, NoChannel}

Sensitive == asked \in BOOLEAN /\ input \in BOOLEAN /\ paned \in BOOLEAN

LEMMA BarsStart == ASSUME PasswordInit PROVE BarsInv /\ Sensitive
<1>1. channel \in RoomChannels /\ used = {channel} /\ asked \in BOOLEAN /\ input = TRUE /\ paned = TRUE
  BY DEF PasswordInit
<1>2. stage = [c \in RoomChannels |-> IF c = channel /\ asked THEN "lookup" ELSE "none"]
  BY DEF PasswordInit
<1>3. on = [c \in RoomChannels |-> NoChannel]
  BY DEF PasswordInit
<1> QED BY <1>1, <1>2, <1>3 DEF BarsInv, Sensitive, Stages, Bars

LEMMA SensitiveStep ==
  ASSUME Sensitive, [PasswordNext]_passwordVars
  PROVE  Sensitive'
<1> USE DEF Sensitive
<1>1. ASSUME NEW c \in RoomChannels, NEW need \in BOOLEAN, Connected(c, need) PROVE Sensitive'
  BY <1>1 DEF Connected
<1>2. CASE RoomInvalidated
  BY <1>2 DEF RoomInvalidated
<1>3. ASSUME NEW c \in RoomChannels, GotPassword(c) \/ NoPassword(c) \/ Join(c) \/ Remember(c)
      PROVE Sensitive'
  BY <1>3 DEF GotPassword, NoPassword, Join, Remember, DisplayInfoBar
<1>4. ASSUME NEW c \in RoomChannels, NEW answer \in Answers, SavedAnswered(c, answer)
      PROVE Sensitive'
  BY <1>4 DEF SavedAnswered, DisplayInfoBar
<1>5. ASSUME NEW c \in RoomChannels, NEW answer \in Answers, BarAnswered(c, answer)
      PROVE Sensitive'
  <2>1. /\ asked' = (asked /\ answer # "ok")
        /\ input' = (input \/ answer = "ok") /\ paned' = (paned \/ answer = "ok")
    BY <1>5 DEF BarAnswered
  <2> QED BY <2>1
<1>6. CASE UNCHANGED passwordVars
  BY <1>6 DEF passwordVars
<1> QED BY <1>1, <1>2, <1>3, <1>4, <1>5, <1>6 DEF PasswordNext

LEMMA BarsStep ==
  ASSUME BarsInv, [PasswordNext]_passwordVars, PasswordAssumption
  PROVE  BarsInv'
<1> USE DEF BarsInv, Stages, Bars
<1>1. ASSUME NEW c \in RoomChannels, NEW need \in BOOLEAN, Connected(c, need) PROVE BarsInv'
  BY <1>1 DEF Connected
<1>2. CASE RoomInvalidated
  BY <1>2 DEF RoomInvalidated, Shown
<1>3. ASSUME NEW c \in RoomChannels, GotPassword(c) \/ Join(c) \/ Remember(c) PROVE BarsInv'
  BY <1>3 DEF GotPassword, Join, Remember
<1>4. ASSUME NEW c \in RoomChannels,
             \/ NoPassword(c)
             \/ \E answer \in Answers : SavedAnswered(c, answer)
      PROVE BarsInv'
  <2>1. channel' = channel /\ used' = used
    BY <1>4 DEF NoPassword, SavedAnswered
  <2>2. CASE DisplayInfoBar(c)
    BY <2>1, <2>2 DEF DisplayInfoBar
  <2>3. CASE ~DisplayInfoBar(c)
    <3>1. on' = on /\ (stage' = [stage EXCEPT ![c] = "done"] \/ stage' = [stage EXCEPT ![c] = "gave up"])
      BY <1>4, <2>3 DEF NoPassword, SavedAnswered
    <3> QED BY <2>1, <3>1
  <2> QED BY <2>2, <2>3
<1>5. ASSUME NEW c \in RoomChannels, NEW answer \in Answers, BarAnswered(c, answer)
      PROVE BarsInv'
  <2>1. stage' = [stage EXCEPT ![c] = stage'[c]] /\ stage'[c] \in {"saving", "asking", "stuck"}
    BY <1>5 DEF BarAnswered, Answers
  <2>2. stage[c] = "providing" /\ UNCHANGED <<channel, used, on>>
    BY <1>5 DEF BarAnswered
  <2> QED BY ZenonT(60), <2>1, <2>2
<1>6. CASE UNCHANGED passwordVars
  BY <1>6 DEF passwordVars
<1> QED BY <1>1, <1>2, <1>3, <1>4, <1>5, <1>6 DEF PasswordNext

(* A room that is rejoined has no bar of an earlier channel, for any number *)
(* of channels and however late the keyring and the channels answer.        *)
THEOREM BarsGo == PasswordSpec => []BarsGoWithTheirChannel
<1>1. PasswordInit => BarsInv /\ Sensitive
  BY BarsStart
<1>2. BarsInv /\ Sensitive /\ [PasswordNext]_passwordVars => (BarsInv /\ Sensitive)'
  BY BarsStep, SensitiveStep, PasswordAssumption
<1>3. BarsInv /\ Sensitive => BarsGoWithTheirChannel
  BY DEF BarsInv, Sensitive, BarsGoWithTheirChannel, PasswordTypeOK, Shown, Stages
<1> QED BY <1>1, <1>2, <1>3, PTL DEF PasswordSpec

-----------------------------------------------------------------------------
(* A channel.  Before it is ready nothing is sent here, and of the reports  *)
(* that wait the last one of a message tells what became of it.             *)

Statuses == {"accepted", "delivered", "failed"}
ReportsAfter(status) == IF status = "accepted" THEN "sent" ELSE status

WaitingTells ==
  /\ reports \in Seq([token : Old, status : Statuses])
  /\ \A k \in DOMAIN reports :
       (\A l \in DOMAIN reports : l > k => reports[l].token # reports[k].token) =>
         out[reports[k].token] = ReportsAfter(reports[k].status)
  /\ preparing => sending = {}
  /\ ~preparing => reports = <<>>
  /\ ~attached => \A t \in Tokens : out[t] # "calling" /\ (t \notin Old => out[t] = "new")

SentTells ==
  /\ out \in [Tokens -> {"new", "calling", "sent", "delivered", "failed"}]
  /\ sending \subseteq Tokens /\ told \subseteq Tokens
  /\ reporting => \A t \in Tokens \ Old : out[t] = "sent" => t \in sending
  /\ \A t \in sending : out[t] = "sent"
  /\ \A t \in Tokens \ Old : out[t] = "failed" => t \in told

ChannelFlags ==
  /\ hasGroup \in BOOLEAN /\ reporting \in BOOLEAN /\ needed \in BOOLEAN
  /\ preparing \in BOOLEAN /\ preparingPassword \in BOOLEAN /\ attached \in BOOLEAN
  /\ attached => ~preparing
  /\ preparing /\ ~preparingPassword => hasGroup /\ ~needed /\ group = {}

MembersKept ==
  /\ group \subseteq Contacts /\ members \in Seq(Contacts)
  /\ ToSet(members) = group /\ IsInjective(members)
  /\ me \in Contacts /\ user = me

ChannelInv == WaitingTells /\ SentTells /\ ChannelFlags /\ MembersKept

(* A report that is read alone. *)
LEMMA OneReport ==
  ASSUME NEW t \in Tokens, NEW status, sending \subseteq Tokens
  PROVE  AfterReports(<<[token |-> t, status |-> status]>>) =
           IF status = "accepted" THEN sending \union {t} ELSE sending \ {t}
<1> DEFINE rs == <<[token |-> t, status |-> status]>>
           own(u) == {k \in DOMAIN rs : rs[k].token = u}
<1>1. DOMAIN rs = {1} /\ rs[1].token = t /\ rs[1].status = status
  OBVIOUS
<1>2. AfterReports(rs) = {u \in Tokens :
        IF own(u) = {} THEN u \in sending ELSE rs[Max(own(u))].status = "accepted"}
  BY DEF AfterReports
<1>3. own(t) = {1} /\ \A u : u # t => own(u) = {}
  BY <1>1
<1>4. Max(own(t)) = 1
  <2>1. own(t) \subseteq 1..1 /\ own(t) # {}
    BY <1>3
  <2> QED BY <1>3, <2>1, LastOf
<1> HIDE DEF rs, own
<1>5. AfterReports(rs) = IF status = "accepted" THEN sending \union {t} ELSE sending \ {t}
  BY <1>1, <1>2, <1>3, <1>4
<1> QED BY <1>5 DEF rs

(* The reports that wait are read when the chat gets ready. *)
LEMMA ReadyReads ==
  ASSUME ChannelInv, NEW ms, NEW password \in BOOLEAN, NEW need \in BOOLEAN,
         CheckReady(ms, password, need), UNCHANGED <<reporting, attached, out>>
  PROVE  /\ WaitingTells' /\ SentTells' /\ preparing' \in BOOLEAN /\ (preparing' => preparing)
         /\ preparing' /\ ~password => ~need /\ ms = <<>> /\ hasGroup
<1>1. CASE preparing /\ ~password /\ (need \/ ms # <<>> \/ ~hasGroup)
  <2>1. preparing' = FALSE /\ reports' = <<>> /\ HandleReports(reports)
    BY <1>1 DEF CheckReady
  <2>2. ~attached /\ sending = {}
    BY <1>1 DEF ChannelInv, ChannelFlags, WaitingTells
  <2> DEFINE own(t) == {k \in DOMAIN reports : reports[k].token = t}
  <2>3. AfterReports(reports) = {t \in Tokens :
          IF own(t) = {} THEN t \in sending ELSE reports[Max(own(t))].status = "accepted"}
    BY DEF AfterReports
  <2>4. /\ reports \in Seq([token : Old, status : Statuses])
        /\ DOMAIN reports = 1..Len(reports) /\ Len(reports) \in Nat
    BY DEF ChannelInv, WaitingTells
  <2>5. ASSUME NEW t \in AfterReports(reports) PROVE out[t] = "sent"
    <3>1. own(t) # {} /\ reports[Max(own(t))].status = "accepted"
      BY <2>2, <2>3
    <3>2. Max(own(t)) \in own(t) /\ \A l \in own(t) : Max(own(t)) >= l
      BY <2>4, <3>1, LastOf
    <3> DEFINE k == Max(own(t))
    <3>3. k \in DOMAIN reports /\ reports[k].token = t /\ k \in Nat
      BY <2>4, <3>2
    <3>4. ASSUME NEW l \in DOMAIN reports, l > k PROVE reports[l].token # reports[k].token
      <4>1. l \in Nat /\ ~(k >= l)
        BY <2>4, <3>3, <3>4
      <4>2. l \notin own(t)
        BY <3>2, <4>1
      <4> QED BY <3>3, <4>2
    <3> HIDE DEF k
    <3>5. out[reports[k].token] = ReportsAfter(reports[k].status)
      BY <3>3, <3>4 DEF ChannelInv, WaitingTells
    <3> QED BY <3>1, <3>3, <3>5 DEF ReportsAfter, k
  <2> HIDE DEF own
  <2>6. sending' \subseteq AfterReports(reports)
    BY <2>1 DEF HandleReports, Sending
  <2>7. AfterReports(reports) \subseteq Tokens
    BY DEF AfterReports
  <2>8. told' = told
    BY <2>1, <2>2 DEF HandleReports
  <2>9. \A t \in Tokens \ Old : out[t] = "new"
    BY <2>2 DEF ChannelInv, WaitingTells
  <2>10. WaitingTells'
    <3>1. <<>> \in Seq([token : Old, status : Statuses]) /\ DOMAIN <<>> = {}
      OBVIOUS
    <3> QED BY <2>1, <3>1 DEF ChannelInv, WaitingTells
  <2>11. SentTells'
    BY <2>5, <2>6, <2>7, <2>8, <2>9 DEF ChannelInv, SentTells
  <2> QED BY <2>1, <2>10, <2>11
<1>2. CASE ~(preparing /\ ~password /\ (need \/ ms # <<>> \/ ~hasGroup))
  <2>1. UNCHANGED <<preparing, reports, sending, told>>
    BY <1>2 DEF CheckReady
  <2>2. WaitingTells' /\ SentTells'
    BY <2>1 DEF ChannelInv, WaitingTells, SentTells
  <2> QED BY <1>2, <2>1, <2>2 DEF ChannelInv, ChannelFlags
<1> QED BY <1>1, <1>2

(* What changes who is in the channel, and when it is ready. *)
LEMMA MembersStep ==
  ASSUME ChannelInv, TpChatAssumption,
         \/ \E need \in BOOLEAN : PasswordPrepared(need)
         \/ \E c \in Contacts : Added(c)
         \/ \E c, d \in Contacts : Renamed(c, d)
  PROVE  ChannelInv'
<1>1. /\ members \in Seq(Contacts) /\ IsInjective(members) /\ ToSet(members) = group
      /\ <<>> \in Seq(Contacts) /\ ToSet(<<>>) = {}
  BY DEF ChannelInv, MembersKept, ToSet
<1>2. UNCHANGED <<reporting, attached, out, hasGroup>>
  BY DEF PasswordPrepared, Added, Renamed
<1>3. CASE \E need \in BOOLEAN : PasswordPrepared(need)
  <2>1. PICK need \in BOOLEAN : PasswordPrepared(need)
    BY <1>3
  <2>2. /\ preparingPassword' = FALSE /\ needed' = need /\ CheckReady(members, FALSE, need)
        /\ UNCHANGED <<group, me, members, user>>
    BY <2>1 DEF PasswordPrepared, groupVars
  <2>3. /\ WaitingTells' /\ SentTells' /\ preparing' \in BOOLEAN /\ (preparing' => preparing)
        /\ preparing' => ~need /\ members = <<>> /\ hasGroup
    BY <1>2, <2>2, ReadyReads
  <2>4. MembersKept'
    BY <2>2 DEF ChannelInv, MembersKept
  <2>5. ChannelFlags'
    BY <1>1, <1>2, <2>2, <2>3 DEF ChannelInv, ChannelFlags
  <2> QED BY <2>3, <2>4, <2>5 DEF ChannelInv
<1>4. CASE \E c \in Contacts : Added(c)
  <2>1. PICK c \in Contacts : Added(c)
    BY <1>4
  <2>2. /\ c \notin group /\ group' = group \union {c} /\ members' = <<c>> \o members
        /\ CheckReady(members', preparingPassword, needed)
        /\ UNCHANGED <<me, user, preparingPassword, needed>>
    BY <2>1 DEF Added
  <2>3. members' \in Seq(Contacts) /\ IsInjective(members') /\ ToSet(members') = group \union {c}
    BY <1>1, <2>2, PrependSet
  <2>4. members' # <<>>
    BY <1>1, <2>3
  <2>5. preparingPassword \in BOOLEAN /\ needed \in BOOLEAN
    BY DEF ChannelInv, ChannelFlags
  <2>6. /\ WaitingTells' /\ SentTells' /\ preparing' \in BOOLEAN /\ (preparing' => preparing)
        /\ ~(preparing' /\ ~preparingPassword)
    BY <1>2, <2>2, <2>4, <2>5, ReadyReads
  <2>7. MembersKept'
    BY <2>2, <2>3 DEF ChannelInv, MembersKept
  <2>8. ChannelFlags'
    BY <1>2, <2>2, <2>6 DEF ChannelInv, ChannelFlags
  <2> QED BY <2>6, <2>7, <2>8 DEF ChannelInv
<1>5. CASE \E c, d \in Contacts : Renamed(c, d)
  <2>1. PICK c \in Contacts, d \in Contacts : Renamed(c, d)
    BY <1>5
  <2>2. /\ c \in group /\ d \notin group /\ (d = me => c = me)
        /\ group' = (group \ {c}) \union {d} /\ me' = IF c = me THEN d ELSE me
        /\ members' = RemoveFirst(<<d>> \o members, c)
        /\ user' = IF user = c THEN d ELSE user
        /\ CheckReady(members', preparingPassword, needed)
        /\ UNCHANGED <<preparingPassword, needed>>
    BY <2>1 DEF Renamed
  <2> DEFINE more == <<d>> \o members
  <2>3. more \in Seq(Contacts) /\ IsInjective(more) /\ ToSet(more) = group \union {d}
    BY <1>1, <2>2, PrependSet
  <2>4. members' = RemoveFirst(more, c)
    BY <2>2
  <2> HIDE DEF more
  <2>5. members' \in Seq(Contacts) /\ IsInjective(members') /\ ToSet(members') = group'
    <3>1. /\ RemoveFirst(more, c) \in Seq(Contacts) /\ IsInjective(RemoveFirst(more, c))
          /\ ToSet(RemoveFirst(more, c)) = ToSet(more) \ {c}
      BY <2>3, RemoveFirstSet
    <3>2. (group \union {d}) \ {c} = group'
      BY <2>2
    <3> QED BY <2>3, <2>4, <3>1, <3>2
  <2>6. members' # <<>>
    BY <1>1, <2>2, <2>5
  <2>7. preparingPassword \in BOOLEAN /\ needed \in BOOLEAN
    BY DEF ChannelInv, ChannelFlags
  <2>8. /\ WaitingTells' /\ SentTells' /\ preparing' \in BOOLEAN /\ (preparing' => preparing)
        /\ ~(preparing' /\ ~preparingPassword)
    BY <1>2, <2>2, <2>6, <2>7, ReadyReads
  <2>9. MembersKept'
    BY <2>2, <2>5 DEF ChannelInv, MembersKept
  <2>10. ChannelFlags'
    BY <1>2, <2>2, <2>8 DEF ChannelInv, ChannelFlags
  <2> QED BY <2>8, <2>9, <2>10 DEF ChannelInv
<1> QED BY <1>3, <1>4, <1>5

(* The steps that neither make the channel ready nor touch its messages. *)
LEMMA FlagsStep ==
  ASSUME ChannelInv,
         \/ PasswordGiven \/ Attach \/ UNCHANGED tpChatVars
         \/ \E c \in Contacts : Removed(c)
  PROVE  ChannelInv'
<1>1. UNCHANGED <<hasGroup, reporting, preparing, preparingPassword, out, reports, sending, told>>
  BY DEF PasswordGiven, Attach, Removed, tpChatVars, groupVars, readyVars, sentVars
<1>2. attached' = attached \/ Attach
  BY DEF PasswordGiven, Removed, tpChatVars
<1>3. WaitingTells' /\ SentTells'
  BY <1>1, <1>2 DEF ChannelInv, WaitingTells, SentTells, Attach
<1>4. MembersKept'
  <2>1. CASE \E c \in Contacts : Removed(c)
    BY <2>1, RemoveFirstSet DEF ChannelInv, MembersKept, Removed
  <2>2. CASE UNCHANGED groupVars
    BY <2>2 DEF ChannelInv, MembersKept, groupVars
  <2> QED BY <2>1, <2>2 DEF PasswordGiven, Attach, tpChatVars
<1>5. ChannelFlags'
  <2>1. CASE \E c \in Contacts : Removed(c)
    <3>1. PICK c \in Contacts : Removed(c)
      BY <2>1
    <3>2. c \in group /\ group' = group \ {c} /\ UNCHANGED <<needed, attached>>
      BY <3>1 DEF Removed, readyVars
    <3> QED BY <1>1, <3>2 DEF ChannelInv, ChannelFlags
  <2>2. CASE PasswordGiven
    <3>1. needed /\ needed' = FALSE /\ UNCHANGED <<group, attached>>
      BY <2>2 DEF PasswordGiven, groupVars
    <3>2. ~(preparing /\ ~preparingPassword)
      BY <3>1 DEF ChannelInv, ChannelFlags
    <3> QED BY <1>1, <3>1, <3>2 DEF ChannelInv, ChannelFlags
  <2>3. CASE Attach
    BY <1>1, <2>3 DEF ChannelInv, ChannelFlags, Attach, groupVars, readyVars
  <2>4. CASE UNCHANGED tpChatVars
    BY <1>1, <2>4 DEF ChannelInv, ChannelFlags, tpChatVars, groupVars, readyVars
  <2> QED BY <2>1, <2>2, <2>3, <2>4
<1> QED BY <1>3, <1>4, <1>5 DEF ChannelInv

(* Messages. *)
LEMMA MessagesStep ==
  ASSUME ChannelInv, TpChatAssumption,
         \/ \E t \in Tokens : Send(t)
         \/ \E t \in Tokens, accepted \in BOOLEAN : SendReply(t, accepted)
         \/ \E t \in Tokens, status \in Statuses : Report(t, status)
  PROVE  ChannelInv'
<1>1. UNCHANGED <<hasGroup, reporting, group, me, members, user, preparing, preparingPassword, needed, attached>>
  BY DEF Send, SendReply, Report, groupVars, readyVars
<1>2. ChannelFlags' /\ MembersKept'
  BY <1>1 DEF ChannelInv, ChannelFlags, MembersKept
<1>3. WaitingTells /\ SentTells /\ (attached => ~preparing) /\ preparing \in BOOLEAN
      /\ attached \in BOOLEAN /\ Old \subseteq Tokens
  BY DEF ChannelInv, ChannelFlags, TpChatAssumption
<1>4. CASE \E t \in Tokens : Send(t)
  <2>1. PICK t \in Tokens : Send(t)
    BY <1>4
  <2>2. attached /\ out[t] = "new" /\ out' = [out EXCEPT ![t] = "calling"] /\ UNCHANGED <<reports, sending, told>>
    BY <2>1 DEF Send
  <2>3. SentTells'
    BY <1>1, <1>3, <2>2 DEF SentTells
  <2>4. reports = <<>>
    BY <1>3, <2>2 DEF WaitingTells
  <2>5. DOMAIN reports = {}
    BY <2>4
  <2>6. WaitingTells'
    BY <1>1, <1>3, <2>2, <2>5 DEF WaitingTells
  <2> QED BY <1>2, <2>3, <2>6 DEF ChannelInv
<1>5. CASE \E t \in Tokens, accepted \in BOOLEAN : SendReply(t, accepted)
  <2>1. PICK t \in Tokens, accepted \in BOOLEAN : SendReply(t, accepted)
    BY <1>5
  <2>2. out[t] = "calling" /\ reports' = reports
    BY <2>1 DEF SendReply
  <2>3. attached /\ ~preparing /\ reports = <<>>
    BY <1>3, <2>2 DEF WaitingTells
  <2>4. DOMAIN reports = {}
    BY <2>3
  <2>5. WaitingTells'
    BY <1>1, <1>3, <2>2, <2>3, <2>4 DEF WaitingTells
  <2>6. SentTells'
    <3>1. CASE accepted
      <4>1. out' = [out EXCEPT ![t] = "sent"] /\ sending' = Sending(sending \union {t}) /\ told' = told
        BY <2>1, <3>1 DEF SendReply
      <4>2. sending' \subseteq sending \union {t} /\ (reporting => sending' = sending \union {t})
        BY <4>1 DEF Sending
      <4> QED BY <1>1, <1>3, <4>1, <4>2 DEF SentTells
    <3>2. CASE ~accepted
      <4>1. out' = [out EXCEPT ![t] = "failed"] /\ told' = told \union {t} /\ sending' = sending
        BY <2>1, <3>2 DEF SendReply
      <4> QED BY <1>1, <1>3, <2>2, <4>1 DEF SentTells
    <3> QED BY <3>1, <3>2
  <2> QED BY <1>2, <2>5, <2>6 DEF ChannelInv
<1>6. CASE \E t \in Tokens, status \in Statuses : Report(t, status)
  <2>1. PICK t \in Tokens, status \in Statuses : Report(t, status)
    BY <1>6
  <2>2. out[t] = "sent" /\ out' = [out EXCEPT ![t] = ReportsAfter(status)]
    BY <2>1 DEF Report, ReportsAfter
  <2>3. ReportsAfter(status) \in {"sent", "delivered", "failed"} /\ (ReportsAfter(status) = "sent" <=> status = "accepted")
        /\ (ReportsAfter(status) = "failed" <=> status = "failed")
    BY DEF ReportsAfter, Statuses
  <2>4. CASE preparing
    <3>1. reports' = Append(reports, [token |-> t, status |-> status]) /\ UNCHANGED <<sending, told>>
      BY <2>1, <2>4 DEF Report
    <3>2. ~attached /\ t \in Old /\ sending = {}
      BY <1>3, <2>2, <2>4 DEF WaitingTells
    <3>3. SentTells'
      BY <1>1, <1>3, <2>2, <2>3, <3>1, <3>2 DEF SentTells
    <3> DEFINE r == [token |-> t, status |-> status]
               N == Len(reports) + 1
    <3>4. /\ r \in [token : Old, status : Statuses] /\ r.token = t /\ r.status = status
          /\ reports \in Seq([token : Old, status : Statuses]) /\ reports' = Append(reports, r)
      BY <1>3, <3>1, <3>2 DEF WaitingTells
    <3> HIDE DEF r
    <3>5. /\ reports' \in Seq([token : Old, status : Statuses])
          /\ DOMAIN reports = 1..Len(reports) /\ Len(reports) \in Nat /\ DOMAIN reports' = 1..N
          /\ reports'[N] = r /\ \A k \in DOMAIN reports : reports'[k] = reports[k]
      BY <3>4
    <3>6. ASSUME NEW k \in DOMAIN reports',
                 \A l \in DOMAIN reports' : l > k => reports'[l].token # reports'[k].token
          PROVE  out'[reports'[k].token] = ReportsAfter(reports'[k].status)
      <4>1. CASE k = N
        BY <1>3, <2>2, <3>4, <3>5, <4>1 DEF SentTells
      <4>2. CASE k # N
        <5>1. k \in DOMAIN reports /\ N \in DOMAIN reports' /\ N > k /\ reports'[k] = reports[k]
          BY <3>5, <4>2
        <5>2. reports[k].token # t
          BY <3>4, <3>5, <3>6, <5>1
        <5>3. \A l \in DOMAIN reports : l > k => reports[l].token # reports[k].token
          BY <3>5, <3>6, <5>1
        <5>4. out[reports[k].token] = ReportsAfter(reports[k].status)
          BY <1>3, <5>1, <5>3 DEF WaitingTells
        <5>5. out'[reports[k].token] = out[reports[k].token]
          BY <2>2, <5>2
        <5> QED BY <5>1, <5>4, <5>5
      <4> QED BY <4>1, <4>2
    <3>7. ASSUME NEW u \in Tokens PROVE out'[u] # "calling" /\ (u \notin Old => out'[u] = "new")
      BY <1>3, <2>2, <2>3, <3>2 DEF WaitingTells, SentTells
    <3>8. WaitingTells'
      BY <1>1, <2>4, <3>1, <3>2, <3>5, <3>6, <3>7 DEF WaitingTells
    <3> QED BY <1>2, <3>3, <3>8 DEF ChannelInv
  <2>5. CASE ~preparing
    <3> DEFINE r == [token |-> t, status |-> status]
    <3>1. HandleReports(<<r>>) /\ reports' = reports
      BY <2>1, <2>5 DEF Report
    <3>2. reports = <<>>
      BY <1>3, <2>5 DEF WaitingTells
    <3>3. DOMAIN reports = {}
      BY <3>2
    <3>4. sending' = Sending(IF status = "accepted" THEN sending \union {t} ELSE sending \ {t})
      <4>1. sending' = Sending(AfterReports(<<r>>)) /\ sending \subseteq Tokens
        BY <1>3, <3>1 DEF HandleReports, SentTells
      <4>2. AfterReports(<<r>>) = IF status = "accepted" THEN sending \union {t} ELSE sending \ {t}
        BY <4>1, OneReport
      <4> QED BY <4>1, <4>2
    <3>5. told' = told \union (IF attached /\ status = "failed" THEN {t} ELSE {})
      <4>1. told' = told \union {q.token : q \in {p \in ToSet(<<r>>) : attached /\ p.status = "failed"}}
        BY <3>1 DEF HandleReports
      <4>2. ToSet(<<r>>) = {r} /\ r.token = t /\ r.status = status
        BY DEF ToSet
      <4> QED BY <4>1, <4>2
    <3>6. t \notin Old => attached
      BY <1>3, <2>2 DEF WaitingTells
    <3>7. sending' \subseteq (IF status = "accepted" THEN sending \union {t} ELSE sending \ {t})
          /\ (reporting => sending' = IF status = "accepted" THEN sending \union {t} ELSE sending \ {t})
      BY <3>4 DEF Sending
    <3>8. SentTells'
      BY <1>1, <1>3, <2>2, <2>3, <3>5, <3>6, <3>7 DEF SentTells
    <3>9. ~attached => \A u \in Tokens : out'[u] # "calling" /\ (u \notin Old => out'[u] = "new")
      BY <1>3, <2>2, <2>3, <3>6 DEF WaitingTells, SentTells
    <3>10. WaitingTells'
      BY <1>1, <1>3, <2>5, <3>1, <3>3, <3>9 DEF WaitingTells
    <3> QED BY <1>2, <3>8, <3>10 DEF ChannelInv
  <2> QED BY <1>3, <2>4, <2>5
<1> QED BY <1>4, <1>5, <1>6

LEMMA ChannelStart == ASSUME TpChatInit, TpChatAssumption PROVE ChannelInv
<1>1. /\ hasGroup \in Groups /\ reporting \in Reporting
      /\ group \in (IF hasGroup THEN SUBSET Contacts ELSE {{}})
      /\ me = Self /\ user = Self /\ members \in SetToSeqs(group)
      /\ preparing = TRUE /\ preparingPassword = TRUE /\ needed = FALSE /\ attached = FALSE
      /\ out = [t \in Tokens |-> IF t \in Old THEN "sent" ELSE "new"]
      /\ reports = <<>> /\ sending = {} /\ told = {}
  BY DEF TpChatInit
<1>2. hasGroup \in BOOLEAN /\ reporting \in BOOLEAN
  BY <1>1 DEF TpChatAssumption
<1>3. <<>> \in Seq([token : Old, status : Statuses]) /\ DOMAIN <<>> = {}
  OBVIOUS
<1>4. WaitingTells
  BY <1>1, <1>3 DEF WaitingTells
<1>5. SentTells
  BY <1>1 DEF SentTells
<1>6. ChannelFlags
  BY <1>1, <1>2 DEF ChannelFlags
<1>7. MembersKept
  <2>1. group \subseteq Contacts /\ IsFiniteSet(group) /\ Cardinality(group) \in Nat
    <3>1. group \subseteq Contacts
      BY <1>1
    <3> QED BY <3>1, FS_Subset, FS_CardinalityType DEF TpChatAssumption
  <2> DEFINE D == 1..Cardinality(group)
  <2>2. members \in [D -> group] /\ \A i, j \in D : i # j => members[i] # members[j]
    BY <1>1 DEF SetToSeqs
  <2>3. members \in Seq(Contacts) /\ DOMAIN members = D
    BY <2>1, <2>2
  <2>4. members \in Injection(D, group) /\ IsInjective(members)
    BY <2>2 DEF Injection, IsInjective
  <2>5. IsFiniteSet(D) /\ Cardinality(D) = Cardinality(group)
    BY <2>1, FS_Interval
  <2>6. members \in Surjection(D, group)
    BY <2>1, <2>4, <2>5, FS_Injection
  <2>7. ToSet(members) = group
    BY <2>2, <2>3, <2>6 DEF Surjection, ToSet
  <2> QED BY <1>1, <2>1, <2>3, <2>4, <2>7 DEF MembersKept, TpChatAssumption
<1> QED BY <1>4, <1>5, <1>6, <1>7 DEF ChannelInv

(* A channel is ready as soon as there is something to show of it, has the  *)
(* members of the server, each once, and tells of every message sent here   *)
(* that it is on its way or failed: for any contacts, messages and number   *)
(* of reports that wait.                                                    *)
THEOREM ServerFollowed == TpChatSpec => []ChannelFollowsServer
<1>1. TpChatInit => ChannelInv
  BY ChannelStart, TpChatAssumption
<1>2. ChannelInv /\ [TpChatNext]_tpChatVars => ChannelInv'
  BY MembersStep, FlagsStep, MessagesStep, TpChatAssumption DEF TpChatNext, Statuses
<1>3. ChannelInv => ChannelFollowsServer
  <2> SUFFICES ASSUME ChannelInv PROVE ChannelFollowsServer
    OBVIOUS
  <2>1. TpChatTypeOK
    BY DEF ChannelInv, MembersKept, SentTells, ChannelFlags, TpChatTypeOK
  <2>2. MembersFollowGroup
    BY <2>1 DEF ChannelInv, MembersKept, ChannelFlags, MembersFollowGroup
  <2>3. SendingIsExact
    BY DEF ChannelInv, SentTells, SendingIsExact
  <2> QED BY <2>2, <2>3 DEF ChannelFollowsServer
<1> QED BY <1>1, <1>2, <1>3, PTL DEF TpChatSpec

-----------------------------------------------------------------------------
(* Messages.  The texts that count are those in the queue that the view     *)
(* shows: what is read offline is not among them any more, and what is      *)
(* acknowledged is one of them until the acknowledgement is through.        *)

Counting == queue \intersect view \intersect Texts

MessagesFlags ==
  /\ room \in BOOLEAN /\ focused \in BOOLEAN /\ tpChat \in BOOLEAN
  /\ highlighted \in BOOLEAN /\ retrieving \in BOOLEAN
  /\ canShow = ~retrieving /\ (room => ~retrieving)

MessagesSets ==
  /\ arrived \subseteq Messages /\ view \subseteq arrived \union {Logs}
  /\ queue \subseteq arrived /\ IsFiniteSet(queue)
  /\ acking \subseteq Incoming(queue) /\ acking \intersect Texts \subseteq view
  /\ ~retrieving => queue \intersect Texts \subseteq view
  /\ ~tpChat => queue = {}

MessagesCounted ==
  /\ unread \in Nat /\ offline \in Nat
  /\ unread - offline >= Cardinality(Counting)
  /\ room => unread = offline + Cardinality(Counting)

HighlightTells == highlighted => offline > 0 \/ Counting \ acking # {}

MessagesInv == MessagesFlags /\ MessagesSets /\ MessagesCounted /\ HighlightTells

LEMMA Counts ==
  ASSUME NEW S, NEW T, IsFiniteSet(S), IsFiniteSet(T)
  PROVE  /\ Cardinality(S) \in Nat /\ Cardinality(T) \in Nat /\ IsFiniteSet(S \union T)
         /\ Cardinality(S \union T) \in Nat
         /\ Cardinality(S \union T) <= Cardinality(S) + Cardinality(T)
         /\ S \intersect T = {} => Cardinality(S \union T) = Cardinality(S) + Cardinality(T)
<1>1. IsFiniteSet(S \intersect T)
  BY FS_Subset
<1>2. Cardinality(S) \in Nat /\ Cardinality(T) \in Nat /\ Cardinality(S \intersect T) \in Nat
  BY <1>1, FS_CardinalityType
<1>3. /\ IsFiniteSet(S \union T)
      /\ Cardinality(S \union T) = Cardinality(S) + Cardinality(T) - Cardinality(S \intersect T)
  BY FS_Union
<1>4. Cardinality({}) = 0
  BY FS_EmptySet
<1>5. Cardinality(S \union T) \in Nat
  BY <1>3, FS_CardinalityType
<1>6. S \intersect T = {} => Cardinality(S \intersect T) = 0
  BY <1>4
<1> QED BY <1>2, <1>3, <1>5, <1>6

(* What a record of the widget becomes. *)
LEMMA ShowBecomes ==
  ASSUME NEW ms, NEW q, NEW mention \in BOOLEAN, Become(Show(Chat, ms, q, mention)),
         highlighted \in BOOLEAN, room \in BOOLEAN,
         unread \in Nat, offline \in Nat, Cardinality(ms \intersect Texts) \in Nat
  PROVE  /\ view' = view \union (ms \ Edits)
         /\ focused /\ ms \ Edits # {} /\ ~retrieving =>
              /\ unread' = unread + Cardinality(ms \intersect Texts) - offline /\ offline' = 0
              /\ highlighted' = FALSE /\ acking' = acking \union Incoming(q)
         /\ ~(focused /\ ms \ Edits # {} /\ ~retrieving) =>
              /\ unread' = unread + Cardinality(ms \intersect Texts) /\ offline' = offline
              /\ highlighted' = (highlighted \/ (room /\ mention /\ ms \intersect Texts # {}))
              /\ acking' = acking
<1> DEFINE n == Cardinality(ms \intersect Texts)
           hl == highlighted \/ (room /\ mention /\ ms \intersect Texts # {})
           shown == [Chat EXCEPT
             !.view = @ \union (ms \ Edits),
             !.unread = @ + Cardinality(ms \intersect Texts),
             !.highlighted = @ \/ (room /\ mention /\ ms \intersect Texts # {})]
<1>1. /\ shown.view = view \union (ms \ Edits) /\ shown.unread = unread + n
      /\ shown.offline = offline /\ shown.acking = acking
      /\ DOMAIN shown = {"view", "unread", "offline", "highlighted", "acking"}
  BY DEF Chat
<1>2. shown.highlighted = hl
  BY DEF Chat
<1>3. Show(Chat, ms, q, mention) =
        IF focused /\ ms \ Edits # {} THEN Read(shown, q, TRUE, retrieving) ELSE shown
  BY DEF Show
<1> HIDE DEF shown, hl
<1>4. CASE focused /\ ms \ Edits # {} /\ ~retrieving
  <2> DEFINE r == [shown EXCEPT !.acking = @ \union Incoming(q), !.highlighted = FALSE,
                             !.unread = @ - shown.offline, !.offline = 0]
  <2>1. Become(r)
    BY <1>3, <1>4 DEF Read
  <2>2. /\ r.view = shown.view /\ r.unread = shown.unread - shown.offline /\ r.offline = 0
        /\ r.highlighted = FALSE /\ r.acking = shown.acking \union Incoming(q)
    BY <1>1
  <2> HIDE DEF r
  <2>3. /\ view' = r.view /\ unread' = r.unread /\ offline' = r.offline
        /\ highlighted' = r.highlighted /\ acking' = r.acking
    BY <2>1 DEF Become
  <2>4. unread' = unread + n - offline
    <3>1. r.unread = (unread + n) - offline
      BY <1>1, <2>2
    <3> QED BY <2>3, <3>1
  <2>5. view' = view \union (ms \ Edits) /\ acking' = acking \union Incoming(q) /\ offline' = 0
    BY <1>1, <2>2, <2>3, Zenon
  <2>6. highlighted' = FALSE
    BY <2>2, <2>3, Zenon
  <2> QED BY <1>4, <2>4, <2>5, <2>6, Zenon
<1>5. CASE ~(focused /\ ms \ Edits # {} /\ ~retrieving)
  <2>1. Become(shown)
    BY <1>3, <1>5 DEF Read
  <2>2. highlighted' = hl
    BY <1>2, <2>1 DEF Become
  <2> QED BY <1>1, <1>5, <2>1, <2>2 DEF Become, hl
<1> QED BY <1>4, <1>5

(* Texts that come are shown, counted, and acknowledged if they are read.   *)
LEMMA ShownCounted ==
  ASSUME MessagesInv, ChatAssumption, tpChat', NEW ms, ms \subseteq Unshown, IsFiniteSet(ms),
         NEW mention \in BOOLEAN, Become(Show(Chat, ms, queue', mention)),
         queue' = queue \union ms, arrived' = arrived \union ms,
         UNCHANGED <<room, focused, canShow, retrieving>>, tpChat' \in BOOLEAN
  PROVE  MessagesInv'
<1>1. MessagesFlags /\ MessagesSets /\ MessagesCounted /\ HighlightTells
  BY DEF MessagesInv
<1>2. /\ room \in BOOLEAN /\ highlighted \in BOOLEAN /\ retrieving \in BOOLEAN /\ focused \in BOOLEAN
      /\ unread \in Nat /\ offline \in Nat
  BY <1>1 DEF MessagesFlags, MessagesCounted
<1> DEFINE new == ms \intersect Texts
<1>3. IsFiniteSet(new) /\ IsFiniteSet(Counting) /\ Cardinality(new) \in Nat
  <2>1. IsFiniteSet(queue) /\ Counting \subseteq queue /\ new \subseteq ms
    BY <1>1 DEF MessagesSets, Counting
  <2> QED BY <2>1, FS_Subset, FS_CardinalityType
<1>4. /\ view' = view \union (ms \ Edits)
      /\ focused /\ ms \ Edits # {} /\ ~retrieving =>
           /\ unread' = unread + Cardinality(new) - offline /\ offline' = 0
           /\ highlighted' = FALSE /\ acking' = acking \union Incoming(queue')
      /\ ~(focused /\ ms \ Edits # {} /\ ~retrieving) =>
           /\ unread' = unread + Cardinality(new) /\ offline' = offline
           /\ highlighted' = (highlighted \/ (room /\ mention /\ new # {}))
           /\ acking' = acking
  BY <1>2, <1>3, ShowBecomes
<1>5. /\ ms \subseteq Messages /\ ms \intersect arrived = {} /\ Logs \notin ms
      /\ new \subseteq ms \ Edits /\ Messages = Texts \union Edits \union Sents
  BY DEF Unshown, ChatAssumption, Messages
<1>6. ms \intersect queue = {} /\ ms \intersect view = {} /\ ms \intersect acking = {}
  BY <1>1, <1>5 DEF MessagesSets, Incoming
<1>7. Counting' = Counting \union new
  BY <1>4, <1>5, <1>6 DEF Counting
<1>8. /\ Cardinality(Counting') = Cardinality(Counting) + Cardinality(new)
      /\ Cardinality(Counting) \in Nat /\ Cardinality(Counting') \in Nat
  <2>1. Counting \intersect new = {}
    BY <1>6 DEF Counting
  <2> QED BY <1>3, <1>7, <2>1, Counts
<1> HIDE DEF new
<1>9. MessagesCounted'
  <2>1. /\ unread - offline >= Cardinality(Counting)
        /\ room => unread = offline + Cardinality(Counting)
    BY <1>1 DEF MessagesCounted
  <2>2. room' = room
    OBVIOUS
  <2>3. unread' \in Nat /\ offline' \in Nat
    BY <1>2, <1>3, <1>4, <1>8, <2>1
  <2>4. unread' - offline' >= Cardinality(Counting')
    BY <1>2, <1>3, <1>4, <1>8, <2>1
  <2>5. room => unread' = offline' + Cardinality(Counting')
    BY <1>2, <1>3, <1>4, <1>8, <2>1
  <2> QED BY <2>2, <2>3, <2>4, <2>5 DEF MessagesCounted
<1>10. acking' \subseteq Incoming(queue') /\ acking \subseteq Incoming(queue)
  BY <1>1, <1>4 DEF MessagesSets, Incoming
<1>11. MessagesSets'
  <2>1. IsFiniteSet(queue')
    BY <1>1, FS_Union DEF MessagesSets
  <2>2. view' \subseteq arrived' \union {Logs} /\ queue' \subseteq arrived' /\ arrived' \subseteq Messages
    BY <1>1, <1>4, <1>5 DEF MessagesSets
  <2>3. ~retrieving' => queue' \intersect Texts \subseteq view'
    BY <1>1, <1>4, <1>5 DEF MessagesSets, new
  <2>4. acking' \intersect Texts \subseteq view'
    BY <1>1, <1>4, <1>10, <2>3 DEF MessagesSets, Incoming
  <2> QED BY <1>10, <2>1, <2>2, <2>3, <2>4 DEF MessagesSets
<1>12. highlighted' \in BOOLEAN
  BY <1>2, <1>4
<1>13. MessagesFlags'
  BY <1>1, <1>12 DEF MessagesFlags
<1>14. HighlightTells'
  <2>1. CASE focused /\ ms \ Edits # {} /\ ~retrieving
    BY <1>4, <2>1 DEF HighlightTells
  <2>2. CASE ~(focused /\ ms \ Edits # {} /\ ~retrieving)
    <3>1. offline' = offline /\ acking' = acking /\ (highlighted' => highlighted \/ new # {})
      BY <1>4, <2>2
    <3>2. Counting \ acking \subseteq Counting' \ acking' /\ new \subseteq Counting' \ acking'
      BY <1>6, <1>7, <3>1 DEF new
    <3> QED BY <1>1, <3>1, <3>2 DEF HighlightTells
  <2> QED BY <2>1, <2>2
<1> QED BY <1>9, <1>11, <1>13, <1>14 DEF MessagesInv

LEMMA MessageReceivedInv ==
  ASSUME MessagesInv, ChatAssumption, NEW m \in Messages, NEW mention \in BOOLEAN,
         MessageReceived(m, mention)
  PROVE  MessagesInv'
<1>1. /\ tpChat' /\ {m} \subseteq Unshown /\ queue' = queue \union {m} /\ arrived' = arrived \union {m}
      /\ Become(Show(Chat, {m}, queue', mention)) /\ UNCHANGED <<room, focused, canShow, retrieving, tpChat>>
  BY DEF MessageReceived
<1>2. IsFiniteSet({m}) /\ tpChat' \in BOOLEAN
  BY <1>1, FS_Singleton DEF MessagesInv, MessagesFlags
<1> QED BY <1>1, <1>2, ShownCounted

LEMMA ReconnectedInv ==
  ASSUME MessagesInv, ChatAssumption, NEW q \in Queues, NEW mention \in BOOLEAN,
         Reconnected(q, mention)
  PROVE  MessagesInv'
<1>1. /\ ~tpChat /\ q \subseteq Unshown /\ tpChat' = TRUE /\ queue' = q /\ arrived' = arrived \union q
      /\ Become(IF canShow THEN ShowPending(Chat, q, mention) ELSE Chat)
      /\ UNCHANGED <<room, focused, canShow, retrieving>>
  BY DEF Reconnected
<1>2. queue = {} /\ IsFiniteSet(q)
  BY <1>1 DEF MessagesInv, MessagesSets, Queues
<1>3. CASE canShow
  <2>1. Become(Show(Chat, q, queue', mention)) /\ queue' = queue \union q
    BY <1>1, <1>2, <1>3 DEF ShowPending
  <2> QED BY <1>1, <1>2, <2>1, ShownCounted
<1>4. CASE ~canShow
  <2>1. UNCHANGED <<view, unread, offline, highlighted, acking>>
    BY <1>1, <1>4 DEF Become, Chat
  <2>2. MessagesFlags' /\ retrieving' /\ MessagesSets /\ MessagesCounted /\ HighlightTells
    BY <1>1, <1>4, <2>1 DEF MessagesInv, MessagesFlags
  <2>3. q \subseteq Messages /\ q \intersect arrived = {} /\ Logs \notin q
    BY <1>1 DEF Unshown, Messages, ChatAssumption
  <2>4. Counting = {} /\ Counting' = {} /\ acking = {}
    BY <1>1, <1>2, <2>1, <2>2, <2>3 DEF Counting, MessagesSets, Incoming
  <2>5. MessagesSets'
    BY <1>1, <1>2, <2>1, <2>2, <2>3, <2>4 DEF MessagesSets, Incoming
  <2>6. MessagesCounted' /\ HighlightTells'
    BY <1>1, <2>1, <2>2, <2>4 DEF MessagesCounted, HighlightTells
  <2> QED BY <2>2, <2>5, <2>6 DEF MessagesInv
<1> QED BY <1>3, <1>4

LEMMA GotLogsInv ==
  ASSUME MessagesInv, ChatAssumption, GotLogs
  PROVE  MessagesInv'
<1>1. MessagesFlags /\ MessagesSets /\ MessagesCounted /\ retrieving /\ ~room
  BY DEF MessagesInv, MessagesFlags, GotLogs
<1>2. canShow' = TRUE /\ retrieving' = FALSE /\ UNCHANGED <<room, focused, arrived, tpChat, queue>>
  BY DEF GotLogs
<1> DEFINE logged == [Chat EXCEPT !.view = @ \union {Logs}]
           shown == IF tpChat THEN ShowPending(logged, queue, FALSE) ELSE logged
           final == Read(shown, queue, tpChat, FALSE)
           n == Cardinality(queue \intersect Texts)
<1>3. n \in Nat /\ Cardinality(Counting) \in Nat /\ unread \in Nat /\ offline \in Nat
      /\ unread - offline >= Cardinality(Counting)
  <2>1. IsFiniteSet(queue) /\ Counting \subseteq queue
    BY <1>1 DEF MessagesSets, Counting
  <2>2. IsFiniteSet(queue \intersect Texts) /\ IsFiniteSet(Counting)
    BY <2>1, FS_Subset
  <2> QED BY <1>1, <2>2, FS_CardinalityType DEF MessagesCounted
<1>4. Become(final)
  BY DEF GotLogs
<1>5. /\ logged.view = view \union {Logs} /\ logged.unread = unread /\ logged.offline = offline
      /\ logged.acking = acking /\ DOMAIN logged = {"view", "unread", "offline", "highlighted", "acking"}
  BY DEF Chat
<1> HIDE DEF logged
<1>6. /\ shown.view = view \union {Logs} \union (IF tpChat THEN queue \ Edits ELSE {})
      /\ shown.unread = unread + (IF tpChat THEN n ELSE 0)
      /\ shown.offline = offline /\ shown.acking = acking
      /\ DOMAIN shown = {"view", "unread", "offline", "highlighted", "acking"}
  <2>1. CASE tpChat
    <3> DEFINE c == [logged EXCEPT
            !.view = @ \union (queue \ Edits),
            !.unread = @ + Cardinality(queue \intersect Texts),
            !.highlighted = @ \/ (room /\ FALSE /\ queue \intersect Texts # {})]
    <3>1. shown = c
      BY <1>1, <2>1 DEF ShowPending, Show, Read
    <3>2. /\ c.view = logged.view \union (queue \ Edits) /\ c.unread = logged.unread + n
          /\ c.offline = logged.offline /\ c.acking = logged.acking
          /\ DOMAIN c = {"view", "unread", "offline", "highlighted", "acking"}
      BY <1>5
    <3> HIDE DEF c, shown, n
    <3> QED BY <1>5, <2>1, <3>1, <3>2
  <2>2. CASE ~tpChat
    <3>1. shown = logged
      BY <2>2
    <3> HIDE DEF shown
    <3> QED BY <1>3, <1>5, <2>2, <3>1
  <2> QED BY <1>1, <2>1, <2>2 DEF MessagesFlags
<1> HIDE DEF shown
<1>7. /\ final.view = shown.view /\ final.highlighted = FALSE /\ final.offline = 0
      /\ final.unread = shown.unread - shown.offline
      /\ final.acking = IF tpChat THEN shown.acking \union Incoming(queue) ELSE shown.acking
  BY <1>6 DEF Read
<1> HIDE DEF final
<1>8. ~tpChat => queue = {} /\ queue \intersect Texts = {} /\ n = 0 /\ Incoming(queue) = {}
  <2>1. ~tpChat => queue = {}
    BY <1>1 DEF MessagesSets
  <2>2. Cardinality({}) = 0
    BY FS_EmptySet
  <2> QED BY <2>1, <2>2 DEF Incoming
<1> HIDE DEF n
<1>9. /\ view' = view \union {Logs} \union (queue \ Edits)
      /\ highlighted' = FALSE /\ offline' = 0 /\ unread' = unread + n - offline
      /\ acking' = acking \union Incoming(queue)
  <2>1. /\ view' = final.view /\ unread' = final.unread /\ offline' = final.offline
        /\ highlighted' = final.highlighted /\ acking' = final.acking
    BY <1>4 DEF Become
  <2>2. view' = view \union {Logs} \union (queue \ Edits)
    BY <1>6, <1>7, <1>8, <2>1
  <2>3. acking' = acking \union Incoming(queue)
    BY <1>6, <1>7, <1>8, <2>1
  <2>4. unread' = unread + n - offline
    BY <1>3, <1>6, <1>7, <1>8, <2>1
  <2> QED BY <1>7, <2>1, <2>2, <2>3, <2>4, Zenon
<1>10. Counting' = queue \intersect Texts
  BY <1>2, <1>9 DEF Counting, ChatAssumption
<1>11. MessagesCounted'
  BY <1>1, <1>2, <1>3, <1>9, <1>10 DEF MessagesCounted, n
<1>12. MessagesFlags' /\ HighlightTells'
  BY <1>1, <1>2, <1>9 DEF MessagesFlags, HighlightTells
<1>13. MessagesSets'
  BY <1>1, <1>2, <1>9 DEF MessagesSets, Incoming, ChatAssumption
<1> QED BY <1>11, <1>12, <1>13 DEF MessagesInv

LEMMA AcknowledgedInv ==
  ASSUME MessagesInv, ChatAssumption, NEW m \in Messages, MessageAcknowledged(m)
  PROVE  MessagesInv'
<1>1. MessagesFlags /\ MessagesSets /\ MessagesCounted /\ HighlightTells
  BY DEF MessagesInv
<1>2. /\ tpChat /\ m \in acking /\ acking' = acking \ {m} /\ queue' = queue \ {m}
      /\ unread' = unread - (IF m \in Edits THEN 0 ELSE 1)
      /\ UNCHANGED <<room, focused, arrived, tpChat, view, offline, highlighted, canShow, retrieving>>
  BY DEF MessageAcknowledged
<1>3. m \in queue /\ m \notin Sents /\ (m \in Edits <=> m \notin Texts) /\ (m \in Texts => m \in Counting)
  BY <1>1, <1>2 DEF MessagesSets, Incoming, Counting, Messages, ChatAssumption
<1>4. IsFiniteSet(Counting) /\ Cardinality(Counting) \in Nat
  <2>1. IsFiniteSet(queue) /\ Counting \subseteq queue
    BY <1>1 DEF MessagesSets, Counting
  <2> QED BY <2>1, FS_Subset, FS_CardinalityType
<1>5. Counting' = Counting \ {m}
  BY <1>2 DEF Counting
<1>6. IF m \in Texts THEN Cardinality(Counting) >= 1 /\ Cardinality(Counting') = Cardinality(Counting) - 1
      ELSE Counting' = Counting
  <2>1. CASE m \in Texts
    <3>1. Cardinality(Counting \ {m}) = Cardinality(Counting) - 1
      BY <1>3, <1>4, <2>1, FS_RemoveElement
    <3>2. Cardinality(Counting) # 0
      BY <1>3, <1>4, <2>1, FS_EmptySet
    <3> QED BY <1>4, <1>5, <2>1, <3>1, <3>2
  <2>2. CASE m \notin Texts
    BY <1>5, <2>2 DEF Counting
  <2> QED BY <2>1, <2>2
<1>7. MessagesCounted'
  BY <1>1, <1>2, <1>3, <1>4, <1>6 DEF MessagesCounted
<1>8. MessagesFlags'
  BY <1>1, <1>2 DEF MessagesFlags
<1>9. MessagesSets'
  <2>1. IsFiniteSet(queue')
    BY <1>1, <1>2, FS_Subset DEF MessagesSets
  <2> QED BY <1>1, <1>2, <2>1 DEF MessagesSets, Incoming
<1>10. HighlightTells'
  BY <1>1, <1>2, <1>5 DEF HighlightTells
<1> QED BY <1>7, <1>8, <1>9, <1>10 DEF MessagesInv

LEMMA InvalidatedInv ==
  ASSUME MessagesInv, ChannelInvalidated
  PROVE  MessagesInv'
<1>1. MessagesFlags /\ MessagesSets /\ MessagesCounted /\ HighlightTells
  BY DEF MessagesInv
<1>2. /\ tpChat' = FALSE /\ queue' = {} /\ acking' = {} /\ offline' = unread
      /\ UNCHANGED <<room, focused, arrived, view, unread, highlighted, canShow, retrieving>>
  BY DEF ChannelInvalidated
<1>3. Counting' = {} /\ Cardinality({}) = 0 /\ IsFiniteSet({})
  BY <1>2, FS_EmptySet DEF Counting
<1>4. MessagesCounted' /\ MessagesFlags' /\ MessagesSets'
  <2>1. Cardinality(Counting') = 0 /\ unread' = unread /\ offline' = unread /\ unread \in Nat
    BY <1>1, <1>2, <1>3 DEF MessagesCounted
  <2>2. MessagesCounted'
    BY <2>1 DEF MessagesCounted
  <2>3. MessagesFlags'
    BY <1>1, <1>2 DEF MessagesFlags
  <2>4. MessagesSets'
    BY <1>1, <1>2, <1>3 DEF MessagesSets, Incoming
  <2> QED BY <2>2, <2>3, <2>4
<1>5. Cardinality(Counting) \in Nat /\ (Counting # {} => Cardinality(Counting) # 0)
  <2>1. IsFiniteSet(queue) /\ Counting \subseteq queue
    BY <1>1 DEF MessagesSets, Counting
  <2>2. IsFiniteSet(Counting)
    BY <2>1, FS_Subset
  <2> QED BY <2>2, FS_CardinalityType, FS_EmptySet
<1>6. highlighted => unread > 0
  BY <1>1, <1>5 DEF HighlightTells, MessagesCounted
<1>7. HighlightTells'
  BY <1>2, <1>6 DEF HighlightTells
<1> QED BY <1>4, <1>7 DEF MessagesInv

LEMMA FocusInv ==
  ASSUME MessagesInv, FocusIn \/ FocusOut \/ UNCHANGED messagesVars
  PROVE  MessagesInv'
<1>1. MessagesFlags /\ MessagesSets /\ MessagesCounted /\ HighlightTells
  BY DEF MessagesInv
<1>2. UNCHANGED <<room, arrived, tpChat, queue, canShow, retrieving>> /\ focused' \in BOOLEAN
  BY <1>1 DEF FocusIn, FocusOut, messagesVars, MessagesFlags
<1>3. CASE FocusIn /\ ~retrieving
  <2> DEFINE c == [Chat EXCEPT !.acking = IF tpChat THEN @ \union Incoming(queue) ELSE @,
                  !.highlighted = FALSE, !.unread = @ - Chat.offline, !.offline = 0]
  <2>1. Become(c)
    BY <1>3 DEF FocusIn, Read
  <2>2. /\ c.view = view /\ c.unread = unread - offline /\ c.offline = 0 /\ c.highlighted = FALSE
        /\ c.acking = IF tpChat THEN acking \union Incoming(queue) ELSE acking
    BY DEF Chat
  <2> HIDE DEF c
  <2>3. view' = view /\ unread' = unread - offline /\ offline' = 0 /\ highlighted' = FALSE
    BY <2>1, <2>2 DEF Become
  <2>4. acking' = IF tpChat THEN acking \union Incoming(queue) ELSE acking
    BY <2>1, <2>2 DEF Become
  <2>5. Counting' = Counting /\ Cardinality(Counting) \in Nat
    <3>1. IsFiniteSet(queue) /\ Counting \subseteq queue
      BY <1>1 DEF MessagesSets, Counting
    <3> QED BY <1>2, <2>3, <3>1, FS_Subset, FS_CardinalityType DEF Counting
  <2>6. MessagesCounted' /\ MessagesFlags' /\ HighlightTells'
    <3>1. /\ unread \in Nat /\ offline \in Nat /\ unread - offline >= Cardinality(Counting)
          /\ room => unread = offline + Cardinality(Counting)
      BY <1>1 DEF MessagesCounted
    <3>2. /\ Cardinality(Counting') = Cardinality(Counting) /\ room' = room
          /\ unread' = unread - offline /\ offline' = 0
      BY <1>2, <2>3, <2>5
    <3>3. MessagesCounted'
      BY <2>5, <3>1, <3>2 DEF MessagesCounted
    <3>4. highlighted' = FALSE
      BY <2>3
    <3>5. MessagesFlags'
      BY <1>1, <1>2, <3>4 DEF MessagesFlags
    <3>6. HighlightTells'
      BY <3>4 DEF HighlightTells
    <3> QED BY <3>3, <3>5, <3>6
  <2>7. MessagesSets'
    BY <1>1, <1>2, <1>3, <2>3, <2>4 DEF MessagesSets, Incoming
  <2> QED BY <2>6, <2>7 DEF MessagesInv
<1>4. CASE ~(FocusIn /\ ~retrieving)
  <2>1. UNCHANGED <<view, unread, offline, highlighted, acking>>
    <3>1. CASE FocusIn
      BY <1>4, <3>1 DEF FocusIn, Read, Become, Chat
    <3>2. CASE ~FocusIn
      BY <3>2 DEF FocusOut, messagesVars, widgetVars
    <3> QED BY <3>1, <3>2
  <2>2. Counting' = Counting
    BY <1>2, <2>1 DEF Counting
  <2> QED BY <1>1, <1>2, <2>1, <2>2 DEF MessagesInv, MessagesFlags, MessagesSets, MessagesCounted, HighlightTells
<1> QED BY <1>3, <1>4

LEMMA MessagesStart == ASSUME MessagesInit, ChatAssumption PROVE MessagesInv
<1>1. /\ room \in BOOLEAN /\ focused = FALSE /\ queue \in Queues /\ arrived = queue /\ tpChat = TRUE
      /\ canShow = room /\ retrieving = ~room
  BY DEF MessagesInit, ChatAssumption
<1> DEFINE empty == [view |-> {}, unread |-> 0, offline |-> 0, highlighted |-> FALSE, acking |-> {}]
           n == Cardinality(queue \intersect Texts)
<1>2. PICK mention \in BOOLEAN :
        LET c == IF room THEN ShowPending(empty, queue, mention) ELSE empty IN
        /\ view = c.view /\ unread = c.unread /\ offline = c.offline
        /\ highlighted = c.highlighted /\ acking = c.acking
  BY DEF MessagesInit
<1>3. IsFiniteSet(queue) /\ queue \subseteq Texts \union Edits
  BY <1>1 DEF Queues
<1>4. IsFiniteSet(queue \intersect Texts) /\ n \in Nat /\ (n = 0 => queue \intersect Texts = {})
  BY <1>3, FS_Subset, FS_CardinalityType, FS_EmptySet
<1>5. CASE room
  <2> DEFINE hl == FALSE \/ (room /\ mention /\ queue \intersect Texts # {})
             c == [empty EXCEPT !.view = @ \union (queue \ Edits), !.unread = @ + n,
                                !.highlighted = @ \/ (room /\ mention /\ queue \intersect Texts # {})]
  <2>1. ShowPending(empty, queue, mention) = c
    BY <1>1 DEF ShowPending, Show
  <2>2. /\ view = c.view /\ unread = c.unread /\ offline = c.offline
        /\ highlighted = c.highlighted /\ acking = c.acking
    BY <1>2, <1>5, <2>1
  <2>3. c.view = queue \ Edits /\ c.unread = n /\ c.offline = 0 /\ c.acking = {}
    BY <1>4
  <2>4. c.highlighted = hl
    OBVIOUS
  <2> HIDE DEF c
  <2>5. view = queue \ Edits /\ unread = n /\ offline = 0 /\ acking = {}
    BY <2>2, <2>3
  <2>6. highlighted \in BOOLEAN /\ (highlighted => queue \intersect Texts # {})
    BY <2>2, <2>4
  <2>7. Counting = queue \intersect Texts
    BY <2>5 DEF Counting, ChatAssumption
  <2>8. MessagesCounted
    BY <1>4, <2>5, <2>7 DEF MessagesCounted
  <2>9. MessagesFlags /\ HighlightTells
    BY <1>1, <1>5, <2>5, <2>6, <2>7 DEF MessagesFlags, HighlightTells
  <2>10. MessagesSets
    BY <1>1, <1>3, <2>5 DEF MessagesSets, Incoming, Messages, ChatAssumption
  <2> QED BY <2>8, <2>9, <2>10 DEF MessagesInv
<1>6. CASE ~room
  <2>1. view = {} /\ unread = 0 /\ offline = 0 /\ highlighted = FALSE /\ acking = {}
    BY <1>2, <1>6
  <2>2. Counting = {} /\ Cardinality({}) = 0
    BY <2>1, FS_EmptySet DEF Counting
  <2>3. MessagesCounted /\ MessagesFlags /\ HighlightTells
    <3>1. Cardinality(Counting) = 0 /\ unread = 0 /\ offline = 0
      BY <2>1, <2>2
    <3>2. MessagesCounted
      BY <3>1 DEF MessagesCounted
    <3>3. highlighted = FALSE
      BY <2>1
    <3>4. MessagesFlags
      BY <1>1, <1>6, <3>3 DEF MessagesFlags
    <3>5. HighlightTells
      BY <3>3 DEF HighlightTells
    <3> QED BY <3>2, <3>4, <3>5
  <2>4. MessagesSets
    BY <1>1, <1>3, <1>6, <2>1 DEF MessagesSets, Incoming, Messages
  <2> QED BY <2>3, <2>4 DEF MessagesInv
<1> QED BY <1>1, <1>5, <1>6

(* The unread count never wraps around, and in a room it is the number of   *)
(* texts shown and not acknowledged besides those that were unread when the *)
(* last channel went: for any messages, and any number of disconnections    *)
(* with logs and acknowledgements in flight.                                *)
THEOREM UnreadExact == MessagesSpec => []UnreadIsExact
<1>1. MessagesInit => MessagesInv
  BY MessagesStart, ChatAssumption
<1>2. MessagesInv /\ [MessagesNext]_messagesVars => MessagesInv'
  BY MessageReceivedInv, GotLogsInv, AcknowledgedInv, InvalidatedInv, ReconnectedInv, FocusInv,
     ChatAssumption DEF MessagesNext
<1>3. MessagesInv => UnreadIsExact
  <2> SUFFICES ASSUME MessagesInv PROVE UnreadIsExact
    OBVIOUS
  <2>1. MessagesFlags /\ MessagesSets /\ MessagesCounted /\ HighlightTells
    BY DEF MessagesInv
  <2>2. MessagesTypeOK
    BY <2>1 DEF MessagesFlags, MessagesSets, MessagesCounted, MessagesTypeOK
  <2>3. /\ Cardinality(Counting) \in Nat /\ Cardinality(acking \intersect Texts) \in Nat
        /\ Cardinality(acking \intersect Texts) <= Cardinality(Counting)
        /\ Counting # {} => Cardinality(Counting) # 0
    <3>1. IsFiniteSet(queue) /\ Counting \subseteq queue /\ acking \intersect Texts \subseteq Counting
      BY <2>1 DEF MessagesSets, Counting, Incoming
    <3>2. IsFiniteSet(Counting)
      BY <3>1, FS_Subset
    <3> QED BY <3>1, <3>2, FS_Subset, FS_CardinalityType, FS_EmptySet
  <2>4. /\ unread - offline >= Cardinality(acking \intersect Texts)
        /\ room => unread = offline + Cardinality(Counting)
        /\ highlighted => unread > 0
    BY <2>1, <2>3 DEF MessagesCounted, HighlightTells
  <2> QED BY <2>1, <2>2, <2>4 DEF MessagesSets, Counting, UnreadIsExact
<1> QED BY <1>1, <1>2, <1>3, PTL DEF MessagesSpec
=============================================================================
