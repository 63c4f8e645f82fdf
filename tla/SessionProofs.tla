---------------------------- MODULE SessionProofs ----------------------------
(***************************************************************************)
(* Theorems about module Session, alone and in Logins, for any number of   *)
(* sessions and any characters.                                            *)
(***************************************************************************)
EXTENDS Logins, FiniteSetTheorems, SequenceTheorems, TLAPS

SessionTask == [kind : {"login", "logout", "release"}, session : Sessions]

SessionTypeOK ==
  /\ conn \in [Sessions -> {"new", "open", "closing", "gone"}]
  /\ tasks \in Seq(SessionTask)
  /\ event \in [Sessions -> Sessions \cup {None}]
  /\ player \in [Sessions -> Sessions \cup {None}]
  /\ client \in [Sessions -> Sessions \cup {None}]
  /\ refs \in [Sessions -> Int] /\ releasing \in [Sessions -> Nat]
  /\ name \in [Sessions -> Names \cup {None}]
  /\ created \subseteq Sessions /\ placed \subseteq created /\ deleted \subseteq created

Among(q) == {q[i] : i \in DOMAIN q}
LoginsOnce(q) == \A i, j \in DOMAIN q : q[i].kind = "login" /\ q[j] = q[i] => i = j

\* A session that has not logged in has no part in anything yet.
Unused(s) == s \notin created /\ player[s] = None /\ event[s] = None

\* A session logs in once, after its first message, and is unused until then.
LoginsAreNew ==
  /\ LoginsOnce(tasks)
  /\ \A t \in Among(tasks) :
       conn[t.session] # "new" /\ (t.kind = "login" => Unused(t.session))
  /\ \A s \in Sessions : conn[s] = "new" => Unused(s)

\* Who waits for a delayed connect has no player; only a created object has a
\* client or entries to be released, and one that is placed has no such entry.
OneAtATime ==
  /\ \A s \in Sessions : event[s] # None => player[s] = None
  /\ \A s \in Sessions : player[s] # None => player[s] \in created
  /\ \A o \in Sessions \ created : client[o] = None /\ releasing[o] = 0
  /\ \A o \in placed : releasing[o] = 0

LinksInv == SessionTypeOK /\ LoginsAreNew /\ OneAtATime /\ LinksAgree
-----------------------------------------------------------------------------
(* The queue of session tasks.                                             *)

\* The task list after its first task is taken.
LEMMA TailAmong ==
  ASSUME NEW T, NEW q \in Seq(T), q # <<>>, LoginsOnce(q)
  PROVE  /\ Tail(q) \in Seq(T) /\ LoginsOnce(Tail(q))
         /\ Among(Tail(q)) \subseteq Among(q) /\ Head(q) \in Among(q)
         /\ Head(q).kind = "login" => Head(q) \notin Among(Tail(q))
<1>1. Len(q) \in Nat \ {0} /\ DOMAIN q = 1 .. Len(q) /\ Head(q) = q[1]
  BY EmptySeq, LenProperties
<1>2. /\ Tail(q) \in Seq(T) /\ DOMAIN Tail(q) = 1 .. (Len(q) - 1)
      /\ \A i \in 1 .. (Len(q) - 1) : Tail(q)[i] = q[i + 1]
  BY HeadTailProperties, LenProperties
<1> QED
  BY <1>1, <1>2 DEF Among, LoginsOnce

\* A task is its kind and its session.
LEMMA AmongTasks ==
  ASSUME NEW q \in Seq(SessionTask), NEW t \in Among(q)
  PROVE  t \in SessionTask /\ t.session \in Sessions /\ t = Task(t.kind, t.session)
<1>1. PICK i \in DOMAIN q : t = q[i]
  BY DEF Among
<1>2. t \in SessionTask
  BY <1>1, LenProperties
<1>3. t.session \in Sessions /\ t = Task(t.kind, t.session)
  BY <1>2 DEF SessionTask, Task
<1> QED
  BY <1>2, <1>3

\* The task list after a task is added.
LEMMA AppendAmong ==
  ASSUME NEW T, NEW q \in Seq(T), NEW t \in T, LoginsOnce(q),
         t.kind = "login" => t \notin Among(q)
  PROVE  /\ Append(q, t) \in Seq(T) /\ LoginsOnce(Append(q, t))
         /\ Among(Append(q, t)) = Among(q) \cup {t}
<1>1. Len(q) \in Nat /\ DOMAIN q = 1 .. Len(q)
  BY LenProperties
<1>2. /\ Append(q, t) \in Seq(T) /\ DOMAIN Append(q, t) = 1 .. (Len(q) + 1)
      /\ \A i \in 1 .. Len(q) : Append(q, t)[i] = q[i]
      /\ Append(q, t)[Len(q) + 1] = t
  BY <1>1
<1>3. LoginsOnce(Append(q, t))
  BY <1>1, <1>2 DEF Among, LoginsOnce
<1>4. Among(Append(q, t)) = Among(q) \cup {t}
  BY <1>1, <1>2 DEF Among
<1> QED
  BY <1>2, <1>3, <1>4

\* What Disconnect adds to the queue.
LEMMA PostedAmong ==
  ASSUME NEW q \in Seq(SessionTask), LoginsOnce(q), NEW s \in Sessions
  PROVE  /\ q \o Posted(s) \in Seq(SessionTask) /\ LoginsOnce(q \o Posted(s))
         /\ Among(q \o Posted(s))
              = Among(q) \cup (IF conn[s] = "open" THEN {Task("release", s)} ELSE {})
<1>1. CASE conn[s] = "open"
  <2>1. q \o Posted(s) = Append(q, Task("release", s))
    BY <1>1 DEF Posted
  <2>2. Task("release", s) \in SessionTask /\ Task("release", s).kind # "login"
    BY DEF Task, SessionTask
  <2> QED
    BY <1>1, <2>1, <2>2, AppendAmong
<1>2. CASE conn[s] # "open"
  <2>1. q \o Posted(s) = q
    BY <1>2, ConcatEmptySeq DEF Posted
  <2> QED
    BY <1>2, <2>1
<1> QED
  BY <1>1, <1>2

\* A session that is not new stays so, whatever is disconnected, and the queue
\* gets nothing but a release.
LEMMA CloseKeepsNew ==
  ASSUME conn \in [Sessions -> {"new", "open", "closing", "gone"}], NEW s \in Sessions
  PROVE  /\ CloseOf(s) \in [Sessions -> {"new", "open", "closing", "gone"}]
         /\ \A u \in Sessions : CloseOf(s)[u] = "new" <=> conn[u] = "new"
BY DEF CloseOf

\* What is known of the task that runs.
LEMMA HeadRuns ==
  ASSUME SessionTypeOK, LoginsAreNew, NEW k, NEW s \in Sessions, Runs(k, s)
  PROVE  /\ tasks # <<>> /\ Task(k, s) \in Among(tasks) /\ conn[s] # "new"
         /\ k = "login" => Unused(s) /\ Task(k, s) \notin Among(Tail(tasks))
         /\ Tail(tasks) \in Seq(SessionTask) /\ LoginsOnce(Tail(tasks))
         /\ Among(Tail(tasks)) \subseteq Among(tasks)
<1>1. tasks # <<>> /\ Head(tasks) = Task(k, s)
  BY DEF Runs
<1>2. /\ Tail(tasks) \in Seq(SessionTask) /\ LoginsOnce(Tail(tasks))
      /\ Among(Tail(tasks)) \subseteq Among(tasks) /\ Head(tasks) \in Among(tasks)
      /\ Head(tasks).kind = "login" => Head(tasks) \notin Among(Tail(tasks))
  BY <1>1, TailAmong DEF SessionTypeOK, LoginsAreNew
<1>3. Task(k, s).kind = k /\ Task(k, s).session = s
  BY DEF Task
<1> QED
  BY <1>1, <1>2, <1>3 DEF LoginsAreNew

\* How a step other than a first message keeps LoginsAreNew.
LEMMA QueueKept ==
  ASSUME LoginsAreNew, SessionTypeOK', LoginsOnce(tasks'),
         \A u \in Sessions : conn'[u] = "new" <=> conn[u] = "new",
         \A t \in Among(tasks') : t \in Among(tasks) \/ (t.kind # "login" /\ conn[t.session] # "new"),
         \A u \in Sessions :
           Unused(u) => Unused(u)' \/ (conn[u] # "new" /\ Task("login", u) \notin Among(tasks'))
  PROVE  LoginsAreNew'
<1>1. \A t \in Among(tasks') : t.session \in Sessions /\ t = Task(t.kind, t.session)
  BY AmongTasks DEF SessionTypeOK
<1> QED
  BY <1>1 DEF LoginsAreNew

\* What the queue is after a task of s has run, with or without a disconnect.
LEMMA QueueAfter ==
  ASSUME SessionTypeOK, LoginsAreNew, NEW k, NEW s \in Sessions, NEW x \in Sessions, Runs(k, s),
         \/ tasks' = Tail(tasks) /\ conn' = conn
         \/ tasks' = Tail(tasks) \o Posted(x) /\ conn' = CloseOf(x)
  PROVE  /\ tasks' \in Seq(SessionTask) /\ LoginsOnce(tasks')
         /\ conn' \in [Sessions -> {"new", "open", "closing", "gone"}]
         /\ \A u \in Sessions : conn'[u] = "new" <=> conn[u] = "new"
         /\ \A t \in Among(tasks') :
              t \in Among(tasks) \/ (t.kind # "login" /\ conn[t.session] # "new")
         /\ k = "login" => Unused(s) /\ conn[s] # "new" /\ Task("login", s) \notin Among(tasks')
<1>1. /\ conn[s] # "new" /\ (k = "login" => Unused(s) /\ Task(k, s) \notin Among(Tail(tasks)))
      /\ Tail(tasks) \in Seq(SessionTask) /\ LoginsOnce(Tail(tasks))
      /\ Among(Tail(tasks)) \subseteq Among(tasks)
  BY HeadRuns
<1>2. CASE tasks' = Tail(tasks) /\ conn' = conn
  BY <1>1, <1>2 DEF SessionTypeOK
<1>3. CASE tasks' = Tail(tasks) \o Posted(x) /\ conn' = CloseOf(x)
  <2>1. /\ tasks' \in Seq(SessionTask) /\ LoginsOnce(tasks')
        /\ Among(tasks') = Among(Tail(tasks))
                              \cup (IF conn[x] = "open" THEN {Task("release", x)} ELSE {})
    BY <1>1, <1>3, PostedAmong
  <2>2. Task("release", x).kind = "release" /\ Task("release", x).session = x
        /\ Task("release", x) # Task("login", s)
    BY DEF Task
  <2> QED
    BY <1>1, <1>3, <2>1, <2>2, CloseKeepsNew DEF SessionTypeOK
<1> QED
  BY <1>2, <1>3

\* A session takes over a player that no session has.
LEMMA TakeLinks ==
  ASSUME SessionTypeOK, OneAtATime, LinksAgree, NEW s \in Sessions, NEW o \in placed,
         client[o] = None, player[s] = None, Take(s, o), name' = name,
         event' \in [Sessions -> Sessions \cup {None}], event'[s] = None,
         \A u \in Sessions \ {s} : event'[u] = event[u],
         conn' \in [Sessions -> {"new", "open", "closing", "gone"}],
         tasks' \in Seq(SessionTask)
  PROVE  SessionTypeOK' /\ OneAtATime' /\ LinksAgree'
<1> o \in Sessions /\ s # None /\ o # None /\ o \in created
  BY SessionAssumption DEF SessionTypeOK
<1>1. /\ player' \in [Sessions -> Sessions \cup {None}]
      /\ client' \in [Sessions -> Sessions \cup {None}]
      /\ \A u \in Sessions : player'[u] = IF u = s THEN o ELSE player[u]
      /\ \A u \in Sessions : client'[u] = IF u = o THEN s ELSE client[u]
  BY DEF Take, SessionTypeOK
<1>2. refs' \in [Sessions -> Int] /\ UNCHANGED <<created, placed, releasing, deleted>>
  BY DEF Take, SessionTypeOK
<1>3. SessionTypeOK'
  BY <1>1, <1>2 DEF SessionTypeOK
<1>4. OneAtATime'
  BY <1>1, <1>2 DEF OneAtATime
<1>5. LinksAgree'
  <2>1. \A u \in Sessions : client[u] # None => client[u] \in Sessions \ {s}
    <3>1. \A u \in Sessions : client[u] # None => client[u] \in Sessions /\ player[client[u]] = u
      BY DEF LinksAgree, SessionTypeOK, Objects
    <3> QED
      BY <3>1, SessionAssumption
  <2>2. \A u \in Sessions : client'[u] # None => player'[client'[u]] = u
    BY <1>1, <2>1 DEF LinksAgree, Objects
  <2>3. \A u \in Sessions : player[u] # None => player[u] \in Sessions \ {o}
    <3>1. \A u \in Sessions : player[u] # None => player[u] \in Sessions /\ client[player[u]] = u
      BY DEF LinksAgree, SessionTypeOK
    <3> QED
      BY <3>1, SessionAssumption
  <2>4. \A u \in Sessions : player'[u] # None => client'[player'[u]] = u
    BY <1>1, <2>3 DEF LinksAgree
  <2> QED
    BY <1>2, <2>2, <2>4 DEF LinksAgree, Objects
<1> QED
  BY <1>3, <1>4, <1>5

\* Every step keeps the links of players and sessions.
LEMMA LinksStep == LinksInv /\ [SessionNext]_sessionVars => LinksInv'
<1> SUFFICES ASSUME LinksInv, [SessionNext]_sessionVars PROVE LinksInv'
  OBVIOUS
<1> USE SessionAssumption DEF LinksInv, SessionTypeOK, objects, links, Objects
<1>1. ASSUME NEW s \in Sessions, NEW n \in Names, FirstMessage(s, n) PROVE LinksInv'
  <2>1. Task("login", s) \in SessionTask /\ Task("login", s).session = s
    BY DEF Task, SessionTask
  <2>2. conn[s] = "new" /\ Unused(s)
    BY <1>1 DEF FirstMessage, LoginsAreNew
  <2>3. Task("login", s) \notin Among(tasks)
    BY <2>1, <2>2 DEF LoginsAreNew
  <2>4. /\ tasks' \in Seq(SessionTask) /\ LoginsOnce(tasks')
        /\ Among(tasks') = Among(tasks) \cup {Task("login", s)}
    BY <1>1, <2>1, <2>3, AppendAmong DEF FirstMessage, LoginsAreNew
  <2>5. SessionTypeOK'
    BY <1>1, <2>4 DEF FirstMessage
  <2>6. LoginsAreNew'
    BY <1>1, <2>1, <2>2, <2>4 DEF FirstMessage, LoginsAreNew, Unused
  <2>7. (OneAtATime /\ LinksAgree)'
    BY <1>1, <2>2 DEF FirstMessage, OneAtATime, LinksAgree, Unused
  <2> QED
    BY <2>5, <2>6, <2>7
<1>2. ASSUME NEW s \in Sessions, LoseClient(s) PROVE LinksInv'
  <2>1. /\ tasks' \in Seq(SessionTask) /\ LoginsOnce(tasks')
        /\ Among(tasks') = Among(tasks) \cup {Task("release", s)}
    BY <1>2, PostedAmong DEF LoseClient, Disconnect, LoginsAreNew
  <2>2. SessionTypeOK'
    BY <1>2, <2>1, CloseKeepsNew DEF LoseClient, Disconnect
  <2>3. LoginsAreNew'
    BY <1>2, <2>1, <2>2, QueueKept, CloseKeepsNew DEF LoseClient, Disconnect, Unused, Task
  <2>4. (OneAtATime /\ LinksAgree)'
    BY <1>2 DEF LoseClient, OneAtATime, LinksAgree
  <2> QED
    BY <2>2, <2>3, <2>4
<1>3. ASSUME NEW s \in Sessions, DestroyConnection(s) PROVE LinksInv'
  BY <1>3 DEF DestroyConnection, LoginsAreNew, Unused, OneAtATime, LinksAgree
<1>4. ASSUME NEW s \in Sessions, AskLogout(s) PROVE LinksInv'
  <2>1. Task("logout", s) \in SessionTask /\ Task("logout", s).kind # "login" /\ Task("logout", s).session = s
    BY DEF Task, SessionTask
  <2>2. /\ tasks' \in Seq(SessionTask) /\ LoginsOnce(tasks')
        /\ Among(tasks') = Among(tasks) \cup {Task("logout", s)}
    BY <1>4, <2>1, AppendAmong DEF AskLogout, LoginsAreNew
  <2>3. SessionTypeOK'
    BY <1>4, <2>2 DEF AskLogout
  <2>4. LoginsAreNew'
    BY <1>4, <2>1, <2>2, <2>3, QueueKept DEF AskLogout, Unused
  <2>5. (OneAtATime /\ LinksAgree)'
    BY <1>4 DEF AskLogout, OneAtATime, LinksAgree
  <2> QED
    BY <2>3, <2>4, <2>5
<1>5. ASSUME NEW s \in Sessions, LoginRefused(s) \/ LoginPlaced(s) PROVE LinksInv'
  <2>1. /\ tasks' \in Seq(SessionTask) /\ LoginsOnce(tasks')
        /\ conn' \in [Sessions -> {"new", "open", "closing", "gone"}]
        /\ \A u \in Sessions : conn'[u] = "new" <=> conn[u] = "new"
        /\ \A t \in Among(tasks') :
             t \in Among(tasks) \/ (t.kind # "login" /\ conn[t.session] # "new")
        /\ Unused(s) /\ conn[s] # "new" /\ Task("login", s) \notin Among(tasks')
    BY <1>5, QueueAfter DEF LoginRefused, LoginPlaced, Done, DoneDisconnect
  <2>2. SessionTypeOK'
    <3>1. created' = created \cup {s} /\ placed \subseteq placed' /\ placed' \subseteq placed \cup {s}
      BY <1>5 DEF LoginRefused, LoginPlaced
    <3>2. /\ player' \in [Sessions -> Sessions \cup {None}]
          /\ client' \in [Sessions -> Sessions \cup {None}]
          /\ UNCHANGED <<event, releasing, name, deleted>>
      <4>1. /\ player' = [player EXCEPT ![s] = s] /\ client' = [client EXCEPT ![s] = s]
            /\ UNCHANGED <<event, releasing, name, deleted>>
        BY <1>5 DEF LoginRefused, LoginPlaced
      <4> QED
        BY <4>1
    <3>3. refs' = [refs EXCEPT ![s] = 1] \/ refs' = [refs EXCEPT ![s] = LoginRefs]
      BY <1>5 DEF LoginRefused, LoginPlaced
    <3>4. refs' \in [Sessions -> Int]
      BY <3>3 DEF LoginRefs
    <3> QED
      BY <2>1, <3>1, <3>2, <3>4
  <2>3. \A u \in Sessions \ {s} : Unused(u) => Unused(u)'
    BY <1>5 DEF LoginRefused, LoginPlaced, Unused
  <2>4. LoginsAreNew'
    BY <2>1, <2>2, <2>3, QueueKept
  <2>7. /\ Found(name[s]) = {} /\ UNCHANGED <<name, event, releasing>>
        /\ \A u \in Sessions : player'[u] = IF u = s THEN s ELSE player[u]
        /\ \A u \in Sessions : client'[u] = IF u = s THEN s ELSE client[u]
        /\ created' = created \cup {s} /\ placed' \subseteq placed \cup {s}
    BY <1>5 DEF LoginRefused, LoginPlaced
  <2>5. OneAtATime'
    BY <2>1, <2>7 DEF OneAtATime, Unused
  <2>6. LinksAgree'
    <3>1. \A u \in Sessions : client[u] # None => client[u] \in Sessions \ {s}
      BY <2>1 DEF LinksAgree, Unused
    <3>2. \A u \in Sessions : player[u] # None => player[u] \in Sessions \ {s}
      BY <2>1 DEF OneAtATime, Unused
    <3>3. \A u \in Sessions : client'[u] # None => player'[client'[u]] = u
      BY <2>7, <3>1 DEF LinksAgree
    <3>4. \A u \in Sessions : player'[u] # None => client'[player'[u]] = u
      BY <2>7, <3>2 DEF LinksAgree
    <3>5. \A o, u \in placed' : name'[o] = name'[u] => o = u
      BY <2>7 DEF LinksAgree, Found
    <3> QED
      BY <3>3, <3>4, <3>5 DEF LinksAgree
  <2> QED
    BY <2>2, <2>4, <2>5, <2>6
<1>6. ASSUME NEW s \in Sessions, LoginTwice(s) PROVE LinksInv'
  <2>1. /\ tasks' \in Seq(SessionTask) /\ LoginsOnce(tasks')
        /\ conn' \in [Sessions -> {"new", "open", "closing", "gone"}]
        /\ \A u \in Sessions : conn'[u] = "new" <=> conn[u] = "new"
        /\ \A t \in Among(tasks') :
             t \in Among(tasks) \/ (t.kind # "login" /\ conn[t.session] # "new")
    BY <1>6, QueueAfter DEF LoginTwice, DoneDisconnect
  <2>2. SessionTypeOK'
    BY <1>6, <2>1 DEF LoginTwice
  <2>3. LoginsAreNew'
    BY <1>6, <2>1, <2>2, QueueKept DEF LoginTwice, Unused
  <2>4. (OneAtATime /\ LinksAgree)'
    BY <1>6 DEF LoginTwice, OneAtATime, LinksAgree
  <2> QED
    BY <2>2, <2>3, <2>4
<1>7. ASSUME NEW s \in Sessions, LoginReplace(s) PROVE LinksInv'
  <2>1. PICK o \in Found(name[s]) :
          /\ client[o] # None
          /\ event' = [event EXCEPT ![s] = o]
          /\ conn' = CloseOf(client[o])
          /\ tasks' = Tail(tasks) \o Posted(client[o])
    BY <1>7 DEF LoginReplace
  <2>2. o \in Sessions /\ client[o] \in Sessions
    BY <2>1 DEF Found
  <2>3. /\ tasks' \in Seq(SessionTask) /\ LoginsOnce(tasks')
        /\ conn' \in [Sessions -> {"new", "open", "closing", "gone"}]
        /\ \A u \in Sessions : conn'[u] = "new" <=> conn[u] = "new"
        /\ \A t \in Among(tasks') :
             t \in Among(tasks) \/ (t.kind # "login" /\ conn[t.session] # "new")
        /\ Unused(s) /\ conn[s] # "new" /\ Task("login", s) \notin Among(tasks')
    BY <1>7, <2>1, <2>2, QueueAfter DEF LoginReplace
  <2>4. SessionTypeOK'
    BY <1>7, <2>1, <2>2, <2>3 DEF LoginReplace
  <2>5. \A u \in Sessions \ {s} : Unused(u) => Unused(u)'
    BY <1>7, <2>1 DEF LoginReplace, Unused
  <2>6. LoginsAreNew'
    BY <2>3, <2>4, <2>5, QueueKept
  <2>7. (OneAtATime /\ LinksAgree)'
    BY <1>7, <2>1, <2>3 DEF LoginReplace, OneAtATime, LinksAgree, Unused
  <2> QED
    BY <2>4, <2>6, <2>7
<1>8. ASSUME NEW s \in Sessions, LoginConnect(s) PROVE LinksInv'
  <2>1. PICK o \in Found(name[s]) :
          /\ client[o] = None
          /\ IF conn[s] = "gone" THEN UNCHANGED <<player, client, objects>> ELSE Take(s, o)
    BY <1>8 DEF LoginConnect
  <2>2. o \in placed
    BY <2>1 DEF Found
  <2>3. /\ tasks' \in Seq(SessionTask) /\ LoginsOnce(tasks')
        /\ conn' \in [Sessions -> {"new", "open", "closing", "gone"}]
        /\ \A u \in Sessions : conn'[u] = "new" <=> conn[u] = "new"
        /\ \A t \in Among(tasks') :
             t \in Among(tasks) \/ (t.kind # "login" /\ conn[t.session] # "new")
        /\ Unused(s) /\ conn[s] # "new" /\ Task("login", s) \notin Among(tasks')
    BY <1>8, QueueAfter DEF LoginConnect, Done
  <2>8. UNCHANGED <<name, event>>
    BY <1>8 DEF LoginConnect
  <2>4. SessionTypeOK'
    <3>1. CASE conn[s] = "gone"
      BY <1>8, <2>1, <2>3, <3>1 DEF LoginConnect
    <3>2. CASE conn[s] # "gone"
      BY <1>8, <2>1, <2>2, <2>3, <2>8, <3>2, TakeLinks DEF LoginConnect, Unused
    <3> QED
      BY <3>1, <3>2
  <2>5. \A u \in Sessions \ {s} : Unused(u) => Unused(u)'
    BY <1>8, <2>1 DEF LoginConnect, Take, Unused
  <2>6. LoginsAreNew'
    BY <2>3, <2>4, <2>5, QueueKept
  <2>7. (OneAtATime /\ LinksAgree)'
    <3>1. CASE conn[s] = "gone"
      BY <1>8, <2>1, <3>1 DEF LoginConnect, OneAtATime, LinksAgree
    <3>2. CASE conn[s] # "gone"
      BY <1>8, <2>1, <2>2, <2>3, <2>8, <3>2, TakeLinks DEF LoginConnect, Unused
    <3> QED
      BY <3>1, <3>2
  <2> QED
    BY <2>4, <2>6, <2>7
<1>9. ASSUME NEW s \in Sessions, Connect(s) PROVE LinksInv'
  <2>1. CASE event[s] \notin placed \/ Occupied(event[s])
    <3>1. /\ tasks' \in Seq(SessionTask) /\ LoginsOnce(tasks')
          /\ Among(tasks')
               = Among(tasks) \cup (IF conn[s] = "open" THEN {Task("release", s)} ELSE {})
      <4>1. tasks' = tasks \o Posted(s) /\ tasks \in Seq(SessionTask) /\ LoginsOnce(tasks)
        BY <1>9, <2>1 DEF Connect, Disconnect, LoginsAreNew
      <4> QED
        BY <4>1, PostedAmong
    <3>2. SessionTypeOK'
      BY <1>9, <2>1, <3>1, CloseKeepsNew DEF Connect, Disconnect
    <3>3. LoginsAreNew'
      BY <1>9, <2>1, <3>1, <3>2, QueueKept, CloseKeepsNew DEF Connect, Disconnect, Unused, Task
    <3>4. (OneAtATime /\ LinksAgree)'
      BY <1>9, <2>1 DEF Connect, OneAtATime, LinksAgree
    <3> QED
      BY <3>2, <3>3, <3>4
  <2>2. CASE ~(event[s] \notin placed \/ Occupied(event[s]))
    <3>1. /\ event[s] \in placed /\ client[event[s]] = None /\ player[s] = None
          /\ UNCHANGED <<conn, tasks, name>>
          /\ event' = [event EXCEPT ![s] = None]
      BY <1>9, <2>2 DEF Connect, Occupied, OneAtATime
    <3>2. IF conn[s] = "gone" THEN UNCHANGED <<player, client, objects>> ELSE Take(s, event[s])
      BY <1>9, <2>2 DEF Connect
    <3>3. ~Unused(s) /\ \A u \in Sessions \ {s} : Unused(u) => Unused(u)'
      BY <1>9, <3>1, <3>2 DEF Connect, Take, Unused
    <3>5. /\ event' \in [Sessions -> Sessions \cup {None}] /\ event'[s] = None
          /\ \A u \in Sessions \ {s} : event'[u] = event[u]
      BY <3>1
    <3>6. CASE conn[s] = "gone"
      <4>1. (SessionTypeOK /\ OneAtATime /\ LinksAgree)'
        BY <3>1, <3>2, <3>5, <3>6 DEF OneAtATime, LinksAgree
      <4> QED
        BY <3>1, <3>3, <4>1, QueueKept DEF LoginsAreNew
    <3>7. CASE conn[s] # "gone"
      <4>1. (SessionTypeOK /\ OneAtATime /\ LinksAgree)'
        BY <3>1, <3>2, <3>5, <3>7, TakeLinks
      <4> QED
        BY <3>1, <3>3, <4>1, QueueKept DEF LoginsAreNew
    <3> QED
      BY <3>6, <3>7
  <2> QED
    BY <2>1, <2>2
<1>10. ASSUME NEW s \in Sessions, Release(s) PROVE LinksInv'
  <2>1. /\ tasks' \in Seq(SessionTask) /\ LoginsOnce(tasks')
        /\ conn' \in [Sessions -> {"new", "open", "closing", "gone"}]
        /\ \A u \in Sessions : conn'[u] = "new" <=> conn[u] = "new"
        /\ \A t \in Among(tasks') :
             t \in Among(tasks) \/ (t.kind # "login" /\ conn[t.session] # "new")
    BY <1>10, QueueAfter DEF Release, Done
  <2>5. UNCHANGED <<name, event, created, placed, releasing>>
    BY <1>10 DEF Release
  <2>6. /\ player' \in [Sessions -> Sessions \cup {None}]
        /\ client' \in [Sessions -> Sessions \cup {None}]
        /\ refs' \in [Sessions -> Int] /\ deleted' \subseteq created
        /\ \/ UNCHANGED <<player, client>>
           \/ /\ player[s] # None
              /\ \A u \in Sessions : player'[u] = IF u = s THEN None ELSE player[u]
              /\ \A u \in Sessions : client'[u] = IF u = player[s] THEN None ELSE client[u]
    <3>1. CASE player[s] # None /\ client[player[s]] = s
      <4>1. player[s] \in Sessions /\ player[s] \in created
        BY <3>1 DEF OneAtATime
      <4>2. /\ client' = [client EXCEPT ![player[s]] = None]
            /\ player' = [player EXCEPT ![s] = None] /\ Drop(player[s], 1)
        BY <1>10, <3>1 DEF Release, Unlink
      <4> QED
        BY <3>1, <4>1, <4>2 DEF Drop
    <3>2. CASE ~(player[s] # None /\ client[player[s]] = s)
      <4>1. UNCHANGED <<client, player, refs, deleted>>
        BY <1>10, <3>2 DEF Release
      <4> QED
        BY <4>1
    <3> QED
      BY <3>1, <3>2
  <2>2. SessionTypeOK'
    BY <2>1, <2>5, <2>6
  <2>3. LoginsAreNew'
    BY <1>10, <2>1, <2>2, QueueKept DEF Release, Unused
  <2>4. (OneAtATime /\ LinksAgree)'
    BY <2>5, <2>6 DEF OneAtATime, LinksAgree
  <2> QED
    BY <2>2, <2>3, <2>4
<1>11. ASSUME NEW s \in Sessions, Logout(s) PROVE LinksInv'
  <2>1. /\ tasks' \in Seq(SessionTask) /\ LoginsOnce(tasks')
        /\ conn' \in [Sessions -> {"new", "open", "closing", "gone"}]
        /\ \A u \in Sessions : conn'[u] = "new" <=> conn[u] = "new"
        /\ \A t \in Among(tasks') :
             t \in Among(tasks) \/ (t.kind # "login" /\ conn[t.session] # "new")
    BY <1>11, QueueAfter DEF Logout, Done, DoneDisconnect
  <2>2. SessionTypeOK'
    <3>3. UNCHANGED <<placed, releasing>> \/ Removed(player[s])
      BY <1>11 DEF Logout
    <3>1. placed' \subseteq placed /\ releasing' \in [Sessions -> Nat]
      BY <3>3 DEF Removed
    <3>2. UNCHANGED <<event, player, client, refs, name, created, deleted>>
      BY <1>11 DEF Logout
    <3> QED
      BY <2>1, <3>1, <3>2
  <2>3. LoginsAreNew'
    BY <1>11, <2>1, <2>2, QueueKept DEF Logout, Unused
  <2>4. (OneAtATime /\ LinksAgree)'
    BY <1>11 DEF Logout, Removed, OneAtATime, LinksAgree
  <2> QED
    BY <2>2, <2>3, <2>4
<1>12. ASSUME NEW o \in Objects, Kick(o) PROVE LinksInv'
  <2>1. /\ tasks' \in Seq(SessionTask) /\ LoginsOnce(tasks')
        /\ conn' \in [Sessions -> {"new", "open", "closing", "gone"}]
        /\ \A u \in Sessions : conn'[u] = "new" <=> conn[u] = "new"
        /\ \A t \in Among(tasks') :
             t \in Among(tasks) \/ (t.kind # "login" /\ conn[t.session] # "new")
    <3>1. CASE client[o] # None
      <4>1. client[o] \in Sessions
        BY <3>1
      <4>2. conn' = CloseOf(client[o]) /\ tasks' = tasks \o Posted(client[o])
        BY <1>12, <3>1 DEF Kick, Disconnect
      <4>3. Task("release", client[o]).kind = "release"
            /\ Task("release", client[o]).session = client[o]
        BY DEF Task
      <4> QED
        BY <4>1, <4>2, <4>3, PostedAmong, CloseKeepsNew DEF LoginsAreNew
    <3>2. CASE client[o] = None
      BY <1>12, <3>2 DEF Kick, LoginsAreNew
    <3> QED
      BY <3>1, <3>2
  <2>2. SessionTypeOK'
    BY <1>12, <2>1 DEF Kick, Removed
  <2>3. LoginsAreNew'
    BY <1>12, <2>1, <2>2, QueueKept DEF Kick, Unused
  <2>4. (OneAtATime /\ LinksAgree)'
    BY <1>12 DEF Kick, Removed, OneAtATime, LinksAgree
  <2> QED
    BY <2>2, <2>3, <2>4
<1>13. ASSUME NEW o \in Objects, Die(o) PROVE LinksInv'
  BY <1>13 DEF Die, Removed, LoginsAreNew, Unused, OneAtATime, LinksAgree
<1>14. ASSUME NEW o \in Objects, Cleanup(o) PROVE LinksInv'
  BY <1>14 DEF Cleanup, Drop, LoginsAreNew, Unused, OneAtATime, LinksAgree
<1>15. CASE UNCHANGED sessionVars
  BY <1>15 DEF sessionVars, LoginsAreNew, Unused, OneAtATime, LinksAgree
<1> QED
  BY <1>1, <1>2, <1>3, <1>4, <1>5, <1>6, <1>7, <1>8, <1>9, <1>10, <1>11, <1>12, <1>13,
     <1>14, <1>15
  DEF SessionNext, OtherStep, OtherTask
-----------------------------------------------------------------------------
(* The reference counter.                                                  *)

\* The sessions that have the player are at most one: its client.
Held == [o \in Sessions |-> (IF client[o] # None THEN 1 ELSE 0)
                             + (IF o \in placed THEN 2 ELSE releasing[o])]
OneClient == \A o \in Sessions : Holders(o) = Held[o]

\* The links are those the run checks.
LEMMA HoldersAre == LinksInv => OneClient
<1> SUFFICES ASSUME LinksInv, NEW o \in Sessions PROVE Holders(o) = Held[o]
  BY DEF OneClient
<1> DEFINE have == {s \in Sessions : player[s] = o}
<1>1. CASE client[o] = None
  <2>1. \A s \in Sessions : player[s] # o
    BY <1>1, SessionAssumption DEF LinksInv, LinksAgree
  <2>3. have = {}
    BY <2>1
  <2>2. Cardinality(have) = 0
    BY <2>3, FS_EmptySet
  <2> QED
    BY <1>1, <2>2 DEF Holders, Held
<1>2. CASE client[o] # None
  <2>1. client[o] \in Sessions /\ player[client[o]] = o
    BY <1>2 DEF LinksInv, SessionTypeOK, LinksAgree, Objects
  <2>2. \A s \in Sessions : player[s] = o => s = client[o]
    BY SessionAssumption DEF LinksInv, LinksAgree
  <2>3. have = {client[o]}
    BY <2>1, <2>2
  <2>4. Cardinality(have) = 1
    BY <2>3, FS_Singleton
  <2> QED
    BY <1>2, <2>4 DEF Holders, Held
<1> QED
  BY <1>1, <1>2

Counted == \A o \in created : refs[o] = Held[o] /\ (o \in deleted <=> Held[o] = 0)

\* The references are counted as the run counts them.
LEMMA CountedIs == LinksInv => (RefsCounted <=> Counted)
BY HoldersAre DEF OneClient, RefsCounted, Counted, LinksInv, SessionTypeOK

\* What a session takes over is placed, so it has not been deleted.
LEMMA TakeCounts ==
  ASSUME LinksInv, Counted, NEW s \in Sessions, NEW o \in placed, client[o] = None, Take(s, o)
  PROVE  Counted'
<1>1. o \in Sessions /\ s # None
  BY SessionAssumption DEF LinksInv, SessionTypeOK
<1>2. /\ UNCHANGED <<created, placed, releasing, deleted>>
      /\ \A u \in Sessions : refs'[u] = IF u = o THEN refs[u] + 1 ELSE refs[u]
      /\ \A u \in Sessions : client'[u] = IF u = o THEN s ELSE client[u]
  BY <1>1 DEF Take, LinksInv, SessionTypeOK
<1>3. /\ Held'[o] = Held[o] + 1 /\ Held[o] >= 2
      /\ \A u \in Sessions \ {o} : Held'[u] = Held[u]
  BY <1>1, <1>2 DEF Held
<1>4. o \in created /\ refs[o] = Held[o] /\ o \notin deleted
  BY <1>1, <1>3 DEF Counted, LinksInv, SessionTypeOK
<1>5. refs'[o] = Held'[o] /\ Held'[o] # 0 /\ o \notin deleted'
  BY <1>1, <1>2, <1>3, <1>4 DEF LinksInv, SessionTypeOK
<1>6. ASSUME NEW u \in created \ {o} PROVE refs'[u] = Held'[u] /\ (u \in deleted' <=> Held'[u] = 0)
  BY <1>2, <1>3 DEF Counted, LinksInv, SessionTypeOK
<1> QED
  BY <1>2, <1>5, <1>6 DEF Counted

\* Leaving the game turns the two references of the game into two to be released.
LEMMA RemovedCounts ==
  ASSUME LinksInv, Counted, NEW o \in Sessions, Removed(o),
         UNCHANGED <<client, created, refs, deleted>>
  PROVE  Counted'
<1>1. /\ placed' = placed \ {o}
      /\ \A u \in Sessions : releasing'[u] = IF u = o /\ o \in placed THEN 2 ELSE releasing[u]
  BY DEF Removed, LinksInv, SessionTypeOK
<1>2. \A u \in Sessions : Held'[u] = Held[u]
  BY <1>1 DEF Held
<1> QED
  BY <1>2 DEF Counted, LinksInv, SessionTypeOK

\* One reference fewer: the counter follows.
LEMMA DropCounts ==
  ASSUME LinksInv, Counted, NEW o \in created, Drop(o, 1), created' = created, Held[o] # 0,
         Held'[o] = Held[o] - 1, \A u \in Sessions \ {o} : Held'[u] = Held[u]
  PROVE  Counted'
<1>1. o \in Sessions /\ refs \in [Sessions -> Int] /\ created \subseteq Sessions /\ Held[o] \in Int
  BY DEF LinksInv, SessionTypeOK, Held
<1>2. /\ refs'[o] = refs[o] - 1 /\ \A u \in Sessions \ {o} : refs'[u] = refs[u]
      /\ deleted' = IF refs[o] = 1 THEN deleted \cup {o} ELSE deleted
  BY <1>1 DEF Drop
<1>3. refs[o] = Held[o] /\ (o \in deleted <=> Held[o] = 0)
  BY DEF Counted
<1>4. refs'[o] = Held'[o] /\ (o \in deleted' <=> Held'[o] = 0)
  BY <1>1, <1>2, <1>3, Held[o] # 0
<1>5. ASSUME NEW u \in created \ {o} PROVE refs'[u] = Held'[u] /\ (u \in deleted' <=> Held'[u] = 0)
  BY <1>1, <1>2 DEF Counted
<1> QED
  BY <1>4, <1>5 DEF Counted

\* Every step keeps the count of references.
LEMMA CountStep == LinksInv /\ Counted /\ [SessionNext]_sessionVars => Counted'
<1> SUFFICES ASSUME LinksInv, Counted, [SessionNext]_sessionVars PROVE Counted'
  OBVIOUS
<1>1. CASE UNCHANGED <<client, created, placed, refs, releasing, deleted>>
  BY <1>1 DEF Counted, Held
<1>2. ASSUME NEW s \in Sessions, LoginRefused(s) \/ LoginPlaced(s) PROVE Counted'
  <2>1. s \notin created /\ releasing[s] = 0
    <3>1. Unused(s)
      BY <1>2, HeadRuns DEF LinksInv, LoginRefused, LoginPlaced
    <3> QED
      BY <3>1 DEF Unused, LinksInv, OneAtATime
  <2>2. /\ UNCHANGED <<releasing, deleted>> /\ created' = created \cup {s}
        /\ \A u \in Sessions : client'[u] = IF u = s THEN s ELSE client[u]
        /\ \/ placed' = placed /\ refs' = [refs EXCEPT ![s] = 1]
           \/ placed' = placed \cup {s} /\ refs' = [refs EXCEPT ![s] = 3]
    <3>1. client' = [client EXCEPT ![s] = s]
      BY <1>2 DEF LoginRefused, LoginPlaced
    <3> QED
      BY <1>2, <3>1 DEF LoginRefused, LoginPlaced, LoginRefs, LinksInv, SessionTypeOK
  <2>3. s # None /\ s \notin placed /\ s \notin deleted
    BY <2>1, SessionAssumption DEF LinksInv, SessionTypeOK
  <2>4. \A u \in Sessions \ {s} : Held'[u] = Held[u] /\ refs'[u] = refs[u]
    BY <2>2 DEF Held, LinksInv, SessionTypeOK
  <2>5. refs'[s] = Held'[s] /\ refs'[s] # 0
    BY <2>1, <2>2, <2>3 DEF Held, LinksInv, SessionTypeOK
  <2> QED
    BY <2>1, <2>2, <2>3, <2>4, <2>5 DEF Counted, LinksInv, SessionTypeOK
<1>3. ASSUME NEW s \in Sessions, LoginConnect(s) PROVE Counted'
  <2>1. PICK o \in Found(name[s]) :
          /\ client[o] = None
          /\ IF conn[s] = "gone" THEN UNCHANGED <<player, client, objects>> ELSE Take(s, o)
    BY <1>3 DEF LoginConnect
  <2>2. o \in placed
    BY <2>1 DEF Found
  <2> QED
    BY <1>1, <2>1, <2>2, TakeCounts DEF objects
<1>4. ASSUME NEW s \in Sessions, Connect(s) PROVE Counted'
  <2>1. \/ UNCHANGED <<player, client, objects>>
        \/ event[s] \in placed /\ client[event[s]] = None /\ Take(s, event[s])
    BY <1>4 DEF Connect, Occupied
  <2> QED
    BY <1>1, <2>1, TakeCounts DEF objects
<1>5. ASSUME NEW s \in Sessions, Release(s) PROVE Counted'
  <2>1. CASE player[s] # None /\ client[player[s]] = s
    <3>1. /\ client' = [client EXCEPT ![player[s]] = None] /\ Drop(player[s], 1)
          /\ UNCHANGED <<created, placed, releasing>>
      BY <1>5, <2>1 DEF Release, Unlink
    <3>2. player[s] \in created /\ player[s] \in Sessions /\ s # None
      BY <2>1, SessionAssumption DEF LinksInv, OneAtATime, SessionTypeOK
    <3>3. \A u \in Sessions : client'[u] = IF u = player[s] THEN None ELSE client[u]
      BY <3>1, <3>2 DEF LinksInv, SessionTypeOK
    <3>4. Held'[player[s]] = Held[player[s]] - 1 /\ Held[player[s]] # 0
      BY <2>1, <3>1, <3>2, <3>3 DEF Held, LinksInv, SessionTypeOK
    <3>5. \A u \in Sessions \ {player[s]} : Held'[u] = Held[u]
      BY <3>1, <3>3 DEF Held
    <3> QED
      BY <3>1, <3>2, <3>4, <3>5, DropCounts
  <2>2. CASE ~(player[s] # None /\ client[player[s]] = s)
    BY <1>1, <1>5, <2>2 DEF Release
  <2> QED
    BY <2>1, <2>2
<1>6. ASSUME NEW s \in Sessions, Logout(s) PROVE Counted'
  <2>1. UNCHANGED <<client, created, refs, deleted>>
    BY <1>6 DEF Logout, links
  <2>2. CASE UNCHANGED <<placed, releasing>>
    BY <1>1, <2>1, <2>2
  <2>3. CASE player[s] # None /\ Removed(player[s])
    <3>1. player[s] \in Sessions
      BY <2>3 DEF LinksInv, SessionTypeOK
    <3> QED
      BY <2>1, <2>3, <3>1, RemovedCounts
  <2> QED
    BY <1>6, <2>2, <2>3 DEF Logout
<1>7. ASSUME NEW o \in Objects, Kick(o) \/ Die(o) PROVE Counted'
  <2>1. Removed(o) /\ UNCHANGED <<client, created, refs, deleted>>
    BY <1>7 DEF Kick, Die, links
  <2> QED
    BY <2>1, RemovedCounts DEF Objects
<1>8. ASSUME NEW o \in Objects, Cleanup(o) PROVE Counted'
  <2>1. /\ releasing[o] > 0 /\ releasing' = [releasing EXCEPT ![o] = @ - 1] /\ Drop(o, 1)
        /\ UNCHANGED <<client, created, placed>>
    BY <1>8 DEF Cleanup, links
  <2>2. o \in created /\ o \notin placed /\ o \in Sessions
    BY <2>1 DEF LinksInv, OneAtATime, Objects
  <2>3. Held'[o] = Held[o] - 1 /\ Held[o] # 0
    <3>1. releasing[o] \in Nat \ {0} /\ releasing'[o] = releasing[o] - 1
      BY <2>1, <2>2 DEF LinksInv, SessionTypeOK
    <3>2. Held[o] = (IF client[o] # None THEN 1 ELSE 0) + releasing[o]
      BY <2>2 DEF Held
    <3>3. Held'[o] = (IF client[o] # None THEN 1 ELSE 0) + releasing'[o]
      BY <2>1, <2>2 DEF Held
    <3> QED
      BY <3>1, <3>2, <3>3
  <2>4. \A u \in Sessions \ {o} : Held'[u] = Held[u]
    BY <2>1, <2>2 DEF Held, LinksInv, SessionTypeOK
  <2> QED
    BY <2>1, <2>2, <2>3, <2>4, DropCounts
<1>9. ASSUME NEW s \in Sessions,
             \/ \E n \in Names : FirstMessage(s, n)
             \/ LoseClient(s) \/ DestroyConnection(s) \/ AskLogout(s)
             \/ LoginTwice(s) \/ LoginReplace(s)
      PROVE  Counted'
  <2>1. UNCHANGED <<client, created, placed, refs, releasing, deleted>>
    BY <1>9 DEF FirstMessage, LoseClient, DestroyConnection, AskLogout, LoginTwice, LoginReplace,
                links, objects
  <2> QED
    BY <1>1, <2>1
<1>10. CASE UNCHANGED sessionVars
  BY <1>1, <1>10 DEF sessionVars
<1> QED
  BY <1>2, <1>3, <1>4, <1>5, <1>6, <1>7, <1>8, <1>9, <1>10 DEF SessionNext, OtherStep, OtherTask
-----------------------------------------------------------------------------
(* The theorems.                                                           *)

\* There is no session when the server starts.
LEMMA SessionStart == SessionInit => LinksInv /\ Counted
<1> SUFFICES ASSUME SessionInit PROVE LinksInv /\ Counted
  OBVIOUS
<1> USE SessionAssumption DEF SessionInit, Objects
<1>1. SessionTypeOK
  BY DEF SessionTypeOK
<1>2. LoginsAreNew
  BY DEF LoginsAreNew, LoginsOnce, Among, Unused
<1>3. OneAtATime /\ LinksAgree
  BY DEF OneAtATime, LinksAgree
<1> QED
  BY <1>1, <1>2, <1>3 DEF LinksInv, Counted

\* Whatever the interleaving of logins, takeovers, lost clients, kicks, deaths
\* and clean-ups, the links of sessions and players agree and a character is in
\* the game once, so the loop that kicks every player (game.cpp:135) gets on.
THEOREM SessionsLinked == SessionSpec => []LinksAgree
<1>1. SessionSpec => []LinksInv
  BY SessionStart, LinksStep, PTL DEF SessionSpec
<1>2. LinksInv => LinksAgree
  BY DEF LinksInv
<1> QED
  BY <1>1, <1>2, PTL

\* The reference counter is what the sessions and the game hold, and an object
\* is deleted exactly when nothing holds it any more: a player in the game or
\* linked to a session is never a deleted object.
THEOREM SessionsCounted == SessionSpec => []RefsCounted
<1>1. SessionSpec => [](LinksInv /\ Counted)
  BY SessionStart, LinksStep, CountStep, PTL DEF SessionSpec
<1>2. LinksInv /\ Counted => RefsCounted
  BY CountedIs
<1> QED
  BY <1>1, <1>2, PTL

\* A step of the server is one of the sessions or leaves them alone.
LEMMA StepsAreSessions == [Next]_loginsVars => [SessionNext]_sessionVars
<1>1. SessionStep => SessionNext
  BY DEF SessionStep, SessionNext, LoginRefusedByAny, LoginLetIn
<1>2. QueueStep => UNCHANGED sessionVars
  BY DEF QueueStep
<1>3. UNCHANGED loginsVars => UNCHANGED sessionVars
  BY DEF loginsVars
<1> QED
  BY <1>1, <1>2, <1>3 DEF Next

\* With the waiting list in front of the logins, and with the list alone, the
\* sessions take no step that they do not take by themselves.
THEOREM LoginsKeepSessions == Spec => SessionSpec
<1>1. Init => SessionInit
  BY DEF Init
<1> QED
  BY <1>1, StepsAreSessions, PTL DEF Spec, SessionSpec

\* LinksAgree of the server as it runs: the sessions behind the waiting list.
THEOREM LoginsLinked == Spec => []LinksAgree
BY LoginsKeepSessions, SessionsLinked, PTL

\* RefsCounted of the server as it runs: the sessions behind the waiting list.
THEOREM LoginsCounted == Spec => []RefsCounted
BY LoginsKeepSessions, SessionsCounted, PTL
=============================================================================
