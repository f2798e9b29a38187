--------------------------- MODULE DataLakeProofs ---------------------------
(***************************************************************************)
(* The proofs about DataLake, for any number of calls, folders and files   *)
(* and any number of changes around them.  A step of call c leaves the     *)
(* other calls where they are; what has to be shown is that what it does   *)
(* to the cache and to the open lakes takes nothing away from them.        *)
(***************************************************************************)
EXTENDS DataLake, TLAPS

USE DataLakeAssumption

-----------------------------------------------------------------------------
(* Views *)

\* A view for a file that is later than the files that have a view so far:
\* then the views are those of all of them, in sorted order.
LEMMA WithViewProperties ==
  ASSUME NEW s \in SUBSET Files, NEW f \in Files, NEW w, AreViewsOf(w, s),
         \A g \in s : Rank[g] < Rank[f]
  PROVE  AreViewsOf(WithView(w, f), s \cup {f})
<1> DEFINE new == WithView(w, f)
           all == s \cup {f}
<1>1. DOMAIN new = Names(all)
  BY DEF WithView, AreViewsOf, Names
<1>2. ASSUME NEW v \in Names(all)
      PROVE  /\ new[v] \in all
             /\ ViewName[new[v]] = v
             /\ \A g \in all : ViewName[g] = v => Rank[g] <= Rank[new[v]]
  <2>1. new[v] = IF v = ViewName[f] THEN f ELSE w[v]
    BY <1>1 DEF WithView
  <2>2. CASE v = ViewName[f]
    BY <2>1, <2>2
  <2>3. CASE v # ViewName[f]
    BY <2>1, <2>3 DEF AreViewsOf, Names
  <2> QED
    BY <2>2, <2>3
<1> QED
  BY <1>1, <1>2 DEF AreViewsOf

\* No views are the views of no files.
LEMMA NothingIsNoViews == AreViewsOf(Nothing, {})
BY DEF AreViewsOf, Nothing, Names

\* The views w are of some of the files fs.
Typed(w, fs) == \E s \in SUBSET Names(fs) : w \in [s -> fs]

LEMMA NothingTyped == ASSUME NEW fs PROVE Typed(Nothing, fs)
<1>1. Nothing \in [{} -> fs]
  BY DEF Nothing
<1> QED
  BY <1>1 DEF Typed

LEMMA WithViewTyped ==
  ASSUME NEW fs, NEW f \in fs, NEW w, Typed(w, fs)
  PROVE  Typed(WithView(w, f), fs)
<1>1. PICK s \in SUBSET Names(fs) : w \in [s -> fs]
  BY DEF Typed
<1>2. WithView(w, f) \in [s \cup {ViewName[f]} -> fs]
  BY <1>1 DEF WithView
<1>3. s \cup {ViewName[f]} \in SUBSET Names(fs)
  BY DEF Names
<1> QED
  BY <1>2, <1>3 DEF Typed

-----------------------------------------------------------------------------
(* The types *)

LEMMA InitInv == Init => LakeInv
<1> SUFFICES ASSUME Init PROVE LakeInv
  OBVIOUS
<1>a. files \in [Places -> SUBSET Files] /\ changes \in 0 .. MaxChanges
  BY DEF Init
<1>b. /\ views = [c \in Calls |-> views[c]]
      /\ \A c \in Calls : todo[c] \subseteq found[c] /\ Typed(views[c], found[c])
  BY NothingTyped DEF Init
<1>1. TypeOK
  BY <1>a, <1>b DEF Init, TypeOK, Typed, UnderLock
<1>2. BuildInv /\ PublishedInv
  BY DEF Init, BuildInv, PublishedInv, Before, Served
<1>3. CachedLakeIsWhole /\ CursorOfItsFolder
  BY DEF Init, CachedLakeIsWhole, CursorOfItsFolder
<1> QED
  BY <1>1, <1>2, <1>3 DEF LakeInv

\* Every step has the types right, and the lock is held exactly by the call
\* that is inside `with self._datalake_lock`.
LEMMA NextType == TypeOK /\ BuildInv /\ [Next]_vars => TypeOK'
<1> SUFFICES ASSUME TypeOK, BuildInv, [Next]_vars PROVE TypeOK'
  OBVIOUS
<1> USE DEF TypeOK, Goto, UnderLock, world
<1>1. ASSUME NEW c \in Calls, Connect(c) PROVE TypeOK'
  BY <1>1 DEF Connect
<1>2. ASSUME NEW c \in Calls, Resolve(c) PROVE TypeOK'
  BY <1>2 DEF Resolve
<1>3. ASSUME NEW c \in Calls, ConnectFile(c) PROVE TypeOK'
  BY <1>3 DEF ConnectFile
<1>4. ASSUME NEW c \in Calls, ConnectFileFails(c) PROVE TypeOK'
  BY <1>4 DEF ConnectFileFails
<1>5. ASSUME NEW c \in Calls, Enter(c) PROVE TypeOK'
  BY <1>5 DEF Enter
<1>6. ASSUME NEW c \in Calls, ConnectLake(c) PROVE TypeOK'
  <2>1. views[c] = Nothing
    BY <1>6 DEF ConnectLake, BuildInv, Before
  <2>2. \A d \in Calls : Typed(views'[d], found'[d])
    BY <1>6, <2>1, NothingTyped DEF ConnectLake, Typed
  <2>3. /\ found' \in [Calls -> SUBSET Files] /\ todo' \in [Calls -> SUBSET Files]
        /\ \A d \in Calls : todo'[d] \subseteq found'[d]
    BY <1>6 DEF ConnectLake
  <2> QED
    BY <1>6, <2>2, <2>3 DEF ConnectLake, Typed
<1>7. ASSUME NEW c \in Calls, RegisterView(c) PROVE TypeOK'
  <2>1. PICK f \in Files : /\ IsFirst(f, todo[c])
                           /\ todo' = [todo EXCEPT ![c] = @ \ {f}]
                           /\ Register(c, f)
    BY <1>7 DEF RegisterView
  <2>2. f \in found[c]
    BY <2>1 DEF IsFirst
  <2>3. Typed(views'[c], found[c])
    BY <2>1, <2>2, WithViewTyped DEF Register, Typed
  <2>4. \A d \in Calls : Typed(views'[d], found[d])
    BY <2>1, <2>3 DEF Register, Typed
  <2>5. views' = [d \in Calls |-> views'[d]]
    BY <2>1 DEF Register
  <2>6. /\ todo' \in [Calls -> SUBSET Files]
        /\ \A d \in Calls : todo'[d] \subseteq found[d]
    BY <2>1
  <2> QED
    BY <1>7, <2>4, <2>5, <2>6 DEF RegisterView, Typed
<1>8. ASSUME NEW c \in Calls, BuildFails(c) PROVE TypeOK'
  BY <1>8 DEF BuildFails
<1>9. ASSUME NEW c \in Calls, Publish(c) PROVE TypeOK'
  BY <1>9 DEF Publish
<1>10. ASSUME NEW c \in Calls, GetCursor(c) PROVE TypeOK'
  BY <1>10 DEF GetCursor
<1>11. ASSUME NEW c \in Calls, Answer(c) PROVE TypeOK'
  BY <1>11 DEF Answer
<1>12. ASSUME NEW c \in Calls, NEW f \in Files, Query(c, ViewName[f]) PROVE TypeOK'
  BY <1>12 DEF Query
<1>13. ASSUME NEW c \in Calls, Close(c) PROVE TypeOK'
  BY <1>13 DEF Close
<1>14. CASE ChangeDir
  BY <1>14 DEF ChangeDir, calls
<1>15. CASE ChangeFile
  BY <1>15 DEF ChangeFile, calls
<1>16. CASE UNCHANGED vars
  BY <1>16 DEF vars
<1> QED
  BY <1>1, <1>2, <1>3, <1>4, <1>5, <1>6, <1>7, <1>8, <1>9, <1>10, <1>11,
     <1>12, <1>13, <1>14, <1>15, <1>16 DEF Next, Step

-----------------------------------------------------------------------------
(* The build *)

\* Every step of a call leaves the others where they are, with their files,
\* views and folder.
LEMMA NextBuild == TypeOK /\ BuildInv /\ PublishedInv /\ [Next]_vars => BuildInv'
<1> SUFFICES ASSUME TypeOK, BuildInv, PublishedInv, [Next]_vars PROVE BuildInv'
  OBVIOUS
<1> USE DEF BuildInv, Goto, world, Stale, Before, Served
<1>t. /\ \A c \in Calls : lock = c <=> at[c] \in UnderLock
      /\ DOMAIN at = Calls /\ DOMAIN asked = Calls /\ DOMAIN found = Calls
      /\ DOMAIN todo = Calls /\ DOMAIN views = Calls
      /\ \A c \in Calls : todo[c] \subseteq found[c] /\ found[c] \subseteq Files
      /\ con \in Calls \cup {NoCall}
      /\ at \in [Calls -> UnderLock \cup {"idle", "resolve", "enter", "file",
                                         "using", "closing", "done"}]
  BY DEF TypeOK
<1> USE <1>t DEF UnderLock
<1>1. ASSUME NEW c \in Calls, Connect(c) PROVE BuildInv'
  BY <1>1 DEF Connect
<1>2. ASSUME NEW c \in Calls, Resolve(c) PROVE BuildInv'
  BY <1>2 DEF Resolve
<1>3. ASSUME NEW c \in Calls, ConnectFile(c) PROVE BuildInv'
  BY <1>3 DEF ConnectFile
<1>4. ASSUME NEW c \in Calls, ConnectFileFails(c) PROVE BuildInv'
  BY <1>4 DEF ConnectFileFails
<1>5. ASSUME NEW c \in Calls, Enter(c) PROVE BuildInv'
  BY <1>5 DEF Enter
<1>6. ASSUME NEW c \in Calls, ConnectLake(c) PROVE BuildInv'
  <2>1. views[c] = Nothing /\ Stale(c)
    BY <1>6 DEF ConnectLake
  <2>2. /\ at'[c] = "register" /\ c \in open'
        /\ found'[c] \ todo'[c] = {} /\ views'[c] = Nothing
    BY <1>6, <2>1 DEF ConnectLake
  <2>3. AreViewsOf(views'[c], found'[c] \ todo'[c])
    BY <2>2, NothingIsNoViews
  <2> QED
    BY <1>6, <2>1, <2>2, <2>3 DEF ConnectLake
<1>7. ASSUME NEW c \in Calls, RegisterView(c) PROVE BuildInv'
  <2> DEFINE done == found[c] \ todo[c]
  <2>1. PICK f \in Files : /\ IsFirst(f, todo[c])
                           /\ todo' = [todo EXCEPT ![c] = @ \ {f}]
                           /\ Register(c, f)
    BY <1>7 DEF RegisterView
  <2>2. /\ at[c] = "register" /\ f \in todo[c] /\ f \in found[c]
        /\ \A g \in todo[c] : g # f => Rank[f] < Rank[g]
    BY <1>7, <2>1 DEF RegisterView, IsFirst
  <2>3. /\ AreViewsOf(views[c], done) /\ done \in SUBSET Files
        /\ \A g \in done : Rank[g] < Rank[f]
    BY <2>2
  <2>4. AreViewsOf(WithView(views[c], f), done \cup {f})
    <3> HIDE DEF done
    <3> QED BY <2>3, WithViewProperties
  <2>5. /\ todo'[c] = todo[c] \ {f} /\ found'[c] = found[c]
        /\ views'[c] = WithView(views[c], f)
    BY <1>7, <2>1 DEF Register, RegisterView
  <2>6. found'[c] \ todo'[c] = done \cup {f}
    BY <2>2, <2>5
  <2>7. AreViewsOf(views'[c], found'[c] \ todo'[c])
    BY <2>4, <2>5, <2>6
  <2>8. \A g \in found'[c] \ todo'[c], h \in todo'[c] : Rank[g] < Rank[h]
    BY <2>2, <2>5, <2>6
  <2>9. \A d \in Calls \ {c} : views'[d] = views[d] /\ todo'[d] = todo[d]
    BY <2>1 DEF Register
  <2>10. at' = at /\ found' = found /\ UNCHANGED <<con, folder, asked, open>>
    BY <1>7, <2>2 DEF RegisterView
  <2> SUFFICES ASSUME NEW d \in Calls
               PROVE  /\ at'[d] \in Before => todo'[d] = {} /\ views'[d] = Nothing
                      /\ at'[d] = "register" =>
                           /\ d \in open'
                           /\ AreViewsOf(views'[d], found'[d] \ todo'[d])
                           /\ \A g \in found'[d] \ todo'[d], h \in todo'[d] : Rank[g] < Rank[h]
                      /\ at'[d] \in {"connect", "register"} => Stale(d)'
                      /\ at'[d] = "cursor" => ~Stale(d)'
    OBVIOUS
  <2>11. CASE d = c
    BY <2>2, <2>7, <2>8, <2>10, <2>11
  <2>12. CASE d # c
    BY <2>9, <2>10, <2>12
  <2> QED
    BY <2>11, <2>12
<1>8. ASSUME NEW c \in Calls, BuildFails(c) PROVE BuildInv'
  BY <1>8 DEF BuildFails
<1>9. ASSUME NEW c \in Calls, Publish(c) PROVE BuildInv'
  BY <1>9 DEF Publish, PublishedInv
<1>10. ASSUME NEW c \in Calls, GetCursor(c) PROVE BuildInv'
  BY <1>10 DEF GetCursor
<1>11. ASSUME NEW c \in Calls, Answer(c) PROVE BuildInv'
  BY <1>11 DEF Answer
<1>12. ASSUME NEW c \in Calls, NEW f \in Files, Query(c, ViewName[f]) PROVE BuildInv'
  BY <1>12 DEF Query
<1>13. ASSUME NEW c \in Calls, Close(c) PROVE BuildInv'
  BY <1>13 DEF Close
<1>14. CASE ChangeDir
  BY <1>14 DEF ChangeDir, calls
<1>15. CASE ChangeFile
  BY <1>15 DEF ChangeFile, calls
<1>16. CASE UNCHANGED vars
  BY <1>16 DEF vars
<1> QED
  BY <1>1, <1>2, <1>3, <1>4, <1>5, <1>6, <1>7, <1>8, <1>9, <1>10, <1>11,
     <1>12, <1>13, <1>14, <1>15, <1>16 DEF Next, Step

-----------------------------------------------------------------------------
(* The cache and the cursors *)

\* What any step does to what is cached and open: only Publish changes the
\* cache, and it is by a call that has no use for the lake that was cached;
\* no step closes a lake that is cached.
LEMMA CacheStep ==
  TypeOK /\ BuildInv /\ PublishedInv /\ [Next]_vars =>
    \/ /\ UNCHANGED <<con, folder>>
       /\ con # NoCall /\ con \in open => con \in open'
    \/ \E c \in Calls : Publish(c)
<1> SUFFICES ASSUME TypeOK, BuildInv, PublishedInv, [Next]_vars,
                    \A c \in Calls : ~Publish(c)
             PROVE  /\ UNCHANGED <<con, folder>>
                    /\ con # NoCall /\ con \in open => con \in open'
  OBVIOUS
<1>1. ASSUME NEW c \in Calls, Connect(c) \/ Resolve(c) \/ ConnectFile(c) \/ ConnectFileFails(c)
      PROVE  UNCHANGED <<con, folder, open>>
  BY <1>1 DEF Connect, Resolve, ConnectFile, ConnectFileFails
<1>2. ASSUME NEW c \in Calls, Enter(c) \/ RegisterView(c) \/ GetCursor(c)
      PROVE  UNCHANGED <<con, folder, open>>
  BY <1>2 DEF Enter, RegisterView, GetCursor
<1>3. ASSUME NEW c \in Calls, Answer(c) \/ (\E f \in Files : Query(c, ViewName[f])) \/ Close(c)
      PROVE  UNCHANGED <<con, folder, open>>
  BY <1>3 DEF Answer, Query, Close
<1>4. ASSUME NEW c \in Calls, ConnectLake(c)
      PROVE  UNCHANGED <<con, folder>> /\ open' = open \cup {c}
  BY <1>4 DEF ConnectLake
<1>5. ASSUME NEW c \in Calls, BuildFails(c)
      PROVE  UNCHANGED <<con, folder>> /\ open' = open \ {c} /\ (con # NoCall => con # c)
  BY <1>5 DEF BuildFails, PublishedInv, Served
<1>6. CASE ChangeDir \/ ChangeFile \/ UNCHANGED vars
  BY <1>6 DEF ChangeDir, ChangeFile, calls, vars
<1> QED
  BY <1>1, <1>2, <1>3, <1>4, <1>5, <1>6 DEF Next, Step

\* A call that is past its build keeps its folder, its files and its views.
LEMMA ServedStays ==
  TypeOK /\ [Next]_vars =>
    \A d \in Calls : at[d] \in Served \cup {"cursor"} =>
      /\ at'[d] \in Served \cup {"cursor"}
      /\ at[d] \in Served => at'[d] \in Served
      /\ asked'[d] = asked[d] /\ found'[d] = found[d] /\ views'[d] = views[d]
<1> SUFFICES ASSUME TypeOK, [Next]_vars, NEW d \in Calls, at[d] \in Served \cup {"cursor"}
             PROVE  /\ at'[d] \in Served \cup {"cursor"}
                    /\ at[d] \in Served => at'[d] \in Served
                    /\ asked'[d] = asked[d] /\ found'[d] = found[d] /\ views'[d] = views[d]
  OBVIOUS
<1>t. /\ DOMAIN at = Calls /\ DOMAIN asked = Calls /\ DOMAIN found = Calls
      /\ DOMAIN views = Calls
      /\ at \in [Calls -> UnderLock \cup {"idle", "resolve", "enter", "file",
                                         "using", "closing", "done"}]
  BY DEF TypeOK
<1> USE <1>t DEF Goto, Served, UnderLock, world
<1>1. CASE \E c \in Calls : Connect(c) \/ Resolve(c) \/ ConnectFile(c) \/ ConnectFileFails(c)
  BY <1>1 DEF Connect, Resolve, ConnectFile, ConnectFileFails
<1>2. CASE \E c \in Calls : Enter(c) \/ ConnectLake(c) \/ RegisterView(c)
  BY <1>2 DEF Enter, ConnectLake, RegisterView, Register
<1>3. CASE \E c \in Calls : BuildFails(c) \/ Publish(c) \/ GetCursor(c)
  BY <1>3 DEF BuildFails, Publish, GetCursor
<1>4. CASE \E c \in Calls : Answer(c) \/ (\E f \in Files : Query(c, ViewName[f])) \/ Close(c)
  BY <1>4 DEF Answer, Query, Close
<1>5. CASE ChangeDir \/ ChangeFile \/ UNCHANGED vars
  BY <1>5 DEF ChangeDir, ChangeFile, calls, vars
<1> QED
  BY <1>1, <1>2, <1>3, <1>4, <1>5 DEF Next, Step

\* Only GetCursor gives a call its cursor: on the lake that is cached, which is
\* that of its folder.
LEMMA CursorStep ==
  TypeOK /\ BuildInv /\ [Next]_vars =>
    \A c \in Calls : lake'[c] # lake[c] =>
      /\ at[c] = "cursor" /\ at'[c] = "using"
      /\ lake'[c] = con /\ con # NoCall /\ folder = asked[c]
<1> SUFFICES ASSUME TypeOK, BuildInv, [Next]_vars, NEW c \in Calls, lake'[c] # lake[c]
             PROVE  /\ at[c] = "cursor" /\ at'[c] = "using"
                    /\ lake'[c] = con /\ con # NoCall /\ folder = asked[c]
  OBVIOUS
<1>1. ASSUME NEW d \in Calls, Connect(d) \/ Step(d), ~GetCursor(d) PROVE lake' = lake
  BY <1>1 DEF Step, Connect, Resolve, ConnectFile, ConnectFileFails, Enter, ConnectLake,
              RegisterView, BuildFails, Publish, Answer, Query, Close
<1>2. ChangeDir \/ ChangeFile \/ UNCHANGED vars => lake' = lake
  BY DEF ChangeDir, ChangeFile, calls, vars
<1>3. PICK d \in Calls : GetCursor(d)
  BY <1>1, <1>2 DEF Next
<1>4. d = c /\ at[c] = "cursor" /\ at'[c] = "using" /\ lake'[c] = con
  BY <1>3 DEF GetCursor, TypeOK, Goto
<1> QED
  BY <1>4 DEF BuildInv, Stale

LEMMA NextPublished == TypeOK /\ BuildInv /\ PublishedInv /\ [Next]_vars => PublishedInv'
<1> SUFFICES ASSUME TypeOK, BuildInv, PublishedInv, [Next]_vars PROVE PublishedInv'
  OBVIOUS
<1> USE DEF PublishedInv
<1>t. con \in Calls \cup {NoCall} /\ \A c \in Calls : lake[c] \in Calls \cup {NoCall}
  BY DEF TypeOK
<1>1. con' # NoCall => at'[con'] \in Served \cup {"cursor"}
  <2>1. CASE con' = con
    BY <2>1, <1>t, ServedStays
  <2>2. ASSUME NEW c \in Calls, Publish(c) PROVE at'[con'] \in Served \cup {"cursor"}
    BY <2>2 DEF Publish, Goto, TypeOK
  <2> QED
    BY <2>1, <2>2, CacheStep
<1>2. ASSUME NEW c \in Calls, lake'[c] # NoCall
      PROVE  at'[c] \in Served /\ at'[lake'[c]] \in Served \cup {"cursor"}
  <2>1. CASE lake'[c] = lake[c]
    BY <2>1, <1>2, <1>t, ServedStays
  <2>2. CASE lake'[c] # lake[c]
    BY <2>2, <1>t, CursorStep, ServedStays DEF Served
  <2> QED
    BY <2>1, <2>2
<1> QED
  BY <1>1, <1>2

\* What is published was whole when it was, and stays so.
LEMMA NextCached == LakeInv /\ [Next]_vars => CachedLakeIsWhole'
<1> SUFFICES ASSUME LakeInv, [Next]_vars, con' # NoCall
             PROVE  con' \in open' /\ asked'[con'] = folder'
                    /\ AreViewsOf(views'[con'], found'[con'])
  BY DEF CachedLakeIsWhole, AreViewsOf
<1>t. con \in Calls \cup {NoCall}
  BY DEF LakeInv, TypeOK
<1>1. CASE UNCHANGED <<con, folder>> /\ (con # NoCall /\ con \in open => con \in open')
  BY <1>1, <1>t, ServedStays DEF LakeInv, PublishedInv, CachedLakeIsWhole
<1>2. ASSUME NEW c \in Calls, Publish(c)
      PROVE  con' \in open' /\ asked'[con'] = folder'
             /\ AreViewsOf(views'[con'], found'[con'])
  <2>1. /\ con' = c /\ folder' = asked[c] /\ open' = open \ {con}
        /\ at[c] = "register" /\ todo[c] = {}
        /\ UNCHANGED <<asked, found, views>>
    BY <1>2 DEF Publish, Goto
  <2>2. c \in open /\ AreViewsOf(views[c], found[c] \ todo[c])
    BY <2>1 DEF LakeInv, BuildInv
  <2>3. con # c
    BY <2>1 DEF LakeInv, PublishedInv, Served
  <2>4. found[c] \ todo[c] = found[c]
    BY <2>1
  <2> QED
    BY <2>1, <2>2, <2>3, <2>4
<1> QED
  BY <1>1, <1>2, CacheStep DEF LakeInv

LEMMA NextCursor == LakeInv /\ [Next]_vars => CursorOfItsFolder'
<1> SUFFICES ASSUME LakeInv, [Next]_vars, NEW c \in Calls, lake'[c] # NoCall
             PROVE  asked'[lake'[c]] = asked'[c]
  BY DEF CursorOfItsFolder
<1>t. con \in Calls \cup {NoCall} /\ lake[c] \in Calls \cup {NoCall}
  BY DEF LakeInv, TypeOK
<1>1. CASE lake'[c] = lake[c]
  BY <1>1, <1>t, ServedStays DEF LakeInv, PublishedInv, CursorOfItsFolder
<1>2. CASE lake'[c] # lake[c]
  BY <1>2, <1>t, CursorStep, ServedStays DEF LakeInv, PublishedInv, CachedLakeIsWhole
<1> QED
  BY <1>1, <1>2

LEMMA InvCorrect == Spec => []LakeInv
<1>1. LakeInv /\ [Next]_vars => LakeInv'
  BY NextType, NextBuild, NextPublished, NextCached, NextCursor DEF LakeInv
<1> QED
  BY InitInv, <1>1, PTL DEF Spec

-----------------------------------------------------------------------------
(* The theorems *)

\* The types are right, and the lock is held exactly by the call that is inside
\* `with self._datalake_lock` (DuckDBDialect._connect).
THEOREM TypeCorrect == Spec => []TypeOK
<1>1. LakeInv => TypeOK
  BY DEF LakeInv
<1> QED
  BY <1>1, InvCorrect, PTL

\* However many calls build and fail, and however the files and the working
\* directory change meanwhile, the cached lake is open, is that of the cached
\* folder and has the views of all the files that its glob found
\* (DuckDBDialect._connect, connect_datalake).
THEOREM CacheCorrect == Spec => []CachedLakeIsWhole
<1>1. LakeInv => CachedLakeIsWhole
  BY DEF LakeInv
<1> QED
  BY <1>1, InvCorrect, PTL

\* A call reads the folder that its own path resolved to
\* (DuckDBDialect._connect).
THEOREM CursorCorrect == Spec => []CursorOfItsFolder
<1>1. LakeInv => CursorOfItsFolder
  BY DEF LakeInv
<1> QED
  BY <1>1, InvCorrect, PTL

\* A cached lake is only ever replaced by that of another folder, so the views
\* are created once as long as the folder stays the same
\* (DuckDBDialect._connect).
THEOREM BuiltOnce == Spec => BuiltOncePerFolder
<1>1. LakeInv /\ [Next]_vars => [con' # con /\ con # NoCall => folder' # folder]_vars
  <2> SUFFICES ASSUME LakeInv, [Next]_vars, con' # con, con # NoCall PROVE folder' # folder
    OBVIOUS
  <2>1. PICK c \in Calls : Publish(c)
    BY CacheStep DEF LakeInv
  <2>2. at[c] = "register" /\ folder' = asked[c]
    BY <2>1 DEF Publish, Goto
  <2> QED
    BY <2>2 DEF LakeInv, BuildInv, Stale
<1> QED
  BY <1>1, InvCorrect, PTL DEF Spec, BuiltOncePerFolder

=============================================================================
