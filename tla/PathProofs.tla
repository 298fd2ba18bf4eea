----------------------------- MODULE PathProofs -----------------------------
(***************************************************************************)
(* Proofs about TrustedPath, for a path of any length, any number of       *)
(* moves by the other accounts and any platform. One account at most is    *)
(* kept from moving something at each step (Stranger), and what has been   *)
(* secured on the way down, under the names of what was opened, stays      *)
(* closed to it: nobody who could loosen a directory may replace it        *)
(* (Secured, Aside).                                                       *)
(***************************************************************************)
EXTENDS TrustedPath, TLAPS

\* The one account that styrn is kept from at this step.
Stranger ==
  IF system /\ (platform = "windows" => step \notin {"locate", "located"}) THEN "user" ELSE "other"

\* A directory that lets the account replace whatever lies in it; a place it can replace.
Weak(node, a) == node.owner = a \/ node.acl = "allow" \/ (node.shared /\ ~node.sticky)
Lets(above, node, a) ==
  \/ Weak(above, a)
  \/ above.shared /\ node.owner = a
  \/ platform = "windows" /\ Writes(a, node)

\* The first k nodes are there, and the account replaces none of them; nor what follows.
Closed(k) == \A n \in 1 .. k : /\ There(n)
                               /\ n > 1 => ~Lets(nodes[n - 1], nodes[n], Stranger)
Strong(k) == Closed(k) /\ ~Weak(nodes[k], Stranger)

\* What has been established when a walk or a step leads to this step.
Secured(next) ==
  /\ next = "harden" \/ (next = "publish" /\ system) => Strong(Depth)
  /\ next = "prepared" => Closed(Store)
  /\ next \in {"read", "recheck", "verified"} => Closed(File)

\* A walk up that gets to the root has found what its next step goes by.
Walking ==
  step = "walk" =>
    /\ then \in {"open", "make", "harden", "publish", "prepared", "read", "recheck", "verified"}
    /\ then = "publish" => system
    /\ pos \in 1 .. Store
    /\ Strong(pos) => Secured(then)

Locating ==
  /\ step = "locate" => /\ pos \in 1 .. Depth /\ then = "located"
                        /\ pos > 1 => Strong(pos - 1)
  /\ step = "located" => /\ Strong(Depth)
                         /\ platform = "windows" => nodes[Depth].acl # "adds"

NodesOf(os) ==
  {node \in AnyNode : /\ os = "windows" => ~node.shared
                      /\ os = "linux" => node.acl = "none"
                      /\ os # "windows" => node.acl # "adds"}

\* What is there of a path begins at the root.
Reaching(path, first) ==
  \E last \in first .. File : \A n \in first .. File : path[n] # None <=> n <= last

PathSteps == {"idle", "walk", "open", "make", "look", "harden", "publish", "prepared", "read", "recheck",
              "verified", "locate", "located"}

PathTyped ==
  /\ system \in BOOLEAN /\ override \in BOOLEAN /\ platform \in {"linux", "macos", "windows"}
  /\ nodes \in [1 .. File -> {None} \cup NodesOf(platform)]
  /\ Reaching(nodes, 1)
  /\ step \in PathSteps
  /\ step = "make" \/ (step = "walk" /\ then = "make") => bottom \in 1 .. TrustedRoot

\* What was moved away lay in a place its mover could replace, and still can.
Aside ==
  aside # None =>
    /\ aside.at \in 2 .. File /\ There(aside.at)
    /\ aside.path \in [1 .. File -> {None} \cup NodesOf(platform)]
    /\ Reaching(aside.path, aside.at)
    /\ aside.at <= Store =>
         Lets(nodes[aside.at - 1], aside.path[aside.at], aside.by)

PathIInv == PathTyped /\ Aside /\ Secured(step) /\ Walking /\ Locating

----------------------------------------------------------------------------
(* Nodes and places. *)

LEMMA OneStranger == Against = {Stranger} /\ Stranger \in {"user", "other"}
BY DEF Against, Stranger

LEMMA PlacesAre ==
  /\ Depth \in Nat \ {0} /\ Store = Depth + 1 /\ File = Depth + 2
  /\ TrustedRoot \in {Depth, Store} /\ (system => TrustedRoot = Store)
BY PathAssumption DEF Store, File, TrustedRoot

LEMMA NodeThere ==
  ASSUME NEW node \in AnyNode
  PROVE  node # None
BY PathAssumption

LEMMA PlainNodes ==
  ASSUME NEW a \in {"root", "user", "other"}, NEW os
  PROVE  Plain(a) \in NodesOf(os) /\ Plain(a) # None
BY NodeThere DEF Plain, Node, NodesOf, AnyNode

LEMMA StrangersNodes ==
  ASSUME NEW a \in {"user", "other"}, NEW mine \in Strangers(a)
  PROVE  mine \in NodesOf(platform) /\ mine # None /\ mine.owner = a
<1>1. mine \in NodesOf(platform) /\ mine.owner = a
  <2>1. CASE platform = "windows"
    <3>1. mine = Plain(a) \/ mine = Node(a, FALSE, FALSE, "allow", TRUE)
      BY <2>1 DEF Strangers
    <3>2. Node(a, FALSE, FALSE, "allow", TRUE) \in NodesOf("windows")
      BY DEF Node, NodesOf, AnyNode
    <3>3. mine.owner = a
      BY <3>1 DEF Plain, Node
    <3>4. Plain(a) \in NodesOf(platform)
      BY PlainNodes
    <3> QED
      BY <2>1, <3>1, <3>2, <3>3, <3>4
  <2>2. CASE platform # "windows"
    <3>1. mine = Plain(a) \/ mine = Node(a, TRUE, FALSE, "none", TRUE)
      BY <2>2 DEF Strangers
    <3>2. Node(a, TRUE, FALSE, "none", TRUE) \in NodesOf(platform)
      BY <2>2 DEF Node, NodesOf, AnyNode
    <3>3. mine.owner = a
      BY <3>1 DEF Plain, Node
    <3>4. Plain(a) \in NodesOf(platform)
      BY PlainNodes
    <3> QED
      BY <2>2, <3>1, <3>2, <3>3, <3>4
  <2> QED
    BY <2>1, <2>2
<1> QED
  BY <1>1, NodeThere DEF NodesOf

LEMMA ReplacesLets ==
  ASSUME NEW n \in 2 .. File, NEW a, Replaces(a, n)
  PROVE  Lets(nodes[n - 1], nodes[n], a)
BY DEF Replaces, Lets, Weak

LEMMA LetsReplaces ==
  ASSUME NEW n \in 2 .. File, NEW a, ~Lets(nodes[n - 1], nodes[n], a)
  PROVE  ~Replaces(a, n)
BY ReplacesLets

\* Where a stranger was let in, it keeps what it puts there.
LEMMA OwnLets ==
  ASSUME NEW above, NEW node, NEW mine, NEW a, Lets(above, node, a), mine.owner = a
  PROVE  Lets(above, mine, a)
BY DEF Lets, Writes

LEMMA AddedLets ==
  ASSUME NEW above \in NodesOf(platform), NEW mine, NEW a, Adds(a, above), mine.owner = a
  PROVE  Lets(above, mine, a)
BY DEF Lets, Weak, Adds, Writes, NodesOf, AnyNode

\* What keeps the node above to itself and is not the stranger's is not replaced.
LEMMA Keeps ==
  ASSUME NEW above, NEW node \in NodesOf(platform), NEW a, ~Weak(above, a), ~Weak(node, a)
  PROVE  ~Lets(above, node, a)
BY DEF Lets, Weak, Writes, NodesOf

LEMMA ExactNodes ==
  ASSUME PathTyped, NEW n \in 1 .. File, Exact(n)
  PROVE  /\ There(n) /\ nodes[n] \in NodesOf(platform)
         /\ ~Weak(nodes[n], IF system THEN "user" ELSE "other")
<1>1. There(n) /\ nodes[n] \in NodesOf(platform)
  BY DEF Exact, There, PathTyped
<1>2. nodes[n].owner = StoreOwner /\ nodes[n].acl # "allow" /\ ~nodes[n].shared
  BY <1>1 DEF Exact, LinuxExact, MacosExact, WindowsExact, NodesOf, PathTyped
<1> QED
  BY <1>1, <1>2 DEF Weak, StoreOwner

LEMMA PassesNodes ==
  ASSUME PathTyped, NEW n \in 1 .. File, There(n), Passes(nodes[n])
  PROVE  ~Weak(nodes[n], IF system THEN "user" ELSE "other")
<1>1. nodes[n] \in NodesOf(platform)
  BY DEF There, PathTyped
<1>2. CASE system
  <2>1. SystemAncestor(nodes[n])
    BY <1>2 DEF Passes
  <2>2. /\ nodes[n].owner # "user" /\ nodes[n].acl # "allow"
        /\ nodes[n].shared => nodes[n].sticky
    BY <1>1, <2>1 DEF SystemAncestor, LinuxSystemAncestor, MacosSystemAncestor, AncestorAccess,
       WindowsSystemAncestor, TakenOver, NodesOf, PathTyped
  <2> QED
    BY <1>2, <2>2 DEF Weak
<1>3. CASE ~system
  <2>1. UserRoot(nodes[n]) \/ UserAncestor(nodes[n])
    BY <1>3 DEF Passes
  <2>2. /\ nodes[n].owner \in {"root", "user"} /\ nodes[n].acl # "allow"
        /\ nodes[n].shared => nodes[n].sticky
    <3>1. CASE UserRoot(nodes[n])
      BY <1>1, <3>1 DEF UserRoot, LinuxUserRoot, MacosUserRoot, WindowsUserRoot, NoAllowEntry,
         TakenOver, NodesOf, PathTyped
    <3>2. CASE UserAncestor(nodes[n])
      BY <1>1, <3>2 DEF UserAncestor, LinuxUserAncestor, MacosUserAncestor, WindowsUserAncestor,
         NoAllowEntry, OwnerTransition, TakenOver, NodesOf, PathTyped
    <3> QED
      BY <2>1, <3>1, <3>2
  <2> QED
    BY <1>3, <2>2 DEF Weak
<1> QED
  BY <1>2, <1>3

LEMMA WorkerAncestors ==
  ASSUME PathTyped, NEW n \in 1 .. Depth, There(n), WorkerAncestor(n), step = "locate"
  PROVE  /\ ~Weak(nodes[n], Stranger)
         /\ platform = "windows" /\ n = Depth => nodes[n].acl # "adds"
<1>1. nodes[n] \in NodesOf(platform)
  BY PlacesAre DEF There, PathTyped
<1>2. /\ nodes[n].owner \in {"root", "user"} /\ nodes[n].acl # "allow"
      /\ nodes[n].shared => nodes[n].sticky
      /\ system /\ platform # "windows" => nodes[n].owner # "user"
      /\ platform = "windows" /\ n = Depth => nodes[n].acl # "adds"
  BY <1>1 DEF WorkerAncestor, LinuxWorkerAncestor, MacosWorkerAncestor, WindowsWorkerAncestor,
     NoAllowEntry, TakenOver, NodesOf, PathTyped
<1> QED
  BY <1>2 DEF Weak, Stranger

LEMMA ClosedBelow ==
  ASSUME NEW k \in Nat \ {0}, Closed(k), k > 1
  PROVE  Strong(k - 1)
<1>1. k \in 1 .. k /\ k - 1 \in 1 .. k /\ 1 .. (k - 1) \subseteq 1 .. k
  OBVIOUS
<1> QED
  BY <1>1 DEF Closed, Strong, Lets

\* One place further, if the node there is not weak either.
LEMMA ClosedAbove ==
  ASSUME NEW k \in Nat \ {0}, Strong(k), There(k + 1), nodes[k + 1] \in NodesOf(platform),
         ~Weak(nodes[k + 1], Stranger)
  PROVE  Strong(k + 1)
<1>1. ~Lets(nodes[k], nodes[k + 1], Stranger)
  BY Keeps DEF Strong
<1>2. \A n \in 1 .. (k + 1) : n = k + 1 \/ n \in 1 .. k
  OBVIOUS
<1>3. (k + 1) - 1 = k
  OBVIOUS
<1> QED
  BY <1>1, <1>2, <1>3 DEF Strong, Closed

LEMMA LowestThere ==
  ASSUME PathTyped
  PROVE  /\ Lowest \in 1 .. TrustedRoot /\ There(Lowest)
<1> DEFINE S == {n \in 1 .. TrustedRoot : There(n)}
<1>1. PICK last \in 1 .. File : \A n \in 1 .. File : There(n) <=> n <= last
  BY DEF PathTyped, Reaching, There
<1>2. \E x \in S : \A y \in S : x >= y
  <2>1. CASE last <= TrustedRoot
    <3>1. last \in S
      BY <1>1, <2>1, PlacesAre
    <3>2. \A y \in S : last >= y
      BY <1>1, PlacesAre
    <3> QED
      BY <3>1, <3>2
  <2>2. CASE last > TrustedRoot
    <3>1. TrustedRoot \in S
      BY <1>1, <2>2, PlacesAre
    <3>2. \A y \in S : TrustedRoot >= y
      BY PlacesAre
    <3> QED
      BY <3>1, <3>2
  <2> QED
    BY <1>1, <2>1, <2>2, PlacesAre
<1>3. Lowest = Max(S)
  BY DEF Lowest
<1> HIDE DEF S
<1>4. Max(S) \in S
  BY <1>2 DEF Max
<1> QED
  BY <1>3, <1>4 DEF S

----------------------------------------------------------------------------
(* Strangers. *)

\* Somebody changes what is at place n and below, which they could replace, and still can.
LEMMA Changes ==
  ASSUME PathIInv, NEW n \in 2 .. File, UNCHANGED <<config, walk, step, bottom>>,
         nodes' \in [1 .. File -> {None} \cup NodesOf(platform)],
         \A m \in 1 .. (n - 1) : nodes'[m] = nodes[m],
         There(n) => Lets(nodes[n - 1], nodes[n], Stranger),
         n <= Store => nodes'[n] # None /\ Lets(nodes'[n - 1], nodes'[n], Stranger),
         Reaching(nodes', 1), Aside'
  PROVE  PathIInv'
<1>1. Stranger' = Stranger /\ platform' = platform /\ system' = system
      /\ step' = step /\ pos' = pos /\ then' = then /\ bottom' = bottom /\ override' = override
  BY DEF Stranger, config, walk
<1>2. PathTyped'
  BY <1>1 DEF PathIInv, PathTyped, TrustedRoot
<1>3. \A x, y : Lets(x, y, Stranger)' <=> Lets(x', y', Stranger)
  BY <1>1 DEF Lets
<1>4. ASSUME NEW k \in 1 .. File, Closed(k)  PROVE k < n /\ Closed(k)'
  <2>1. k < n
    BY <1>4, PlacesAre DEF Closed
  <2>2. ASSUME NEW m \in 1 .. k
        PROVE  There(m)' /\ (m > 1 => ~Lets(nodes[m - 1], nodes[m], Stranger)')
    <3>1. m \in 1 .. (n - 1) /\ (m > 1 => m - 1 \in 1 .. (n - 1))
      BY <2>1, <2>2, PlacesAre
    <3>2. There(m) /\ (m > 1 => ~Lets(nodes[m - 1], nodes[m], Stranger))
      BY <1>4, <2>2 DEF Closed
    <3> QED
      BY <1>1, <3>1, <3>2 DEF There, Lets
  <2> QED
    BY <2>1, <2>2 DEF Closed
<1>5. ASSUME NEW k \in 1 .. File, Strong(k)  PROVE Strong(k)'
  <2>1. k < n /\ Closed(k)' /\ k \in 1 .. (n - 1)
    BY <1>4, <1>5, PlacesAre DEF Strong
  <2> QED
    BY <1>1, <1>5, <2>1 DEF Strong, Weak
<1>6. ASSUME NEW k \in 1 .. Store, Strong(k)'  PROVE Strong(k)
  <2>1. k < n
    <3>1. SUFFICES ASSUME n <= k PROVE FALSE
      BY PlacesAre
    <3>2. n \in 1 .. k /\ n > 1 /\ n <= Store
      BY <3>1, PlacesAre
    <3>3. ~Lets(nodes[n - 1], nodes[n], Stranger)'
      BY <1>6, <3>2 DEF Strong, Closed
    <3> QED
      BY <1>1, <3>2, <3>3 DEF Lets
  <2>2. ASSUME NEW m \in 1 .. k
        PROVE  There(m) /\ (m > 1 => ~Lets(nodes[m - 1], nodes[m], Stranger))
    <3>1. m \in 1 .. (n - 1) /\ (m > 1 => m - 1 \in 1 .. (n - 1))
      BY <2>1, <2>2, PlacesAre
    <3>2. There(m)' /\ (m > 1 => ~Lets(nodes[m - 1], nodes[m], Stranger)')
      BY <1>6, <2>2 DEF Strong, Closed
    <3> QED
      BY <1>1, <3>1, <3>2 DEF There, Lets
  <2>3. k \in 1 .. (n - 1)
    BY <2>1, PlacesAre
  <2> QED
    BY <1>1, <1>6, <2>2, <2>3 DEF Strong, Closed, Weak
<1>7. /\ Depth \in 1 .. File /\ Store \in 1 .. File /\ File \in 1 .. File
  BY PlacesAre
<1>8. ASSUME NEW next, Secured(next)  PROVE Secured(next)'
  BY <1>1, <1>4, <1>5, <1>7, <1>8 DEF Secured
<1>9. Secured(step)'
  BY <1>1, <1>8 DEF PathIInv, Secured
<1>10. Walking'
  <2>1. step = "walk" /\ Strong(pos)' => Secured(then)
    BY <1>1, <1>6 DEF PathIInv, Walking
  <2>2. Secured(then) => Secured(then)'
    BY <1>1, <1>8 DEF Secured
  <2> QED
    BY <1>1, <2>1, <2>2 DEF PathIInv, Walking, Secured
<1>11. Locating'
  <2>1. ASSUME NEW k \in 1 .. File, k = pos - 1, step = "locate", pos > 1
        PROVE  Strong(k)'
    BY <1>5, <2>1 DEF PathIInv, Locating
  <2>3. step = "locate" /\ pos > 1 => pos - 1 \in 1 .. File
    BY PlacesAre DEF PathIInv, Locating
  <2>2. step = "located" => Strong(Depth)' /\ nodes'[Depth] = nodes[Depth]
    <3>1. step = "located" => Depth < n
      BY <1>4, <1>7 DEF PathIInv, Locating, Strong
    <3>2. step = "located" => Depth \in 1 .. (n - 1)
      BY <3>1, PlacesAre
    <3> QED
      BY <1>5, <1>7, <3>2 DEF PathIInv, Locating
  <2> QED
    BY <1>1, <2>1, <2>2, <2>3 DEF PathIInv, Locating
<1> QED
  BY <1>2, <1>9, <1>10, <1>11 DEF PathIInv

LEMMA TakeKeeps ==
  ASSUME PathIInv, NEW n \in 2 .. File, Take(n)
  PROVE  PathIInv'
<1>13. PICK a \in Against :
          /\ There(n - 1)
          /\ IF There(n) THEN Replaces(a, n) ELSE Adds(a, nodes[n - 1])
          /\ aside' = IF There(n) THEN [at |-> n, path |-> nodes, by |-> a] ELSE aside
          /\ \E mine \in Strangers(a), down \in Beneath(n) :
               nodes' = [m \in 1 .. File |-> IF m < n THEN nodes[m]
                                             ELSE IF m <= down THEN mine ELSE None]
  BY DEF Take
<1>1. PICK mine \in Strangers(a), down \in Beneath(n) :
         /\ There(n - 1)
         /\ IF There(n) THEN Replaces(a, n) ELSE Adds(a, nodes[n - 1])
         /\ aside' = IF There(n) THEN [at |-> n, path |-> nodes, by |-> a] ELSE aside
         /\ nodes' = [m \in 1 .. File |-> IF m < n THEN nodes[m]
                                          ELSE IF m <= down THEN mine ELSE None]
  BY <1>13
<1>2. UNCHANGED <<config, walk, step, bottom>>
  BY DEF Take
<1>3. a = Stranger /\ a \in {"user", "other"}
  BY <1>1, OneStranger
<1>4. mine \in NodesOf(platform) /\ mine # None /\ mine.owner = a
  BY <1>1, <1>3, StrangersNodes
<1>5. /\ nodes \in [1 .. File -> {None} \cup NodesOf(platform)] /\ down \in n .. File
      /\ n - 1 \in 1 .. File /\ n \in 1 .. File
  BY <1>1, PlacesAre DEF PathIInv, PathTyped, Beneath
<1>6. /\ nodes' \in [1 .. File -> {None} \cup NodesOf(platform)]
      /\ \A m \in 1 .. (n - 1) : nodes'[m] = nodes[m]
      /\ \A m \in n .. File : nodes'[m] = IF m <= down THEN mine ELSE None
      /\ nodes'[n] = mine
  BY <1>1, <1>4, <1>5, PlacesAre
<1>7. There(n) => Lets(nodes[n - 1], nodes[n], Stranger)
  BY <1>1, <1>3, ReplacesLets
<1>8. Lets(nodes[n - 1], mine, Stranger)
  <2>1. CASE There(n)
    BY <1>3, <1>4, <1>7, <2>1, OwnLets
  <2>2. CASE ~There(n)
    <3>1. nodes[n - 1] \in NodesOf(platform)
      BY <1>1, <1>5 DEF There
    <3> QED
      BY <1>1, <1>3, <1>4, <2>2, <3>1, AddedLets
  <2> QED
    BY <2>1, <2>2
<1>9. PICK last \in 1 .. File : \A m \in 1 .. File : nodes[m] # None <=> m <= last
  BY DEF PathIInv, PathTyped, Reaching
<1>10. Reaching(nodes', 1)
  <2>1. \A m \in 1 .. (n - 1) : nodes'[m] # None
    BY <1>1, <1>5, <1>6, <1>9, PlacesAre DEF There
  <2>2. \A m \in 1 .. File : nodes'[m] # None <=> m <= down
    BY <1>4, <1>5, <1>6, <2>1, PlacesAre
  <2>3. down \in 1 .. File
    BY <1>5, PlacesAre
  <2> QED
    BY <2>2, <2>3 DEF Reaching
<1>11. platform' = platform /\ nodes'[n - 1] = nodes[n - 1]
  BY <1>2, <1>6, PlacesAre DEF config
<1>12. Aside'
  <2>1. CASE There(n)
    <3>1. aside' = [at |-> n, path |-> nodes, by |-> a]
      BY <1>1, <2>1
    <3>2. Reaching(nodes, n)
      <4>1. last \in n .. File /\ \A m \in n .. File : m \in 1 .. File
        BY <1>5, <1>9, <2>1, PlacesAre DEF There
      <4> QED
        BY <1>9, <4>1 DEF Reaching
    <3>3. Lets(nodes'[n - 1], nodes[n], a)
      BY <1>3, <1>7, <1>11, <2>1
    <3> QED
      BY <1>4, <1>5, <1>6, <1>11, <3>1, <3>2, <3>3 DEF Aside, There, Lets
  <2>2. CASE ~There(n)
    <3>1. aside' = aside
      BY <1>1, <2>2
    <3>2. aside # None => aside.at < n /\ aside.at \in 2 .. (n - 1) /\ aside.at - 1 \in 1 .. (n - 1)
      BY <1>5, <1>9, <2>2, PlacesAre DEF PathIInv, Aside, There
    <3>3. aside # None => /\ nodes'[aside.at] = nodes[aside.at]
                          /\ nodes'[aside.at - 1] = nodes[aside.at - 1]
      BY <1>6, <3>2
    <3> QED
      BY <1>11, <3>1, <3>3 DEF PathIInv, Aside, There, Lets
  <2> QED
    BY <2>1, <2>2
<1> QED
  BY <1>2, <1>4, <1>6, <1>7, <1>8, <1>10, <1>11, <1>12, Changes

LEMMA PutBackKeeps ==
  ASSUME PathIInv, PutBack
  PROVE  PathIInv'
<1> DEFINE n == aside.at
<1>1. /\ aside # None /\ There(n) /\ aside.by \in Against /\ Replaces(aside.by, n)
      /\ nodes' = [m \in 1 .. File |-> IF m < n THEN nodes[m] ELSE aside.path[m]]
      /\ aside' = None /\ UNCHANGED <<config, walk, step, bottom>>
  BY DEF PutBack
<1>2. /\ n \in 2 .. File /\ aside.path \in [1 .. File -> {None} \cup NodesOf(platform)]
      /\ Reaching(aside.path, n)
      /\ n <= Store => Lets(nodes[n - 1], aside.path[n], aside.by)
  BY <1>1 DEF PathIInv, Aside
<1>3. nodes \in [1 .. File -> {None} \cup NodesOf(platform)] /\ aside.by = Stranger
  BY <1>1, OneStranger DEF PathIInv, PathTyped
<1> HIDE DEF n
<1>4. /\ nodes' \in [1 .. File -> {None} \cup NodesOf(platform)]
      /\ \A m \in 1 .. (n - 1) : nodes'[m] = nodes[m]
      /\ \A m \in n .. File : nodes'[m] = aside.path[m]
      /\ nodes'[n - 1] = nodes[n - 1] /\ nodes'[n] = aside.path[n]
  BY <1>1, <1>2, <1>3, PlacesAre
<1>5. PICK last \in 1 .. File : \A m \in 1 .. File : nodes[m] # None <=> m <= last
  BY DEF PathIInv, PathTyped, Reaching
<1>6. PICK end \in n .. File : \A m \in n .. File : aside.path[m] # None <=> m <= end
  BY <1>2 DEF Reaching
<1>7. Reaching(nodes', 1) /\ nodes'[n] # None
  <2>1. \A m \in 1 .. (n - 1) : nodes'[m] # None
    BY <1>1, <1>2, <1>4, <1>5, PlacesAre DEF There
  <2>2. \A m \in 1 .. File : nodes'[m] # None <=> m <= end
    BY <1>2, <1>4, <1>6, <2>1, PlacesAre
  <2>3. end \in 1 .. File /\ n \in 1 .. File /\ n <= end
    BY <1>2, <1>6, PlacesAre
  <2> QED
    BY <2>2, <2>3 DEF Reaching
<1>8. Aside'
  BY <1>1 DEF Aside
<1>9. Lets(nodes[n - 1], nodes[n], Stranger)
  BY <1>1, <1>2, <1>3, ReplacesLets
<1> QED
  BY <1>1, <1>2, <1>3, <1>4, <1>7, <1>8, <1>9, Changes

----------------------------------------------------------------------------
(* The session. *)

\* A step that changes nothing on the path keeps what is known of the path.
LEMMA SamePath ==
  ASSUME PathIInv, Only, step' \in PathSteps,
         step' = "make" \/ (step' = "walk" /\ then' = "make") => bottom' \in 1 .. TrustedRoot
  PROVE  PathTyped' /\ Aside'
BY DEF Only, config, ground, PathIInv, PathTyped, Aside, There, TrustedRoot, Lets

\* Where a session rests, and the account it is kept from.
LEMMA PlaceKept ==
  ASSUME step \notin {"locate", "located"}
  PROVE  Stranger = IF system THEN "user" ELSE "other"
BY DEF Stranger

LEMMA TurnsBack ==
  ASSUME PathIInv, Only, TurnBack
  PROVE  PathIInv'
<1>1. step' = "idle"
  BY DEF TurnBack, EndWalk
<1>2. PathTyped' /\ Aside'
  BY <1>1, SamePath DEF PathSteps
<1> QED
  BY <1>1, <1>2 DEF PathIInv, Secured, Walking, Locating

\* Neither the store nor its file is replaced if they are as styrn makes them and what is
\* above the store is sound.
Exactly ==
  /\ PathTyped /\ Exact(Store) /\ Exact(File) /\ step \notin {"locate", "located"}
  /\ Strong(Depth) \/ Strong(Store)

LEMMA ExactClosed == Exactly => Closed(File)
<1> SUFFICES ASSUME PathTyped, Exact(Store), Exact(File), NEW k \in {Depth, Store},
                    step \notin {"locate", "located"}, Strong(k)
             PROVE  Closed(File)
  BY DEF Exactly
<1>1. Stranger = IF system THEN "user" ELSE "other"
  BY PlaceKept
<1>2. Store \in 1 .. File /\ File \in 1 .. File
  BY PlacesAre
<1>3. /\ There(Store) /\ nodes[Store] \in NodesOf(platform) /\ ~Weak(nodes[Store], Stranger)
      /\ There(File) /\ nodes[File] \in NodesOf(platform) /\ ~Weak(nodes[File], Stranger)
  BY <1>1, <1>2, ExactNodes
<1>4. Strong(Store)
  BY <1>3, PlacesAre, ClosedAbove
<1>5. Store \in Nat \ {0} /\ File = Store + 1
  BY PlacesAre
<1>6. Strong(File)
  BY <1>3, <1>4, <1>5, ClosedAbove
<1> QED
  BY <1>6 DEF Strong

\* A walk that begins where nothing is at stake yet.
LEMMA WalksFreely ==
  ASSUME PathIInv, Only, step' = "walk", then' \in {"open", "make"}, pos' \in 1 .. Store,
         then' = "make" => bottom' \in 1 .. TrustedRoot
  PROVE  PathIInv'
<1>1. PathTyped' /\ Aside'
  BY SamePath DEF PathSteps
<1> QED
  BY <1>1 DEF PathIInv, Secured, Walking, Locating

\* The same directory, seen from another step.
LEMMA SeenFrom ==
  ASSUME UNCHANGED <<config, nodes>>, Stranger' = Stranger
  PROVE  /\ \A k : (Closed(k)' <=> Closed(k)) /\ (Strong(k)' <=> Strong(k))
         /\ \A next : Secured(next)' <=> Secured(next)
BY DEF config, Closed, Strong, Secured, There, Lets, Weak

LEMMA VerifiesFile ==
  ASSUME PathIInv, Only, Exact(File), Exact(Store), NEW next \in {"read", "recheck", "verified"},
         step' = "walk", then' = next, pos' = IF system THEN Depth ELSE TrustedRoot
  PROVE  PathIInv'
<1>1. PathTyped' /\ Aside'
  BY SamePath DEF PathSteps
<1>2. Exact(File)' /\ Exact(Store)'
  BY DEF Only, config, ground, Exact, There, LinuxExact, MacosExact, WindowsExact, StoreOwner
<1>3. pos' \in {Depth, Store} /\ pos' \in 1 .. Store
  BY PlacesAre
<1>4. ASSUME Strong(pos)'  PROVE Closed(File)'
  <2>1. Strong(Depth)' \/ Strong(Store)'
    BY <1>3, <1>4 DEF Strong, Closed
  <2>2. Exactly'
    BY <1>1, <1>2, <2>1 DEF Exactly
  <2>3. (Exactly => Closed(File))'
    BY ExactClosed, PTL
  <2> QED
    BY <2>2, <2>3
<1> QED
  BY <1>1, <1>3, <1>4 DEF PathIInv, Secured, Walking, Locating

LEMMA LookUpKeeps ==
  ASSUME PathIInv, LookUp
  PROVE  PathIInv'
<1>1. step = "walk" /\ Only
  BY DEF LookUp
<1>2. /\ then \in {"open", "make", "harden", "publish", "prepared", "read", "recheck", "verified"}
      /\ then = "publish" => system
      /\ pos \in 1 .. Store
      /\ Strong(pos) => Secured(then)
  BY <1>1 DEF PathIInv, Walking
<1>3. CASE ~There(pos) \/ ~Passes(nodes[pos])
  <2>1. TurnBack
    BY <1>3 DEF LookUp
  <2> QED
    BY <1>1, <2>1, TurnsBack
<1>4. CASE There(pos) /\ Passes(nodes[pos])
  <2>1. Stranger = IF system THEN "user" ELSE "other"
    BY <1>1, PlaceKept
  <2>2. ~Weak(nodes[pos], Stranger) /\ nodes[pos] \in NodesOf(platform)
    BY <1>2, <1>4, <2>1, PassesNodes, PlacesAre DEF PathIInv, PathTyped, There
  <2>3. UNCHANGED <<config, nodes>> /\ system' = system
    BY <1>1 DEF Only, config, ground
  <2>4. CASE pos = 1
    <3>1. step' = then /\ bottom' = bottom
      BY <1>2, <1>4, <2>4 DEF LookUp, EndWalk
    <3>2. Strong(pos)
      BY <1>4, <2>2, <2>4 DEF Strong, Closed
    <3>3. Secured(then)
      BY <1>2, <3>2
    <3>4. Stranger' = Stranger
      BY <1>1, <1>2, <3>1, <2>3 DEF Stranger, config
    <3>5. Secured(step)'
      BY <2>3, <3>1, <3>3, <3>4, SeenFrom DEF Secured
    <3>6. PathTyped' /\ Aside'
      BY <1>1, <1>2, <3>1, SamePath DEF PathSteps, PathIInv, PathTyped
    <3> QED
      BY <1>2, <3>1, <3>5, <3>6 DEF PathIInv, Walking, Locating
  <2>5. CASE pos # 1
    <3>1. step' = "walk" /\ then' = then /\ pos' = pos - 1 /\ bottom' = bottom
      BY <1>1, <1>4, <2>5 DEF LookUp
    <3>2. PICK k : k = pos - 1
      OBVIOUS
    <3>3. k \in Nat \ {0} /\ k + 1 = pos /\ k \in 1 .. Store
      BY <1>2, <2>5, <3>2, PlacesAre
    <3>4. Strong(k) => Strong(k + 1)
      BY <1>4, <2>2, <3>3, ClosedAbove
    <3>5. Strong(k + 1) => Strong(pos)
      BY <3>3
    <3>6. Strong(k) => Secured(then)
      BY <1>2, <3>4, <3>5
    <3>7. Stranger' = Stranger
      BY <1>1, <2>3, <3>1 DEF Stranger, config
    <3>8. (Strong(k)' => Strong(k)) /\ (Secured(then) => Secured(then)')
      BY <2>3, <3>1, <3>7, SeenFrom DEF Secured
    <3>9. Strong(pos)' => Strong(k)'
      BY <3>1, <3>2 DEF Strong, Closed
    <3>10. PathTyped' /\ Aside'
      BY <1>1, <3>1, SamePath DEF PathSteps, PathIInv, PathTyped
    <3>11. Walking'
      BY <1>2, <2>3, <3>1, <3>2, <3>3, <3>6, <3>8, <3>9 DEF Walking
    <3> QED
      BY <3>1, <3>10, <3>11 DEF PathIInv, Secured, Locating
  <2> QED
    BY <2>4, <2>5
<1> QED
  BY <1>3, <1>4

LEMMA BeginReadKeeps ==
  ASSUME PathIInv, BeginRead
  PROVE  PathIInv'
<1>1. Only /\ VerifyAncestors("open")
  BY DEF BeginRead
<1>2. CASE There(Store)
  <2>1. step' = "walk" /\ then' = "open" /\ pos' \in 1 .. Store
    BY <1>1, <1>2, PlacesAre DEF VerifyAncestors, Walk
  <2> QED
    BY <1>1, <2>1, WalksFreely
<1>3. CASE ~There(Store)
  BY <1>1, <1>3, TurnsBack DEF VerifyAncestors
<1> QED
  BY <1>2, <1>3

LEMMA FileWalk ==
  ASSUME PathIInv, Only, NEW next \in {"read", "recheck", "verified"},
         IF Exact(File) /\ Exact(Store) THEN VerifyAncestors(next) ELSE TurnBack
  PROVE  PathIInv'
<1>1. CASE Exact(File) /\ Exact(Store)
  <2>1. There(Store)
    BY <1>1 DEF Exact
  <2>2. step' = "walk" /\ then' = next /\ pos' = IF system THEN Depth ELSE TrustedRoot
    BY <1>1, <2>1 DEF VerifyAncestors, Walk
  <2> QED
    BY <1>1, <2>2, VerifiesFile
<1>2. CASE ~(Exact(File) /\ Exact(Store))
  BY <1>2, TurnsBack
<1> QED
  BY <1>1, <1>2

LEMMA OpenForReadKeeps ==
  ASSUME PathIInv, OpenForRead
  PROVE  PathIInv'
<1>1. PICK next \in {"read", "recheck"} : next = IF platform = "windows" THEN "recheck" ELSE "read"
  OBVIOUS
<1> QED
  BY <1>1, FileWalk DEF OpenForRead

LEMMA BeginVerifyKeeps ==
  ASSUME PathIInv, BeginVerify
  PROVE  PathIInv'
BY FileWalk DEF BeginVerify

LEMMA RecheckKeeps ==
  ASSUME PathIInv, Recheck
  PROVE  PathIInv'
<1>1. Only /\ step = "recheck"
  BY DEF Recheck
<1>2. CASE Exact(Store)
  <2>1. step' = "read"
    BY <1>2 DEF Recheck, GoOn
  <2>2. UNCHANGED <<config, nodes>> /\ Stranger' = Stranger /\ system' = system
    BY <1>1, <2>1 DEF Only, config, ground, Stranger
  <2>3. Secured(step)'
    BY <1>1, <2>1, <2>2, SeenFrom DEF PathIInv, Secured
  <2>4. PathTyped' /\ Aside'
    BY <1>1, <2>1, SamePath DEF PathSteps
  <2> QED
    BY <2>1, <2>3, <2>4 DEF PathIInv, Walking, Locating
<1>3. CASE ~Exact(Store)
  BY <1>1, <1>3, TurnsBack DEF Recheck
<1> QED
  BY <1>2, <1>3

\* A step that nothing is known of.
LEMMA KnowsNothing ==
  ASSUME PathTyped', Aside', step' \in {"look", "make", "idle", "publish"},
         step' = "publish" => ~system'
  PROVE  PathIInv'
BY DEF PathIInv, Secured, Walking, Locating

LEMMA BeginPrepareKeeps ==
  ASSUME PathIInv, BeginPrepare
  PROVE  PathIInv'
<1>1. Only
  BY DEF BeginPrepare
<1>2. CASE system
  <2>1. step' = "look"
    BY <1>2 DEF BeginPrepare, GoOn
  <2>2. PathTyped' /\ Aside'
    BY <1>1, <2>1, SamePath DEF PathSteps
  <2> QED
    BY <2>1, <2>2, KnowsNothing
<1>3. CASE ~system
  <2>1. step' = "walk" /\ pos' = Lowest /\ then' = "make" /\ bottom' = Lowest
    BY <1>3 DEF BeginPrepare, Walk
  <2>2. Lowest \in 1 .. TrustedRoot /\ Lowest \in 1 .. Store
    BY LowestThere, PlacesAre DEF PathIInv
  <2> QED
    BY <1>1, <2>1, <2>2, WalksFreely
<1> QED
  BY <1>2, <1>3

\* styrn makes a node where there was none, or takes over what is there.
LEMMA MadeNodes ==
  ASSUME PathIInv, NEW n \in 2 .. File, There(n - 1), NEW node \in NodesOf(platform), node # None,
         nodes' = [nodes EXCEPT ![n] = node], UNCHANGED <<config, aside, moves>>,
         n # File => ~There(n) \/ n = Store,
         step' \in PathSteps,
         step' = "make" \/ (step' = "walk" /\ then' = "make") => bottom' \in 1 .. TrustedRoot
  PROVE  /\ PathTyped' /\ Aside'
         /\ nodes'[n] = node /\ \A m \in 1 .. File : m # n => nodes'[m] = nodes[m]
         /\ platform' = platform /\ system' = system
<1>1. /\ nodes \in [1 .. File -> {None} \cup NodesOf(platform)] /\ n \in 1 .. File
      /\ n - 1 \in 1 .. File
  BY PlacesAre DEF PathIInv, PathTyped
<1>2. /\ nodes' \in [1 .. File -> {None} \cup NodesOf(platform)] /\ nodes'[n] = node
      /\ \A m \in 1 .. File : m # n => nodes'[m] = nodes[m]
  BY <1>1
<1>3. platform' = platform /\ system' = system /\ override' = override
  BY DEF config
<1>4. PICK last \in 1 .. File : \A m \in 1 .. File : nodes[m] # None <=> m <= last
  BY DEF PathIInv, PathTyped, Reaching
<1>5. Reaching(nodes', 1)
  <2>1. CASE There(n)
    <3>1. \A m \in 1 .. File : nodes'[m] # None <=> m <= last
      BY <1>1, <1>2, <1>4, <2>1 DEF There
    <3> QED
      BY <1>4, <3>1 DEF Reaching
  <2>2. CASE ~There(n)
    <3>1. last = n - 1
      BY <1>1, <1>4, <2>2, PlacesAre DEF There
    <3>2. \A m \in 1 .. File : nodes'[m] # None <=> m <= n
      BY <1>1, <1>2, <1>4, <3>1, PlacesAre
    <3> QED
      BY <1>1, <3>2 DEF Reaching
  <2> QED
    BY <2>1, <2>2
<1>6. PathTyped'
  BY <1>2, <1>3, <1>5 DEF PathIInv, PathTyped, TrustedRoot
<1>7. Aside'
  <2>1. aside' = aside
    OBVIOUS
  <2>2. aside # None => /\ aside.at \in 1 .. File /\ nodes'[aside.at] # None
    BY <1>2, PlacesAre DEF PathIInv, Aside, There
  <2>3. ASSUME aside # None, aside.at <= Store  PROVE nodes'[aside.at - 1] = nodes[aside.at - 1]
    <3>1. aside.at \in 2 .. Store /\ There(aside.at) /\ aside.at - 1 \in 1 .. File
      BY <2>3, PlacesAre DEF PathIInv, Aside
    <3>2. aside.at - 1 # n
      BY <1>1, <1>4, <3>1, PlacesAre DEF There
    <3> QED
      BY <1>2, <3>1, <3>2
  <2> QED
    BY <1>3, <2>1, <2>2, <2>3 DEF PathIInv, Aside, There, Lets
<1> QED
  BY <1>2, <1>3, <1>6, <1>7

LEMMA MakeRootKeeps ==
  ASSUME PathIInv, MakeRoot
  PROVE  PathIInv'
<1>1. step = "make" /\ UNCHANGED <<config, aside, moves>> /\ bottom \in 1 .. TrustedRoot
  BY DEF MakeRoot, PreparationOnly, PathIInv, PathTyped
<1>2. CASE nodes' = nodes /\ step' = "look"
  <2>1. Only
    BY <1>1, <1>2 DEF Only, ground
  <2>2. PathTyped' /\ Aside'
    BY <1>2, <2>1, SamePath DEF PathSteps
  <2> QED
    BY <1>2, <2>2, KnowsNothing
<1>3. CASE /\ bottom < TrustedRoot /\ There(bottom) /\ ~There(bottom + 1)
           /\ nodes' = Made(bottom + 1) /\ bottom' = bottom + 1 /\ UNCHANGED <<step, walk>>
  <2>1. PICK n : n = bottom + 1
    OBVIOUS
  <2>2. n \in 2 .. File /\ n \in 1 .. TrustedRoot /\ n - 1 = bottom /\ n # File
    BY <1>1, <1>3, <2>1, PlacesAre
  <2>3. Plain(StoreOwner) \in NodesOf(platform) /\ Plain(StoreOwner) # None
    BY PlainNodes DEF StoreOwner
  <2>4. nodes' = [nodes EXCEPT ![n] = Plain(StoreOwner)]
    BY <1>3, <2>1 DEF Made
  <2>5. step' = "make" /\ bottom' \in 1 .. TrustedRoot
    BY <1>1, <1>3, <2>1, <2>2
  <2>6. There(n - 1) /\ ~There(n)
    BY <1>3, <2>1, <2>2
  <2>7. PathTyped' /\ Aside'
    BY <1>1, <2>2, <2>3, <2>4, <2>5, <2>6, MadeNodes DEF PathSteps
  <2> QED
    BY <2>5, <2>7, KnowsNothing
<1>4. CASE /\ bottom < TrustedRoot
           /\ bottom' = bottom + 1 /\ Walk(bottom + 1, None, "make") /\ UNCHANGED nodes
  <2>1. Only
    BY <1>1, <1>4 DEF Only, ground
  <2>2. step' = "walk" /\ then' = "make" /\ pos' = bottom + 1
    BY <1>4 DEF Walk
  <2>3. bottom + 1 \in 1 .. TrustedRoot /\ bottom + 1 \in 1 .. Store
    BY <1>1, <1>4, PlacesAre
  <2> QED
    BY <1>4, <2>1, <2>2, <2>3, WalksFreely
<1>5. CASE TurnBack /\ UNCHANGED nodes
  <2>1. Only
    BY <1>1, <1>5 DEF Only, ground
  <2> QED
    BY <1>5, <2>1, TurnsBack
<1> QED
  BY <1>2, <1>3, <1>4, <1>5 DEF MakeRoot, GoOn

LEMMA ParentToo == Strong(Store) => Strong(Depth)
BY ClosedBelow, PlacesAre DEF Strong

\* A walk to the parent of the store, or to the store, for a step that goes by the parent.
LEMMA WalksToParent ==
  ASSUME PathIInv, Only, step' = "walk", then' \in {"harden", "publish"}, pos' \in {Depth, Store},
         then' = "publish" => system
  PROVE  PathIInv'
<1>1. PathTyped' /\ Aside'
  BY SamePath DEF PathSteps
<1>2. pos' \in 1 .. Store /\ system' = system
  BY PlacesAre DEF Only, config
<1>3. ASSUME Strong(pos)'  PROVE Strong(Depth)'
  <2>1. Strong(Depth)' \/ Strong(Store)'
    BY <1>3 DEF Strong, Closed
  <2>2. (Strong(Store) => Strong(Depth))'
    BY ParentToo, PTL
  <2> QED
    BY <2>1, <2>2
<1> QED
  BY <1>1, <1>2, <1>3 DEF PathIInv, Secured, Walking, Locating

LEMMA LookForStoreKeeps ==
  ASSUME PathIInv, LookForStore
  PROVE  PathIInv'
<1>1. Only
  BY DEF LookForStore
<1>2. CASE system
  <2>1. step' = "walk" /\ then' \in {"harden", "publish"} /\ pos' = Depth
    BY <1>2 DEF LookForStore, Walk
  <2> QED
    BY <1>1, <1>2, <2>1, WalksToParent
<1>3. CASE ~system /\ There(Store)
  <2>1. step' = "walk" /\ then' = "harden" /\ pos' = TrustedRoot
    BY <1>3 DEF LookForStore, VerifyAncestors, Walk
  <2> QED
    BY <1>1, <2>1, WalksToParent, PlacesAre
<1>4. CASE ~system /\ ~There(Store)
  <2>1. step' = "publish" /\ system' = system
    BY <1>1, <1>4 DEF LookForStore, GoOn, Only, config
  <2>2. PathTyped' /\ Aside'
    BY <1>1, <2>1, SamePath DEF PathSteps
  <2> QED
    BY <1>4, <2>1, <2>2, KnowsNothing
<1> QED
  BY <1>2, <1>3, <1>4

\* What styrn puts into a sound directory is sound.
LEMMA StoreMade ==
  ASSUME PathIInv, Strong(Depth), There(Depth), NEW node \in NodesOf(platform), node # None,
         node.owner = StoreOwner, node.acl = "none", ~node.shared,
         nodes' = [nodes EXCEPT ![Store] = node], UNCHANGED <<config, aside, moves>>,
         step \notin {"locate", "located"}, step' \notin {"locate", "located"}
  PROVE  Closed(Store)'
<1>1. Store \in 2 .. File /\ Depth \in 1 .. File /\ Store - 1 = Depth /\ Store \in Nat
  BY PlacesAre
<1>2. nodes \in [1 .. File -> {None} \cup NodesOf(platform)]
  BY DEF PathIInv, PathTyped
<1>3. nodes'[Store] = node /\ \A m \in 1 .. Depth : nodes'[m] = nodes[m]
  BY <1>2, PlacesAre
<1>4. Stranger' = Stranger /\ Stranger # StoreOwner /\ platform' = platform
  BY DEF Stranger, StoreOwner, config
<1>5. ~Weak(node, Stranger)
  BY <1>4 DEF Weak
<1>6. ~Lets(nodes[Depth], node, Stranger)
  BY <1>5, Keeps DEF Strong
<1>7. ASSUME NEW m \in 1 .. Store
      PROVE  There(m)' /\ (m > 1 => ~Lets(nodes[m - 1], nodes[m], Stranger)')
  <2>1. CASE m = Store
    BY <1>1, <1>3, <1>4, <1>6, <2>1, PlacesAre DEF There, Lets
  <2>2. CASE m # Store
    <3>1. m \in 1 .. Depth /\ (m > 1 => m - 1 \in 1 .. Depth)
      BY <2>2, PlacesAre
    <3>2. There(m) /\ (m > 1 => ~Lets(nodes[m - 1], nodes[m], Stranger))
      BY <3>1 DEF Strong, Closed
    <3> QED
      BY <1>3, <1>4, <3>1, <3>2 DEF There, Lets
  <2> QED
    BY <2>1, <2>2
<1> QED
  BY <1>7 DEF Closed

LEMMA PublishStoreKeeps ==
  ASSUME PathIInv, PublishStore
  PROVE  PathIInv'
<1>1. step = "publish" /\ UNCHANGED <<config, aside, moves>> /\ system' = system
  BY DEF PublishStore, PreparationOnly, config
<1>2. CASE ~There(Depth) \/ There(Store)
  <2>1. TurnBack /\ Only
    BY <1>1, <1>2 DEF PublishStore, Only, ground
  <2> QED
    BY <2>1, TurnsBack
<1>3. CASE There(Depth) /\ ~There(Store)
  <2>1. nodes' = [nodes EXCEPT ![Store] = Plain(StoreOwner)]
    BY <1>3 DEF PublishStore, Made
  <2>2. /\ Plain(StoreOwner) \in NodesOf(platform) /\ Plain(StoreOwner) # None
        /\ Plain(StoreOwner).owner = StoreOwner /\ Plain(StoreOwner).acl = "none"
        /\ ~Plain(StoreOwner).shared
    <3>1. Plain(StoreOwner) \in NodesOf(platform) /\ Plain(StoreOwner) # None
      BY PlainNodes DEF StoreOwner
    <3> QED
      BY <3>1 DEF Plain, Node
  <2>3. step' = IF system THEN "prepared" ELSE "walk"
    BY <1>3 DEF PublishStore, GoOn, Walk
  <2>4. ~system => then' = "prepared" /\ pos' = TrustedRoot
    BY <1>3 DEF PublishStore, Walk
  <2>5. /\ PathTyped' /\ Aside'
        /\ nodes'[Store] = Plain(StoreOwner) /\ \A m \in 1 .. File : m # Store => nodes'[m] = nodes[m]
        /\ platform' = platform
    <3>1. Store \in 2 .. File /\ Store - 1 = Depth
      BY PlacesAre
    <3> QED
      BY <1>1, <1>3, <2>1, <2>2, <2>3, <2>4, <3>1, MadeNodes DEF PathSteps
  <2>6. Strong(Depth) => Closed(Store)'
    BY <1>1, <1>3, <2>1, <2>2, <2>3, StoreMade
  <2>7. CASE system
    <3>1. Closed(Store)'
      BY <1>1, <2>6, <2>7 DEF PathIInv, Secured
    <3> QED
      BY <2>3, <2>5, <2>7, <3>1 DEF PathIInv, Secured, Walking, Locating
  <2>8. CASE ~system
    <3>1. Strong(Depth)' => Strong(Depth)
      <4>1. \A m \in 1 .. Depth : nodes'[m] = nodes[m]
        BY <2>5, PlacesAre
      <4>2. Stranger' = Stranger
        BY <1>1, <2>3, <2>8 DEF Stranger
      <4>3. ASSUME Strong(Depth)', NEW m \in 1 .. Depth
            PROVE  There(m) /\ (m > 1 => ~Lets(nodes[m - 1], nodes[m], Stranger))
        <5>1. There(m)' /\ (m > 1 => ~Lets(nodes[m - 1], nodes[m], Stranger)')
          BY <4>3 DEF Strong, Closed
        <5>2. m > 1 => m - 1 \in 1 .. Depth
          BY PlacesAre
        <5> QED
          BY <2>5, <4>1, <4>2, <5>1, <5>2 DEF There, Lets
      <4>4. Depth \in 1 .. Depth
        BY PlacesAre
      <4> QED
        BY <4>1, <4>2, <4>3, <4>4 DEF Strong, Closed, Weak
    <3>2. ASSUME Strong(pos)'  PROVE Closed(Store)'
      <4>1. Strong(Depth)' \/ Strong(Store)'
        BY <2>4, <2>8, <3>2, PlacesAre DEF Strong, Closed
      <4>2. Strong(Store)' => Closed(Store)'
        BY DEF Strong
      <4> QED
        BY <2>6, <3>1, <4>1, <4>2
    <3>3. pos' \in 1 .. Store
      BY <2>4, <2>8, PlacesAre
    <3> QED
      BY <2>3, <2>4, <2>5, <2>8, <3>2, <3>3 DEF PathIInv, Secured, Walking, Locating
  <2> QED
    BY <2>7, <2>8
<1> QED
  BY <1>2, <1>3

LEMMA HardenStoreKeeps ==
  ASSUME PathIInv, HardenStore
  PROVE  PathIInv'
<1>1. step = "harden" /\ UNCHANGED <<config, aside, moves>> /\ Strong(Depth)
      /\ platform' = platform /\ system' = system
  BY DEF HardenStore, PreparationOnly, config, PathIInv, Secured
<1>2. There(Depth)
  BY <1>1, PlacesAre DEF Strong, Closed
<1>3. CASE Exact(Store) /\ GoOn("prepared") /\ UNCHANGED nodes
  <2>1. Only /\ step' = "prepared"
    BY <1>1, <1>3 DEF Only, ground, GoOn
  <2>2. PathTyped' /\ Aside'
    BY <2>1, SamePath DEF PathSteps
  <2>3. Stranger' = Stranger /\ Stranger = IF system THEN "user" ELSE "other"
    BY <1>1, <2>1 DEF Stranger
  <2>4. Store \in 1 .. File /\ Store = Depth + 1 /\ Depth \in Nat \ {0}
    BY PlacesAre
  <2>5. There(Store) /\ nodes[Store] \in NodesOf(platform) /\ ~Weak(nodes[Store], Stranger)
    BY <1>3, <2>3, <2>4, ExactNodes DEF PathIInv
  <2>6. Closed(Store)
    BY <1>1, <2>4, <2>5, ClosedAbove DEF Strong
  <2>7. Closed(Store)'
    BY <1>3, <1>1, <2>3, <2>6, SeenFrom
  <2> QED
    BY <2>1, <2>2, <2>7 DEF PathIInv, Secured, Walking, Locating
<1>4. CASE /\ There(Store)
           /\ nodes' = [Made(Store) EXCEPT ![Store].sticky = nodes[Store].sticky]
           /\ GoOn("prepared")
  <2>1. step' = "prepared"
    BY <1>4 DEF GoOn
  <2>2. nodes \in [1 .. File -> {None} \cup NodesOf(platform)] /\ Store \in 2 .. File
        /\ Store - 1 = Depth
    BY PlacesAre DEF PathIInv, PathTyped
  <2>3. PICK node : node = Node(StoreOwner, FALSE, nodes[Store].sticky, "none", TRUE)
    OBVIOUS
  <2>4. nodes' = [nodes EXCEPT ![Store] = node]
    <3>1. PICK plain : plain = Plain(StoreOwner)
      OBVIOUS
    <3>2. nodes' = [[nodes EXCEPT ![Store] = plain] EXCEPT ![Store].sticky = nodes[Store].sticky]
      BY <1>4, <3>1 DEF Made
    <3>3. nodes' = [nodes EXCEPT ![Store] = [plain EXCEPT !.sticky = nodes[Store].sticky]]
      BY <2>2, <3>2
    <3>4. [plain EXCEPT !.sticky = nodes[Store].sticky] = node
      <4>1. PICK x : x = nodes[Store].sticky
        OBVIOUS
      <4>2. plain = [owner |-> StoreOwner, shared |-> FALSE, sticky |-> FALSE, acl |-> "none",
                     fit |-> TRUE]
        BY <3>1 DEF Plain, Node
      <4>3. node = [owner |-> StoreOwner, shared |-> FALSE, sticky |-> x, acl |-> "none",
                    fit |-> TRUE]
        BY <2>3, <4>1 DEF Node
      <4>4. [plain EXCEPT !.sticky = x] = node
        <5>1. PICK d : d = [plain EXCEPT !.sticky = x]
          OBVIOUS
        <5>2. d = [owner |-> StoreOwner, shared |-> FALSE, sticky |-> x, acl |-> "none",
                   fit |-> TRUE]
          BY <4>2, <5>1, Zenon
        <5> QED
          BY <4>3, <5>1, <5>2
      <4> QED
        BY <4>1, <4>4
    <3> QED
      BY <3>3, <3>4
  <2>5. node \in NodesOf(platform) /\ node # None
    <3>1. nodes[Store].sticky \in BOOLEAN
      BY <1>4, <2>2 DEF There, NodesOf, AnyNode
    <3>2. node \in NodesOf(platform)
      BY <2>3, <3>1 DEF Node, NodesOf, AnyNode, StoreOwner
    <3> QED
      BY <3>2, NodeThere DEF NodesOf
  <2>6. node.owner = StoreOwner /\ node.acl = "none" /\ ~node.shared
    BY <2>3 DEF Node
  <2>7. PathTyped' /\ Aside'
    BY <1>1, <1>2, <2>1, <2>2, <2>4, <2>5, MadeNodes DEF PathSteps
  <2>8. Closed(Store)'
    BY <1>1, <1>2, <2>1, <2>4, <2>5, <2>6, StoreMade
  <2> QED
    BY <2>1, <2>7, <2>8 DEF PathIInv, Secured, Walking, Locating
<1>5. CASE TurnBack /\ UNCHANGED nodes
  <2>1. Only
    BY <1>1, <1>5 DEF Only, ground
  <2> QED
    BY <1>5, <2>1, TurnsBack
<1> QED
  BY <1>3, <1>4, <1>5 DEF HardenStore

LEMMA WriteFileKeeps ==
  ASSUME PathIInv, WriteFile
  PROVE  PathIInv'
<1>1. /\ step = "prepared" /\ step' = "idle" /\ UNCHANGED <<config, aside, moves>>
      /\ nodes' = [nodes EXCEPT ![File] = Plain(StoreOwner)]
  BY DEF WriteFile, PreparationOnly, Made
<1>2. File \in 2 .. File /\ File - 1 = Store /\ Store \in 1 .. Store
  BY PlacesAre
<1>3. There(Store)
  BY <1>1, <1>2 DEF PathIInv, Secured, Closed
<1>4. Plain(StoreOwner) \in NodesOf(platform) /\ Plain(StoreOwner) # None
  BY PlainNodes DEF StoreOwner
<1>5. PathTyped' /\ Aside'
  BY <1>1, <1>2, <1>3, <1>4, MadeNodes DEF PathSteps
<1> QED
  BY <1>1, <1>5, KnowsNothing

LEMMA BeginLocateKeeps ==
  ASSUME PathIInv, BeginLocate
  PROVE  PathIInv'
<1>1. Only /\ step' = "locate" /\ pos' = 1 /\ then' = "located"
  BY DEF BeginLocate
<1>2. PathTyped' /\ Aside'
  BY <1>1, SamePath DEF PathSteps
<1> QED
  BY <1>1, <1>2, PlacesAre DEF PathIInv, Secured, Walking, Locating

LEMMA LocateKeeps ==
  ASSUME PathIInv, Locate
  PROVE  PathIInv'
<1>1. Only /\ step = "locate" /\ pos \in 1 .. Depth /\ then = "located"
      /\ (pos > 1 => Strong(pos - 1))
  BY DEF Locate, PathIInv, Locating
<1>2. CASE ~There(pos) \/ ~WorkerAncestor(pos)
  BY <1>1, <1>2, TurnsBack DEF Locate
<1>3. CASE There(pos) /\ WorkerAncestor(pos)
  <2>1. /\ ~Weak(nodes[pos], Stranger) /\ nodes[pos] \in NodesOf(platform)
        /\ platform = "windows" /\ pos = Depth => nodes[pos].acl # "adds"
    BY <1>1, <1>3, WorkerAncestors, PlacesAre DEF PathIInv, PathTyped, There
  <2>2. PICK k : k = pos - 1
    OBVIOUS
  <2>3. Strong(pos)
    <3>1. CASE pos = 1
      BY <1>3, <2>1, <3>1 DEF Strong, Closed
    <3>2. CASE pos # 1
      <4>1. k \in Nat \ {0} /\ k + 1 = pos /\ Strong(k)
        BY <1>1, <2>2, <3>2, PlacesAre
      <4>2. Strong(k + 1)
        BY <1>3, <2>1, <4>1, ClosedAbove
      <4> QED
        BY <4>1, <4>2
    <3> QED
      BY <3>1, <3>2
  <2>4. UNCHANGED <<config, nodes>> /\ platform' = platform /\ system' = system
    BY <1>1 DEF Only, config, ground
  <2>5. CASE pos = Depth
    <3>1. step' = "located"
      BY <1>1, <1>3, <2>5 DEF Locate, EndWalk
    <3>2. Stranger' = Stranger
      BY <1>1, <2>4, <3>1 DEF Stranger
    <3>3. Strong(Depth)'
      BY <2>3, <2>4, <2>5, <3>2, SeenFrom
    <3>4. PathTyped' /\ Aside'
      BY <1>1, <3>1, SamePath DEF PathSteps
    <3> QED
      BY <2>1, <2>4, <2>5, <3>1, <3>3, <3>4 DEF PathIInv, Secured, Walking, Locating
  <2>6. CASE pos # Depth
    <3>1. step' = "locate" /\ pos' = pos + 1 /\ then' = then
      BY <1>1, <1>3, <2>6 DEF Locate
    <3>2. Stranger' = Stranger
      BY <1>1, <2>4, <3>1 DEF Stranger
    <3>3. PICK p : p = pos
      OBVIOUS
    <3>4. Strong(p)'
      BY <2>3, <2>4, <3>2, <3>3, SeenFrom
    <3>5. pos' - 1 = p /\ pos' \in 1 .. Depth
      BY <1>1, <2>6, <3>1, <3>3, PlacesAre
    <3>6. Strong(pos - 1)'
      BY <3>4, <3>5 DEF Strong, Closed
    <3>7. PathTyped' /\ Aside'
      BY <1>1, <3>1, SamePath DEF PathSteps
    <3> QED
      BY <1>1, <3>1, <3>5, <3>6, <3>7 DEF PathIInv, Secured, Walking, Locating
  <2> QED
    BY <2>5, <2>6
<1> QED
  BY <1>2, <1>3

----------------------------------------------------------------------------

LEMMA PathStarts == TrustedInit => PathIInv
<1> SUFFICES ASSUME TrustedInit PROVE PathIInv
  OBVIOUS
<1>1. /\ system \in BOOLEAN /\ override \in BOOLEAN /\ platform \in {"linux", "macos", "windows"}
      /\ aside = None /\ step = "idle"
  BY DEF TrustedInit
<1>2. PICK last \in 1 .. File : /\ nodes \in [1 .. File -> Kinds \cup Ends \cup {None}]
                                /\ \A n \in 1 .. File : nodes[n] = None <=> n > last
  BY DEF TrustedInit
<1>3. Ends \subseteq NodesOf(platform)
  <2>1. \A o \in {"root", "user", "other"} : Plain(o) \in NodesOf(platform)
    BY PlainNodes
  <2>2. Node(StoreOwner, FALSE, FALSE, "none", FALSE) \in NodesOf(platform)
    BY DEF Node, NodesOf, AnyNode, StoreOwner
  <2> QED
    BY <2>1, <2>2 DEF Ends
<1>4. Kinds \subseteq NodesOf(platform)
  <2>1. \A o \in {"root", "user", "other"} : Plain(o) \in NodesOf(platform)
    BY PlainNodes
  <2>2. platform # "windows" => UnixKinds \subseteq NodesOf(platform)
    <3>1. platform # "windows" => OneAccess \subseteq NodesOf(platform)
      BY DEF OneAccess, RootsAndUsers, NodesOf
    <3>2. Node("root", FALSE, FALSE, "none", FALSE) \in NodesOf(platform)
      BY DEF Node, NodesOf, AnyNode
    <3> QED
      BY <3>1, <3>2 DEF UnixKinds, OneAccess
  <2>3. platform = "macos" => Listed({"deny", "allow"}) \subseteq NodesOf(platform)
    BY DEF Listed, RootsAndUsers, NodesOf
  <2>4. platform = "windows" => Listed({"adds", "allow"}) \subseteq NodesOf(platform)
    BY DEF Listed, RootsAndUsers, NodesOf
  <2> QED
    BY <1>1, <2>1, <2>2, <2>3, <2>4 DEF Kinds
<1>5. nodes \in [1 .. File -> {None} \cup NodesOf(platform)]
  BY <1>2, <1>3, <1>4
<1>6. Reaching(nodes, 1)
  <2>1. \A n \in 1 .. File : nodes[n] # None <=> n <= last
    BY <1>2, PlacesAre
  <2> QED
    BY <2>1 DEF Reaching
<1> QED
  BY <1>1, <1>5, <1>6 DEF PathIInv, PathTyped, PathSteps, Aside, Secured, Walking, Locating

LEMMA PathStutters == PathIInv /\ UNCHANGED trustedVars => PathIInv'
<1> SUFFICES ASSUME PathIInv, UNCHANGED trustedVars PROVE PathIInv'
  OBVIOUS
<1>1. /\ UNCHANGED <<config, nodes, aside, moves, pos, child, reached, then, step, bottom>>
      /\ UNCHANGED <<system, platform, override>>
  BY DEF trustedVars, config, walk, ground
<1>2. Stranger' = Stranger
  BY <1>1 DEF Stranger
<1>3. PathTyped' /\ Aside' /\ Secured(step)' /\ Walking' /\ Locating'
  BY <1>1, <1>2 DEF PathIInv, PathTyped, Aside, Secured, Walking, Locating, Strong, Closed, There,
     Lets, Weak, TrustedRoot
<1> QED
  BY <1>3 DEF PathIInv

\* The invariant of a session on the way to a store, for a path of any length and any
\* number of moves.
THEOREM PathInvariant == TrustedSpec => []PathIInv
<1>1. ASSUME PathIInv, [TrustedNext]_trustedVars PROVE PathIInv'
  BY <1>1, BeginReadKeeps, BeginVerifyKeeps, BeginPrepareKeeps, BeginLocateKeeps, LookUpKeeps,
     OpenForReadKeeps, RecheckKeeps, MakeRootKeeps, LookForStoreKeeps, PublishStoreKeeps,
     HardenStoreKeeps, WriteFileKeeps, LocateKeeps, TakeKeeps, PutBackKeeps, PathStutters
     DEF TrustedNext
<1> QED
  BY <1>1, PathStarts, PTL DEF TrustedSpec

\* What styrn has prepared, opened, verified or located can be replaced by nobody it is
\* kept from (verify_manifest_ancestors, prepare_destination, worker_node_location), on a
\* path of any length, however much such an account has moved meanwhile.
THEOREM OwnersMove == TrustedSpec => []OnlyOwnersMove
<1>1. ASSUME PathIInv PROVE OnlyOwnersMove
  <2>1. Against = {Stranger}
    BY OneStranger
  <2>2. ASSUME NEW k \in 1 .. File, Closed(k), NEW n \in 2 .. k  PROVE ~Replaces(Stranger, n)
    <3>1. n \in 1 .. k /\ n > 1 /\ n \in 2 .. File
      BY <2>2, PlacesAre
    <3>2. ~Lets(nodes[n - 1], nodes[n], Stranger)
      BY <2>2, <3>1 DEF Closed
    <3> QED
      BY <3>1, <3>2, LetsReplaces
  <2>3. /\ step = "prepared" => Closed(Store) /\ Ending = Store
        /\ step \in {"read", "verified"} => Closed(File) /\ Ending = File
        /\ step = "located" => Closed(Depth) /\ Ending = Depth
    BY <1>1 DEF PathIInv, Secured, Locating, Strong, Ending
  <2>4. Store \in 1 .. File /\ File \in 1 .. File /\ Depth \in 1 .. File
    BY PlacesAre
  <2>5. step = "located" /\ platform = "windows" => ~Adds(Stranger, nodes[Depth])
    <3>1. SUFFICES ASSUME step = "located", platform = "windows" PROVE ~Adds(Stranger, nodes[Depth])
      OBVIOUS
    <3>2. ~Weak(nodes[Depth], Stranger) /\ nodes[Depth].acl # "adds" /\ There(Depth)
      BY <1>1, <3>1, PlacesAre DEF PathIInv, Locating, Strong, Closed
    <3>3. ~nodes[Depth].shared
      BY <1>1, <2>4, <3>1, <3>2 DEF PathIInv, PathTyped, There, NodesOf
    <3> QED
      BY <3>2, <3>3 DEF Weak, Adds, Writes
  <2> QED
    BY <2>1, <2>2, <2>3, <2>4, <2>5 DEF OnlyOwnersMove
<1> QED
  BY <1>1, PathInvariant, PTL
=============================================================================
