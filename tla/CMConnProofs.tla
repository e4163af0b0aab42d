----------------------------- MODULE CMConnProofs -----------------------------
(***************************************************************************)
(* Proofs about the reference counts of connections, for every finite set  *)
(* of users, any connections and peers and every set of programs in which  *)
(* a user gives its connection back before it gets another.                *)
(***************************************************************************)
EXTENDS CMConn, ListLemmas

-----------------------------------------------------------------------------
(* The inductive invariant, as a predicate on connections, holders, list,  *)
(* tasks, the frame of the reader and abort_read_ahead: a failure changes  *)
(* them in two stages.                                                     *)

One(b)          == IF b THEN 1 ELSE 0
Shakes(f, c)    == f.at = "shake" /\ f.conn = c
Calls(f, c)     == f.at = "callback" /\ f.conn = c
Holders(hd, c)  == {u \in Users : hd[u] = c}
Shakers(tk, c)  == {u \in Users : Shakes(tk[u], c)}

Refs(cs, hd, ls, tk, fr, c) ==
  One(InList(ls, c)) + One(cs[c].used /\ ~cs[c].failed)
    + Cardinality(Holders(hd, c)) + Cardinality(Shakers(tk, c))
    + One(fr.conn = c /\ fr.at = "handler")

Task == [at : {"idle", "shake", "callback"}, conn : Conns \cup {None}, hooks : Seq(Users)]

Types(cs, hd, ls, tk, fr) ==
  /\ cs \in [Conns -> Connection] /\ hd \in [Users -> Conns \cup {None}] /\ ls \in Seq(Conns)
  /\ tk \in [Threads -> Task]
  /\ fr \in [conn : Conns \cup {None}, at : {"none", "handler", "read"}]

(* The counts are exact, and a connection that has not failed is in the     *)
(* list: only the end of CMConnection_failed takes it out.                  *)
CountedAt(cs, hd, ls, tk, fr, c) ==
  /\ cs[c].refs = Refs(cs, hd, ls, tk, fr, c)
  /\ cs[c].freed <=> (cs[c].used /\ cs[c].refs = 0)
  /\ ~cs[c].used => cs[c] = Unused
  /\ cs[c].used /\ ~cs[c].failed => InList(ls, c)
  /\ cs[c].selected => cs[c].used /\ ~cs[c].failed
Counted(cs, hd, ls, tk, fr) == \A c \in Conns : CountedAt(cs, hd, ls, tk, fr, c)

(* One thread at a time fails a connection, and the list's reference keeps  *)
(* the connection until its close handlers have run.                        *)
Calling(cs, ls, tk) ==
  /\ \A t \in Threads : tk[t].at = "callback" =>
       tk[t].conn \in Conns /\ cs[tk[t].conn].failed /\ InList(ls, tk[t].conn)
  /\ \A t, u \in Threads : \A c \in Conns : Calls(tk[t], c) /\ Calls(tk[u], c) => t = u

Waiting(hd, tk) ==
  \A t \in Threads :
    /\ tk[t].at = "idle" => tk[t] = Idle
    /\ tk[t].at = "shake" => t \in Users /\ tk[t].conn \in Conns /\ hd[t] = None
    /\ tk[t].at = "callback" => tk[t].hooks # <<>>

(* The reader gives up its reference before it looks at the connection      *)
(* again, but is told to stop when the connection leaves the list.          *)
Reading(cs, ls, fr, ab) ==
  /\ fr.at = "none" => fr = NoFrame
  /\ fr.at # "none" => fr.conn \in Conns /\ cs[fr.conn].used /\ (InList(ls, fr.conn) \/ ab)

Core(cs, hd, ls, tk, fr, ab) ==
  /\ Types(cs, hd, ls, tk, fr)
  /\ \A i, j \in DOMAIN ls : ls[i] = ls[j] => i = j
  /\ Counted(cs, hd, ls, tk, fr) /\ Calling(cs, ls, tk) /\ Waiting(hd, tk)
  /\ Reading(cs, ls, fr, ab)

(* A user that has a connection got it with its last "get", and one that    *)
(* waits for a handshake is at a "get".                                     *)
GotIt(u) ==
  \E i \in DOMAIN program.ops[u] :
    /\ i < pos[u] /\ program.ops[u][i] = "get"
    /\ \A k \in i..(pos[u] - 1) : program.ops[u][k] # "close"
AtGet(u) == pos[u] \in DOMAIN program.ops[u] /\ program.ops[u][pos[u]] = "get"
Programmed ==
  \A u \in Users : /\ held[u] # None => GotIt(u)
                   /\ task[u].at = "shake" => AtGet(u)

RestTypes ==
  /\ program \in Programs /\ pos \in [Users -> Nat \ {0}]
  /\ abort \in BOOLEAN /\ alive \subseteq Peers /\ touched \in BOOLEAN
  /\ called \in [Conns -> Seq(Users)]

RefsInv ==
  /\ RestTypes /\ ~touched /\ Programmed
  /\ Core(conns, held, list, task, frame, abort)

-----------------------------------------------------------------------------
(* Close handlers: those called, those about to be and those still          *)
(* registered are no more than the calls that registered them.              *)

Registered(u) ==
  Cardinality({i \in DOMAIN program.ops[u] : i < pos[u] /\ program.ops[u][i] = "register"})

CallsCounted ==
  \A c \in Conns, u \in Users :
    /\ CountIn(called[c], u) + CountIn(conns[c].hooks, u) <= Registered(u)
    /\ \A t \in Threads : task[t].at = "callback" /\ task[t].conn = c =>
         CountIn(called[c], u) + CountIn(conns[c].hooks, u) + CountIn(task[t].hooks, u)
           <= Registered(u)

OnePerPeer ==
  \A c, d \in Conns : Open(c) /\ Open(d) /\ conns[c].peer = conns[d].peer => c = d

CalledFailed == \A c \in Conns : called[c] # <<>> => conns[c].failed

IInv == RefsInv /\ CallsCounted /\ OnePerPeer /\ CalledFailed

-----------------------------------------------------------------------------
(* Counting.                                                                *)

LEMMA OneType == \A b : One(b) \in {0, 1} /\ (b => One(b) = 1) /\ (~b => One(b) = 0)
BY DEF One

LEMMA HoldersCount ==
  ASSUME NEW hd, NEW c
  PROVE  /\ IsFiniteSet(Holders(hd, c)) /\ Cardinality(Holders(hd, c)) \in Nat
         /\ \A u \in Users : hd[u] = c => Cardinality(Holders(hd, c)) >= 1
<1>1. IsFiniteSet(Users) /\ Holders(hd, c) \in SUBSET Users
  BY ConnAssumption DEF Holders
<1>2. IsFiniteSet(Holders(hd, c)) /\ Cardinality(Holders(hd, c)) \in Nat
  BY <1>1, FS_Subset, FS_CardinalityType
<1>3. ASSUME NEW u \in Users, hd[u] = c PROVE Cardinality(Holders(hd, c)) # 0
  BY <1>2, <1>3, FS_EmptySet DEF Holders
<1> QED BY <1>2, <1>3

LEMMA ShakersCount ==
  ASSUME NEW tk, NEW c
  PROVE  /\ IsFiniteSet(Shakers(tk, c)) /\ Cardinality(Shakers(tk, c)) \in Nat
         /\ \A u \in Users : Shakes(tk[u], c) => Cardinality(Shakers(tk, c)) >= 1
<1>1. IsFiniteSet(Users) /\ Shakers(tk, c) \in SUBSET Users
  BY ConnAssumption DEF Shakers
<1>2. IsFiniteSet(Shakers(tk, c)) /\ Cardinality(Shakers(tk, c)) \in Nat
  BY <1>1, FS_Subset, FS_CardinalityType
<1>3. ASSUME NEW u \in Users, Shakes(tk[u], c) PROVE Cardinality(Shakers(tk, c)) # 0
  BY <1>2, <1>3, FS_EmptySet DEF Shakers
<1> QED BY <1>2, <1>3

(* One user takes a connection, lets go of one, or trades one for another.  *)
LEMMA HoldersUpdate ==
  ASSUME NEW hd, NEW g, NEW u \in Users, NEW c,
         \A w \in Users : w # u => g[w] = hd[w]
  PROVE  /\ hd[u] = c /\ g[u] # c => Cardinality(Holders(g, c)) = Cardinality(Holders(hd, c)) - 1
         /\ hd[u] # c /\ g[u] = c => Cardinality(Holders(g, c)) = Cardinality(Holders(hd, c)) + 1
         /\ (hd[u] = c <=> g[u] = c) => Cardinality(Holders(g, c)) = Cardinality(Holders(hd, c))
<1> DEFINE S == Holders(hd, c)
           T == Holders(g, c)
<1>1. IsFiniteSet(S) /\ Cardinality(S) \in Nat /\ IsFiniteSet(S \ {u})
  BY HoldersCount, FS_RemoveElement
<1>2. u \in S <=> hd[u] = c
  BY DEF Holders
<1>3. g[u] = c => T = (S \ {u}) \cup {u}
  BY DEF Holders
<1>4. g[u] # c => T = S \ {u}
  BY DEF Holders
<1> HIDE DEF S, T
<1>5. Cardinality(S \ {u}) = IF hd[u] = c THEN Cardinality(S) - 1 ELSE Cardinality(S)
  BY <1>1, <1>2, FS_RemoveElement
<1>6. Cardinality((S \ {u}) \cup {u}) = Cardinality(S \ {u}) + 1
  BY <1>1, FS_AddElement
<1>7. Cardinality(T) = IF g[u] = c THEN Cardinality(S \ {u}) + 1 ELSE Cardinality(S \ {u})
  BY <1>3, <1>4, <1>6
<1>8. /\ hd[u] = c /\ g[u] # c => Cardinality(T) = Cardinality(S) - 1
      /\ hd[u] # c /\ g[u] = c => Cardinality(T) = Cardinality(S) + 1
      /\ (hd[u] = c <=> g[u] = c) => Cardinality(T) = Cardinality(S)
  BY <1>1, <1>5, <1>7
<1> QED BY <1>8 DEF S, T

LEMMA HoldersReleased ==
  ASSUME NEW hd \in [Users -> Conns \cup {None}], NEW u \in Users, NEW d \in Conns
  PROVE  Cardinality(Holders([hd EXCEPT ![u] = None], d)) =
           IF hd[u] = d THEN Cardinality(Holders(hd, d)) - 1 ELSE Cardinality(Holders(hd, d))
<1> DEFINE S == Holders(hd, d)
<1>1. None # d
  BY ConnAssumption
<1>2. Holders([hd EXCEPT ![u] = None], d) = S \ {u}
  BY <1>1 DEF Holders
<1>3. u \in S <=> hd[u] = d
  BY DEF Holders
<1>4. IsFiniteSet(S)
  BY HoldersCount
<1> HIDE DEF S
<1>5. Cardinality(S \ {u}) = IF u \in S THEN Cardinality(S) - 1 ELSE Cardinality(S)
  BY <1>4, FS_RemoveElement
<1> QED BY <1>2, <1>3, <1>5 DEF S

LEMMA ShakersUpdate ==
  ASSUME NEW tk, NEW g, NEW t \in Threads, NEW c,
         \A w \in Threads : w # t => g[w] = tk[w]
  PROVE  /\ t \in Users /\ Shakes(tk[t], c) /\ ~Shakes(g[t], c) =>
              Cardinality(Shakers(g, c)) = Cardinality(Shakers(tk, c)) - 1
         /\ t \in Users /\ ~Shakes(tk[t], c) /\ Shakes(g[t], c) =>
              Cardinality(Shakers(g, c)) = Cardinality(Shakers(tk, c)) + 1
         /\ ~Shakes(tk[t], c) /\ ~Shakes(g[t], c) =>
              Cardinality(Shakers(g, c)) = Cardinality(Shakers(tk, c))
<1> DEFINE S == Shakers(tk, c)
           T == Shakers(g, c)
<1>0. Users \subseteq Threads
  BY DEF Threads
<1>1. IsFiniteSet(S) /\ Cardinality(S) \in Nat /\ IsFiniteSet(S \ {t})
  BY ShakersCount, FS_RemoveElement
<1>3. ~Shakes(tk[t], c) /\ ~Shakes(g[t], c) => T = S
  BY <1>0 DEF Shakers
<1>4. ASSUME t \in Users
      PROVE  /\ Shakes(tk[t], c) /\ ~Shakes(g[t], c) => Cardinality(T) = Cardinality(S) - 1
             /\ ~Shakes(tk[t], c) /\ Shakes(g[t], c) => Cardinality(T) = Cardinality(S) + 1
  <2>1. t \in S <=> Shakes(tk[t], c)
    BY <1>4 DEF Shakers
  <2>2. ~Shakes(tk[t], c) /\ Shakes(g[t], c) => T = S \cup {t}
    BY <1>0, <1>4 DEF Shakers
  <2>3. ~Shakes(g[t], c) => T = S \ {t}
    BY <1>0, <1>4 DEF Shakers
  <2> HIDE DEF S, T
  <2>4. Cardinality(S \ {t}) = IF t \in S THEN Cardinality(S) - 1 ELSE Cardinality(S)
    BY <1>1, FS_RemoveElement
  <2>5. Cardinality(S \cup {t}) = IF t \in S THEN Cardinality(S) ELSE Cardinality(S) + 1
    BY <1>1, FS_AddElement
  <2> QED BY <1>1, <2>1, <2>2, <2>3, <2>4, <2>5
<1> QED BY <1>3, <1>4 DEF S, T

-----------------------------------------------------------------------------
(* What the operations do to one structure.                                 *)

LEMMA DereferenceFields ==
  ASSUME NEW cs \in [Conns -> Connection], NEW c \in Conns, cs[c].refs >= 1
  PROVE  /\ Dereference(cs, c) \in [Conns -> Connection]
         /\ \A d \in Conns : d # c => Dereference(cs, c)[d] = cs[d]
         /\ Dereference(cs, c)[c].refs = cs[c].refs - 1
         /\ Dereference(cs, c)[c].freed <=> cs[c].freed \/ cs[c].refs = 1
         /\ Dereference(cs, c)[c].used = cs[c].used
         /\ Dereference(cs, c)[c].failed = cs[c].failed
         /\ Dereference(cs, c)[c].selected = cs[c].selected
         /\ Dereference(cs, c)[c].hooks = cs[c].hooks
<1>1. cs[c] \in Connection
  OBVIOUS
<1> DEFINE b == cs[c].freed \/ cs[c].refs = 1
           b2 == cs[c].closed \/ cs[c].refs = 1
           e == [cs[c] EXCEPT !.refs = @ - 1, !.freed = b, !.closed = b2]
<1>2. Dereference(cs, c) = [cs EXCEPT ![c] = e]
  BY DEF Dereference
<1>b. b \in BOOLEAN /\ b2 \in BOOLEAN
  OBVIOUS
<1> HIDE DEF b, b2
<1>3. e \in Connection
  <2>1. cs[c].refs - 1 \in Nat
    BY <1>1 DEF Connection
  <2> DEFINE n == cs[c].refs - 1
  <2> HIDE DEF n
  <2>2. [cs[c] EXCEPT !.refs = n, !.freed = b, !.closed = b2] \in Connection
    BY <1>1, <1>b, <2>1 DEF Connection, n
  <2> QED BY <2>2 DEF n
<1>4. /\ e.refs = cs[c].refs - 1 /\ e.used = cs[c].used /\ e.failed = cs[c].failed
      /\ e.selected = cs[c].selected /\ e.hooks = cs[c].hooks
  BY <1>1 DEF Connection
<1>5. e.freed = b
  BY <1>1 DEF Connection
<1> HIDE DEF e
<1>6. e.freed <=> cs[c].freed \/ cs[c].refs = 1
  BY <1>5, Zenon DEF b
<1> QED BY <1>2, <1>3, <1>4, <1>6

LEMMA ClosedFields ==
  ASSUME NEW cs \in [Conns -> Connection], NEW c \in Conns, cs[c].refs >= 1
  PROVE  /\ Closed(cs, c) \in [Conns -> Connection]
         /\ \A d \in Conns : d # c => Closed(cs, c)[d] = cs[d]
         /\ Closed(cs, c)[c].refs = cs[c].refs - 1
         /\ Closed(cs, c)[c].freed <=> cs[c].freed \/ cs[c].refs = 1
         /\ Closed(cs, c)[c].used = cs[c].used
         /\ Closed(cs, c)[c].failed = cs[c].failed
         /\ Closed(cs, c)[c].selected = cs[c].selected
         /\ Closed(cs, c)[c].hooks = cs[c].hooks
<1> DEFINE e == [cs EXCEPT ![c].closed = TRUE]
<1>1. /\ e \in [Conns -> Connection] /\ \A d \in Conns : d # c => e[d] = cs[d]
      /\ e[c].refs = cs[c].refs /\ e[c].freed = cs[c].freed /\ e[c].used = cs[c].used
      /\ e[c].failed = cs[c].failed /\ e[c].selected = cs[c].selected
      /\ e[c].hooks = cs[c].hooks
  BY ZenonT(90) DEF Connection
<1>2. Closed(cs, c) = Dereference(e, c)
  BY DEF Closed
<1> HIDE DEF e
<1> QED BY <1>1, <1>2, DereferenceFields

LEMMA BrokenFields ==
  ASSUME NEW cs \in [Conns -> Connection], NEW c \in Conns, cs[c].refs >= 1
  PROVE  /\ Broken(cs, c) \in [Conns -> Connection]
         /\ \A d \in Conns : d # c => Broken(cs, c)[d] = cs[d]
         /\ Broken(cs, c)[c].refs = cs[c].refs - 1
         /\ Broken(cs, c)[c].freed <=> cs[c].freed \/ cs[c].refs = 1
         /\ Broken(cs, c)[c].used = cs[c].used
         /\ Broken(cs, c)[c].failed /\ ~Broken(cs, c)[c].selected
         /\ Broken(cs, c)[c].hooks = <<>>
<1> DEFINE f == [cs[c] EXCEPT !.failed = TRUE, !.selected = FALSE, !.hooks = <<>>,
                              !.cond = IF @ = "waiting" THEN "failed" ELSE @]
           e == [cs EXCEPT ![c] = f]
<1>1. Broken(cs, c) = Dereference(e, c)
  BY DEF Broken
<1>2. cs[c] \in Connection
  OBVIOUS
<1>3. /\ f.refs = cs[c].refs /\ f.freed = cs[c].freed /\ f.used = cs[c].used
      /\ f.failed /\ ~f.selected /\ f.hooks = <<>>
  BY <1>2 DEF Connection
<1>4. f \in Connection
  <2>1. <<>> \in Seq(Users)
    BY EmptySeq
  <2> QED BY <1>2, <2>1 DEF Connection
<1> HIDE DEF f
<1>5. e \in [Conns -> Connection] /\ e[c] = f /\ \A d \in Conns : d # c => e[d] = cs[d]
  BY <1>4
<1> HIDE DEF e
<1>6. e[c].refs >= 1
  BY <1>3, <1>5
<1> QED BY <1>1, <1>3, <1>5, <1>6, DereferenceFields

-----------------------------------------------------------------------------
(* The stages of a failure preserve the invariant.                          *)

(* Five holders, each counted by a natural number.                          *)
LEMMA RefsParts ==
  ASSUME NEW cs, NEW hd, NEW ls, NEW tk, NEW fr, NEW c
  PROVE  /\ Refs(cs, hd, ls, tk, fr, c) \in Nat
         /\ InList(ls, c) => Refs(cs, hd, ls, tk, fr, c) >= 1
         /\ cs[c].used /\ ~cs[c].failed => Refs(cs, hd, ls, tk, fr, c) >= 1
         /\ cs[c].used /\ ~cs[c].failed /\ InList(ls, c) => Refs(cs, hd, ls, tk, fr, c) >= 2
         /\ \A u \in Users : hd[u] = c => Refs(cs, hd, ls, tk, fr, c) >= 1
         /\ \A u \in Users : Shakes(tk[u], c) => Refs(cs, hd, ls, tk, fr, c) >= 1
         /\ fr.conn = c /\ fr.at = "handler" => Refs(cs, hd, ls, tk, fr, c) >= 1
<1> DEFINE a == InList(ls, c)
           b == cs[c].used /\ ~cs[c].failed
           h == Cardinality(Holders(hd, c))
           s == Cardinality(Shakers(tk, c))
           d == fr.conn = c /\ fr.at = "handler"
<1>1. h \in Nat /\ s \in Nat
  BY HoldersCount, ShakersCount
<1>2. /\ \A u \in Users : hd[u] = c => h >= 1
      /\ \A u \in Users : Shakes(tk[u], c) => s >= 1
  BY HoldersCount, ShakersCount
<1>3. Refs(cs, hd, ls, tk, fr, c) = One(a) + One(b) + h + s + One(d)
  BY DEF Refs
<1> HIDE DEF a, b, h, s, d
<1>4. One(a) \in {0, 1} /\ One(b) \in {0, 1} /\ One(d) \in {0, 1}
  BY OneType
<1>5. (a => One(a) = 1) /\ (b => One(b) = 1) /\ (d => One(d) = 1)
  BY OneType
<1>6. /\ Refs(cs, hd, ls, tk, fr, c) \in Nat
      /\ a => Refs(cs, hd, ls, tk, fr, c) >= 1
      /\ b => Refs(cs, hd, ls, tk, fr, c) >= 1
      /\ a /\ b => Refs(cs, hd, ls, tk, fr, c) >= 2
      /\ d => Refs(cs, hd, ls, tk, fr, c) >= 1
  BY <1>1, <1>3, <1>4, <1>5
<1>7. \A u \in Users : hd[u] = c => Refs(cs, hd, ls, tk, fr, c) >= 1
  BY <1>1, <1>2, <1>3, <1>4
<1>8. \A u \in Users : Shakes(tk[u], c) => Refs(cs, hd, ls, tk, fr, c) >= 1
  BY <1>1, <1>2, <1>3, <1>4
<1> QED BY <1>6, <1>7, <1>8 DEF a, b, d

(* A connection that a holder counts is a structure in use.                 *)
LEMMA UsedIfHeld ==
  ASSUME NEW cs \in [Conns -> Connection], NEW hd, NEW ls, NEW tk, NEW fr, NEW c \in Conns,
         CountedAt(cs, hd, ls, tk, fr, c)
  PROVE  /\ cs[c].refs \in Nat
         /\ cs[c].refs >= 1 => cs[c].used /\ ~cs[c].freed
         /\ InList(ls, c) => cs[c].refs >= 1
         /\ \A u \in Users : hd[u] = c => cs[c].refs >= 1
         /\ \A u \in Users : Shakes(tk[u], c) => cs[c].refs >= 1
         /\ fr.conn = c /\ fr.at = "handler" => cs[c].refs >= 1
         /\ cs[c].used /\ ~cs[c].failed => cs[c].refs >= 2
         /\ cs[c].freed => cs[c].failed
<1>1. cs[c].refs \in Nat /\ cs[c].refs = Refs(cs, hd, ls, tk, fr, c)
  BY RefsParts DEF CountedAt
<1>2. /\ cs[c].freed <=> (cs[c].used /\ cs[c].refs = 0)
      /\ ~cs[c].used => cs[c].refs = 0
      /\ cs[c].used /\ ~cs[c].failed => InList(ls, c)
  BY DEF CountedAt, Unused
<1>3. /\ InList(ls, c) => cs[c].refs >= 1
      /\ cs[c].used /\ ~cs[c].failed => cs[c].refs >= 2
  BY <1>1, <1>2, RefsParts
<1>4. /\ \A u \in Users : hd[u] = c => cs[c].refs >= 1
      /\ \A u \in Users : Shakes(tk[u], c) => cs[c].refs >= 1
      /\ fr.conn = c /\ fr.at = "handler" => cs[c].refs >= 1
  BY <1>1, RefsParts
<1> QED BY <1>1, <1>2, <1>3, <1>4

(* The transport lets go of a connection that breaks.                       *)
LEMMA BrokenCore ==
  ASSUME NEW cs, NEW hd, NEW ls, NEW tk, NEW fr, NEW ab, NEW c \in Conns,
         Core(cs, hd, ls, tk, fr, ab), cs[c].used, ~cs[c].failed
  PROVE  /\ Core(Broken(cs, c), hd, ls, tk, fr, ab)
         /\ Broken(cs, c)[c].failed /\ InList(ls, c)
         /\ \A t \in Threads : ~Calls(tk[t], c)
<1> DEFINE b == Broken(cs, c)
<1>1. cs \in [Conns -> Connection] /\ \A d \in Conns : CountedAt(cs, hd, ls, tk, fr, d)
  BY DEF Core, Types, Counted
<1>2. cs[c].refs \in Nat /\ cs[c].refs >= 2 /\ InList(ls, c) /\ ~cs[c].freed
  BY <1>1, UsedIfHeld DEF CountedAt
<1>3. /\ b \in [Conns -> Connection] /\ \A d \in Conns : d # c => b[d] = cs[d]
      /\ b[c].refs = cs[c].refs - 1 /\ b[c].used /\ b[c].failed /\ ~b[c].selected
      /\ ~b[c].freed
  BY <1>1, <1>2, BrokenFields
<1> HIDE DEF b
<1>4. ASSUME NEW d \in Conns PROVE CountedAt(b, hd, ls, tk, fr, d)
  <2>1. CASE d # c
    <3>1. Refs(b, hd, ls, tk, fr, d) = Refs(cs, hd, ls, tk, fr, d)
      BY <1>3, <2>1 DEF Refs
    <3> QED BY <1>1, <1>3, <2>1, <3>1 DEF CountedAt
  <2>2. CASE d = c
    <3> DEFINE h == Cardinality(Holders(hd, c))
               s == Cardinality(Shakers(tk, c))
               f == One(fr.conn = c /\ fr.at = "handler")
               l == One(InList(ls, c))
    <3>1. h \in Nat /\ s \in Nat /\ f \in {0, 1} /\ l \in {0, 1}
      BY HoldersCount, ShakersCount, OneType
    <3>2. One(b[c].used /\ ~b[c].failed) = 0 /\ One(cs[c].used /\ ~cs[c].failed) = 1
      BY <1>3, OneType
    <3>3. /\ Refs(b, hd, ls, tk, fr, c) = l + One(b[c].used /\ ~b[c].failed) + h + s + f
          /\ Refs(cs, hd, ls, tk, fr, c) = l + One(cs[c].used /\ ~cs[c].failed) + h + s + f
      BY DEF Refs
    <3> HIDE DEF h, s, f, l
    <3>4. Refs(b, hd, ls, tk, fr, c) = Refs(cs, hd, ls, tk, fr, c) - 1
      BY <3>1, <3>2, <3>3
    <3>5. cs[c].refs = Refs(cs, hd, ls, tk, fr, c)
      BY <1>1 DEF CountedAt
    <3>6. CountedAt(b, hd, ls, tk, fr, c)
      BY <1>2, <1>3, <3>4, <3>5 DEF CountedAt
    <3> QED BY <2>2, <3>6
  <2> QED BY <2>1, <2>2
<1>5. Counted(b, hd, ls, tk, fr)
  BY <1>4 DEF Counted
<1>6. Calling(b, ls, tk) /\ \A t \in Threads : ~Calls(tk[t], c)
  <2>1. Calling(cs, ls, tk)
    BY DEF Core
  <2>2. ASSUME NEW t \in Threads PROVE ~Calls(tk[t], c)
    BY <2>1 DEF Calling, Calls
  <2>3. ASSUME NEW t \in Threads, tk[t].at = "callback"
        PROVE  tk[t].conn \in Conns /\ b[tk[t].conn].failed /\ InList(ls, tk[t].conn)
    BY <1>3, <2>1, <2>2, <2>3 DEF Calling, Calls
  <2> QED BY <2>1, <2>2, <2>3 DEF Calling
<1>7. Reading(b, ls, fr, ab)
  BY <1>3 DEF Core, Reading
<1>8. Types(b, hd, ls, tk, fr)
  BY <1>3 DEF Core, Types
<1>9. /\ Waiting(hd, tk)
      /\ \A i, j \in DOMAIN ls : ls[i] = ls[j] => i = j
  BY DEF Core
<1>10. Core(b, hd, ls, tk, fr, ab)
  BY <1>5, <1>6, <1>7, <1>8, <1>9 DEF Core
<1> QED BY <1>2, <1>3, <1>6, <1>10 DEF b

(* A user gives back its reference.                                         *)
LEMMA ClosedCore ==
  ASSUME NEW cs, NEW hd, NEW ls, NEW tk, NEW fr, NEW ab, NEW c \in Conns, NEW u \in Users,
         Core(cs, hd, ls, tk, fr, ab), hd[u] = c
  PROVE  /\ Core(Closed(cs, c), [hd EXCEPT ![u] = None], ls, tk, fr, ab)
         /\ Closed(cs, c)[c].failed = cs[c].failed
<1> DEFINE b == Closed(cs, c)
           g == [hd EXCEPT ![u] = None]
<1>1. /\ cs \in [Conns -> Connection] /\ \A d \in Conns : CountedAt(cs, hd, ls, tk, fr, d)
      /\ hd \in [Users -> Conns \cup {None}]
  BY DEF Core, Types, Counted
<1>2. cs[c].refs \in Nat /\ cs[c].refs >= 1 /\ cs[c].used /\ ~cs[c].freed
  BY <1>1, UsedIfHeld
<1>3. /\ b \in [Conns -> Connection] /\ \A d \in Conns : d # c => b[d] = cs[d]
      /\ b[c].refs = cs[c].refs - 1 /\ b[c].used /\ b[c].failed = cs[c].failed
      /\ b[c].selected = cs[c].selected /\ (b[c].freed <=> b[c].refs = 0)
  BY <1>1, <1>2, ClosedFields
<1>4. ASSUME NEW d \in Conns
      PROVE  Cardinality(Holders(g, d)) =
               IF d = c THEN Cardinality(Holders(hd, d)) - 1 ELSE Cardinality(Holders(hd, d))
  <2>1. hd \in [Users -> Conns \cup {None}] /\ (hd[u] = d <=> d = c)
    BY <1>1
  <2> QED BY <2>1, HoldersReleased
<1>5. g \in [Users -> Conns \cup {None}] /\ \A v \in Users : g[v] = None \/ g[v] = hd[v]
  BY <1>1
<1> HIDE DEF b, g
<1>6. ASSUME NEW d \in Conns PROVE CountedAt(b, g, ls, tk, fr, d)
  <2>1. CASE d # c
    <3>1. Refs(b, g, ls, tk, fr, d) = Refs(cs, hd, ls, tk, fr, d)
      BY <1>3, <1>4, <2>1 DEF Refs
    <3> QED BY <1>1, <1>3, <2>1, <3>1 DEF CountedAt
  <2>2. CASE d = c
    <3> DEFINE h == Cardinality(Holders(hd, c))
               s == Cardinality(Shakers(tk, c))
               f == One(fr.conn = c /\ fr.at = "handler")
               l == One(InList(ls, c))
               k == One(cs[c].used /\ ~cs[c].failed)
    <3>1. h \in Nat /\ s \in Nat /\ f \in {0, 1} /\ l \in {0, 1} /\ k \in {0, 1}
      BY HoldersCount, ShakersCount, OneType
    <3>2. One(b[c].used /\ ~b[c].failed) = k
      BY <1>2, <1>3
    <3>3. /\ Refs(b, g, ls, tk, fr, c) = l + k + (h - 1) + s + f
          /\ Refs(cs, hd, ls, tk, fr, c) = l + k + h + s + f
      BY <1>4, <3>2 DEF Refs
    <3> HIDE DEF h, s, f, l, k
    <3>4. Refs(b, g, ls, tk, fr, c) = Refs(cs, hd, ls, tk, fr, c) - 1
      BY <3>1, <3>3
    <3>5. cs[c].refs = Refs(cs, hd, ls, tk, fr, c)
      BY <1>1 DEF CountedAt
    <3>6. CountedAt(b, g, ls, tk, fr, c)
      BY <1>1, <1>2, <1>3, <3>4, <3>5 DEF CountedAt
    <3> QED BY <2>2, <3>6
  <2> QED BY <2>1, <2>2
<1>7. Counted(b, g, ls, tk, fr)
  BY <1>6 DEF Counted
<1>8. Calling(b, ls, tk)
  BY <1>3 DEF Core, Calling
<1>9. Reading(b, ls, fr, ab)
  BY <1>3 DEF Core, Reading
<1>10. Types(b, g, ls, tk, fr)
  BY <1>3, <1>5 DEF Core, Types
<1>11. Waiting(g, tk)
  BY <1>5 DEF Core, Waiting
<1>12. \A i, j \in DOMAIN ls : ls[i] = ls[j] => i = j
  BY DEF Core
<1>13. Core(b, g, ls, tk, fr, ab)
  BY <1>7, <1>8, <1>9, <1>10, <1>11, <1>12 DEF Core
<1> QED BY <1>3, <1>13 DEF b, g

(* The thread that fails a connection, and nobody else.                     *)
Failing(cs, ls, tk, t, c) ==
  /\ cs[c].failed /\ InList(ls, c)
  /\ tk[t].at # "shake"
  /\ \A u \in Threads : Calls(tk[u], c) => u = t
  /\ \A d \in Conns : Calls(tk[t], d) => d = c

(* The end of CMConnection_failed takes the connection out of the list.     *)
LEMMA EndCore ==
  ASSUME NEW cs, NEW hd, NEW ls, NEW tk, NEW fr, NEW ab, NEW c \in Conns, NEW t \in Threads,
         Core(cs, hd, ls, tk, fr, ab), Failing(cs, ls, tk, t, c)
  PROVE  Core(Closed(cs, c), hd, Removed(ls, c), [tk EXCEPT ![t] = Idle], fr, TRUE)
<1> DEFINE b == Closed(cs, c)
           l == Removed(ls, c)
           g == [tk EXCEPT ![t] = Idle]
<1>1. /\ cs \in [Conns -> Connection] /\ \A d \in Conns : CountedAt(cs, hd, ls, tk, fr, d)
      /\ tk \in [Threads -> Task] /\ ls \in Seq(Conns)
      /\ \A i, j \in DOMAIN ls : ls[i] = ls[j] => i = j
  BY DEF Core, Types, Counted
<1>2. /\ cs[c].refs \in Nat /\ cs[c].refs >= 1 /\ cs[c].used /\ ~cs[c].freed
      /\ cs[c].failed /\ InList(ls, c)
  BY <1>1, UsedIfHeld DEF Failing
<1>3. /\ b \in [Conns -> Connection] /\ \A d \in Conns : d # c => b[d] = cs[d]
      /\ b[c].refs = cs[c].refs - 1 /\ b[c].used /\ b[c].failed
      /\ b[c].selected = cs[c].selected /\ (b[c].freed <=> b[c].refs = 0)
  BY <1>1, <1>2, ClosedFields
<1>4. /\ l \in Seq(Conns) /\ \A i, j \in DOMAIN l : l[i] = l[j] => i = j
      /\ \A d : InList(l, d) <=> InList(ls, d) /\ d # c
  BY <1>1, RemoveFirstProperties DEF Removed
<1>5. Idle \in Task
  <2>1. <<>> \in Seq(Users)
    BY EmptySeq
  <2> QED BY <2>1 DEF Idle, Task
<1>6. g \in [Threads -> Task] /\ g[t] = Idle /\ \A u \in Threads : u # t => g[u] = tk[u]
  BY <1>1, <1>5
<1>7. \A d : ~Shakes(g[t], d) /\ ~Shakes(tk[t], d) /\ ~Calls(g[t], d)
  BY <1>6 DEF Shakes, Calls, Idle, Failing
<1> HIDE DEF b, l, g
<1>8. ASSUME NEW d \in Conns PROVE Cardinality(Shakers(g, d)) = Cardinality(Shakers(tk, d))
  BY <1>6, <1>7, ShakersUpdate
<1>9. ASSUME NEW d \in Conns PROVE CountedAt(b, hd, l, g, fr, d)
  <2>1. CASE d # c
    <3>1. One(InList(l, d)) = One(InList(ls, d))
      BY <1>4, <2>1 DEF One
    <3>2. Refs(b, hd, l, g, fr, d) = Refs(cs, hd, ls, tk, fr, d)
      BY <1>3, <1>8, <2>1, <3>1 DEF Refs
    <3> QED BY <1>1, <1>3, <1>4, <2>1, <3>2 DEF CountedAt
  <2>2. CASE d = c
    <3> DEFINE h == Cardinality(Holders(hd, c))
               s == Cardinality(Shakers(tk, c))
               f == One(fr.conn = c /\ fr.at = "handler")
    <3>1. h \in Nat /\ s \in Nat /\ f \in {0, 1}
      BY HoldersCount, ShakersCount, OneType
    <3>2. /\ One(b[c].used /\ ~b[c].failed) = 0 /\ One(cs[c].used /\ ~cs[c].failed) = 0
          /\ One(InList(l, c)) = 0 /\ One(InList(ls, c)) = 1
      BY <1>2, <1>3, <1>4, OneType
    <3>3. /\ Refs(b, hd, l, g, fr, c) =
               One(InList(l, c)) + One(b[c].used /\ ~b[c].failed) + h + s + f
          /\ Refs(cs, hd, ls, tk, fr, c) =
               One(InList(ls, c)) + One(cs[c].used /\ ~cs[c].failed) + h + s + f
      BY <1>8 DEF Refs
    <3> HIDE DEF h, s, f
    <3>4. Refs(b, hd, l, g, fr, c) = Refs(cs, hd, ls, tk, fr, c) - 1
      BY <3>1, <3>2, <3>3
    <3>5. cs[c].refs = Refs(cs, hd, ls, tk, fr, c) /\ ~cs[c].selected
      BY <1>1, <1>2 DEF CountedAt
    <3>6. CountedAt(b, hd, l, g, fr, c)
      BY <1>2, <1>3, <3>4, <3>5 DEF CountedAt
    <3> QED BY <2>2, <3>6
  <2> QED BY <2>1, <2>2
<1>10. Counted(b, hd, l, g, fr)
  BY <1>9 DEF Counted
<1>11. Calling(b, l, g)
  <2>1. Calling(cs, ls, tk)
    BY DEF Core
  <2>2. ASSUME NEW u \in Threads, g[u].at = "callback"
        PROVE  g[u].conn \in Conns /\ b[g[u].conn].failed /\ InList(l, g[u].conn)
    <3>1. u # t /\ g[u] = tk[u]
      BY <1>6, <1>7, <2>2 DEF Calls
    <3>2. /\ tk[u].conn \in Conns /\ cs[tk[u].conn].failed /\ InList(ls, tk[u].conn)
      BY <2>1, <2>2, <3>1 DEF Calling
    <3>3. tk[u].conn # c
      BY <2>2, <3>1 DEF Failing, Calls
    <3> QED BY <1>3, <1>4, <3>1, <3>2, <3>3
  <2>3. ASSUME NEW u \in Threads, NEW v \in Threads, NEW d \in Conns, Calls(g[u], d), Calls(g[v], d)
        PROVE  u = v
    <3>1. g[u] = tk[u] /\ g[v] = tk[v]
      BY <1>6, <1>7, <2>3
    <3> QED BY <2>1, <2>3, <3>1 DEF Calling
  <2> QED BY <2>2, <2>3 DEF Calling
<1>12. Waiting(hd, g)
  <2>1. g[t].at \notin {"shake", "callback"}
    BY <1>6 DEF Idle
  <2> QED BY <1>6, <2>1 DEF Core, Waiting
<1>13. Reading(b, l, fr, TRUE)
  <2>1. Reading(cs, ls, fr, ab)
    BY DEF Core
  <2> QED BY <1>3, <2>1 DEF Reading
<1>14. Types(b, hd, l, g, fr)
  BY <1>3, <1>4, <1>6 DEF Core, Types
<1>15. Core(b, hd, l, g, fr, TRUE)
  BY <1>4, <1>10, <1>11, <1>12, <1>13, <1>14 DEF Core
<1> QED BY <1>15 DEF b, l, g

(* The next close handler is called.                                        *)
LEMMA CallCore ==
  ASSUME NEW cs, NEW hd, NEW ls, NEW tk, NEW fr, NEW ab, NEW c \in Conns, NEW t \in Threads,
         NEW hooks \in Seq(Users), hooks # <<>>, Core(cs, hd, ls, tk, fr, ab), Failing(cs, ls, tk, t, c)
  PROVE  Core(cs, hd, ls, [tk EXCEPT ![t] = [at |-> "callback", conn |-> c, hooks |-> hooks]], fr, ab)
<1> DEFINE f == [at |-> "callback", conn |-> c, hooks |-> hooks]
           g == [tk EXCEPT ![t] = f]
<1>1. tk \in [Threads -> Task] /\ Counted(cs, hd, ls, tk, fr)
  BY DEF Core, Types
<1>2. f \in Task /\ f.at = "callback" /\ f.conn = c /\ f.hooks # <<>>
  BY DEF Task
<1> HIDE DEF f
<1>3. g \in [Threads -> Task] /\ g[t] = f /\ \A u \in Threads : u # t => g[u] = tk[u]
  BY <1>1, <1>2
<1>4. \A d : ~Shakes(g[t], d) /\ ~Shakes(tk[t], d)
  BY <1>2, <1>3 DEF Shakes, Failing
<1> HIDE DEF g
<1>5. ASSUME NEW d \in Conns PROVE CountedAt(cs, hd, ls, g, fr, d)
  <2>1. Cardinality(Shakers(g, d)) = Cardinality(Shakers(tk, d))
    <3>1. ~Shakes(g[t], d) /\ ~Shakes(tk[t], d)
      BY <1>4
    <3>2. \A w \in Threads : w # t => g[w] = tk[w]
      BY <1>3
    <3>3. Shakers(g, d) = Shakers(tk, d)
      BY <3>1, <3>2 DEF Shakers, Threads
    <3> QED BY <3>3
  <2>2. Refs(cs, hd, ls, g, fr, d) = Refs(cs, hd, ls, tk, fr, d)
    BY <2>1 DEF Refs
  <2> QED BY <1>1, <2>2 DEF Counted, CountedAt
<1>6. Calling(cs, ls, g)
  <2>1. Calling(cs, ls, tk)
    BY DEF Core
  <2>2. ASSUME NEW u \in Threads, g[u].at = "callback"
        PROVE  g[u].conn \in Conns /\ cs[g[u].conn].failed /\ InList(ls, g[u].conn)
    BY <1>2, <1>3, <2>1, <2>2 DEF Calling, Failing
  <2>3. ASSUME NEW u \in Threads, NEW v \in Threads, NEW d \in Conns, Calls(g[u], d), Calls(g[v], d)
        PROVE  u = v
    <3>1. CASE d = c
      <4>1. ASSUME NEW w \in Threads, Calls(g[w], c) PROVE w = t
        BY <1>3, <4>1 DEF Failing
      <4> QED BY <2>3, <3>1, <4>1
    <3>2. CASE d # c
      <4>1. u # t /\ v # t
        BY <1>2, <1>3, <2>3, <3>2 DEF Calls
      <4> QED BY <1>3, <2>1, <2>3, <4>1 DEF Calling
    <3> QED BY <3>1, <3>2
  <2> QED BY <2>2, <2>3 DEF Calling
<1>7. Waiting(hd, g)
  BY <1>2, <1>3 DEF Core, Waiting
<1>8. Types(cs, hd, ls, g, fr)
  BY <1>3 DEF Core, Types
<1>9. Core(cs, hd, ls, g, fr, ab)
  BY <1>5, <1>6, <1>7, <1>8 DEF Core, Counted
<1> QED BY <1>9 DEF f, g

(* A round of the loop over the close handlers.                             *)
LEMMA ProceedCore ==
  ASSUME NEW cs, NEW hd, NEW t \in Threads, NEW c \in Conns, NEW hooks \in Seq(Users),
         Core(cs, hd, list, task, frame, abort), Failing(cs, list, task, t, c),
         Proceed(t, c, cs, hooks)
  PROVE  Core(conns', hd, list', task', frame, abort')
<1>1. CASE hooks = <<>> \/ cs[c].closed
  <2>1. /\ conns' = Closed(cs, c) /\ list' = Removed(list, c)
        /\ task' = [task EXCEPT ![t] = Idle] /\ abort' = TRUE
    BY <1>1 DEF Proceed, Closed, AbortOnRemove
  <2> QED BY <2>1, EndCore
<1>2. CASE ~(hooks = <<>> \/ cs[c].closed)
  <2>1. /\ conns' = cs /\ list' = list /\ abort' = abort
        /\ task' = [task EXCEPT ![t] = [at |-> "callback", conn |-> c, hooks |-> hooks]]
    BY <1>2 DEF Proceed
  <2> QED BY <1>2, <2>1, CallCore
<1> QED BY <1>1, <1>2

(* CMConnection_failed by a thread that is in no other operation.           *)
LEMMA FailCore ==
  ASSUME NEW t \in Threads, NEW c \in Conns, Core(conns, held, list, task, frame, abort),
         conns[c].used, task[t] = Idle, Fail(t, c)
  PROVE  Core(conns', held, list', task', frame, abort')
<1>1. CASE conns[c].failed
  <2>1. conns' = conns /\ list' = list /\ abort' = abort /\ task' = task
    BY <1>1 DEF Fail
  <2> QED BY <2>1
<1>2. CASE ~conns[c].failed
  <2>1. Proceed(t, c, Broken(conns, c), conns[c].hooks)
    BY <1>2 DEF Fail
  <2>2. /\ Core(Broken(conns, c), held, list, task, frame, abort)
        /\ Broken(conns, c)[c].failed /\ InList(list, c)
        /\ \A u \in Threads : ~Calls(task[u], c)
    BY <1>2, BrokenCore
  <2>3. task[t].at # "shake" /\ \A d : ~Calls(task[t], d)
    BY DEF Idle, Calls
  <2>4. Failing(Broken(conns, c), list, task, t, c)
    BY <2>2, <2>3 DEF Failing
  <2>5. conns[c].hooks \in Seq(Users)
    BY DEF Core, Types, Connection
  <2> QED BY <2>1, <2>2, <2>4, <2>5, ProceedCore
<1> QED BY <1>1, <1>2

-----------------------------------------------------------------------------
(* Steps that change one holder.                                            *)

(* Fields that nobody counts.                                               *)
LEMMA SameCore ==
  ASSUME NEW cs, NEW hd, NEW ls, NEW tk, NEW fr, NEW ab, Core(cs, hd, ls, tk, fr, ab),
         NEW b \in [Conns -> Connection],
         \A d \in Conns :
           /\ b[d].refs = cs[d].refs /\ b[d].freed = cs[d].freed /\ b[d].used = cs[d].used
           /\ b[d].failed = cs[d].failed /\ b[d].selected = cs[d].selected
           /\ ~cs[d].used => b[d] = cs[d]
  PROVE  Core(b, hd, ls, tk, fr, ab)
<1>1. \A d \in Conns : CountedAt(cs, hd, ls, tk, fr, d)
  BY DEF Core, Counted
<1>2. ASSUME NEW d \in Conns PROVE CountedAt(b, hd, ls, tk, fr, d)
  <2>1. Refs(b, hd, ls, tk, fr, d) = Refs(cs, hd, ls, tk, fr, d)
    BY DEF Refs
  <2> QED BY <1>1, <2>1 DEF CountedAt
<1>3. Counted(b, hd, ls, tk, fr)
  BY <1>2 DEF Counted
<1>4. Calling(b, ls, tk) /\ Reading(b, ls, fr, ab)
  BY DEF Core, Calling, Reading
<1>5. Types(b, hd, ls, tk, fr)
  BY DEF Core, Types
<1> QED BY <1>3, <1>4, <1>5 DEF Core

(* A user takes one more reference to a connection in use.                  *)
LEMMA HoldCore ==
  ASSUME NEW cs, NEW hd, NEW ls, NEW tk, NEW fr, NEW ab, Core(cs, hd, ls, tk, fr, ab),
         NEW u \in Users, NEW c \in Conns, cs[c].refs >= 1, hd[u] = None, tk[u] = Idle
  PROVE  Core([cs EXCEPT ![c].refs = @ + 1], [hd EXCEPT ![u] = c], ls, tk, fr, ab)
<1> DEFINE b == [cs EXCEPT ![c].refs = @ + 1]
           g == [hd EXCEPT ![u] = c]
<1>1. /\ cs \in [Conns -> Connection] /\ \A d \in Conns : CountedAt(cs, hd, ls, tk, fr, d)
      /\ hd \in [Users -> Conns \cup {None}]
  BY DEF Core, Types, Counted
<1>2. cs[c].refs \in Nat /\ cs[c].used /\ ~cs[c].freed
  BY <1>1, UsedIfHeld
<1>3. /\ b \in [Conns -> Connection] /\ \A d \in Conns : d # c => b[d] = cs[d]
      /\ b[c].refs = cs[c].refs + 1 /\ b[c].used /\ b[c].failed = cs[c].failed
      /\ b[c].selected = cs[c].selected /\ ~b[c].freed
  <2>1. cs[c] \in Connection /\ cs[c].refs + 1 \in Nat
    BY <1>1, <1>2
  <2> QED BY <1>1, <1>2, <2>1 DEF Connection
<1>4. g \in [Users -> Conns \cup {None}] /\ g[u] = c /\ \A w \in Users : w # u => g[w] = hd[w]
  BY <1>1
<1> HIDE DEF b, g
<1>5. None \notin Conns
  BY ConnAssumption
<1>6. Cardinality(Holders(g, c)) = Cardinality(Holders(hd, c)) + 1
  <2>1. hd[u] # c /\ g[u] = c
    BY <1>4, <1>5
  <2>2. \A w \in Users : w # u => g[w] = hd[w]
    BY <1>4
  <2> QED BY <2>1, <2>2, HoldersUpdate
<1>7. ASSUME NEW d \in Conns, d # c PROVE Holders(g, d) = Holders(hd, d)
  <2>1. hd[u] # d /\ g[u] # d
    BY <1>4, <1>5, <1>7
  <2> QED BY <1>4, <2>1 DEF Holders
<1>8. ASSUME NEW d \in Conns PROVE CountedAt(b, g, ls, tk, fr, d)
  <2>1. CASE d # c
    <3>1. Refs(b, g, ls, tk, fr, d) = Refs(cs, hd, ls, tk, fr, d)
      BY <1>3, <1>7, <2>1 DEF Refs
    <3> QED BY <1>1, <1>3, <2>1, <3>1 DEF CountedAt
  <2>2. CASE d = c
    <3> DEFINE h == Cardinality(Holders(hd, c))
               s == Cardinality(Shakers(tk, c))
               f == One(fr.conn = c /\ fr.at = "handler")
               l == One(InList(ls, c))
               k == One(cs[c].used /\ ~cs[c].failed)
    <3>1. h \in Nat /\ s \in Nat /\ f \in {0, 1} /\ l \in {0, 1} /\ k \in {0, 1}
      BY HoldersCount, ShakersCount, OneType
    <3>2. One(b[c].used /\ ~b[c].failed) = k
      BY <1>2, <1>3
    <3>3. /\ Refs(b, g, ls, tk, fr, c) = l + k + (h + 1) + s + f
          /\ Refs(cs, hd, ls, tk, fr, c) = l + k + h + s + f
      BY <1>6, <3>2 DEF Refs
    <3> HIDE DEF h, s, f, l, k
    <3>4. Refs(b, g, ls, tk, fr, c) = Refs(cs, hd, ls, tk, fr, c) + 1
      BY <3>1, <3>3
    <3>5. cs[c].refs = Refs(cs, hd, ls, tk, fr, c)
      BY <1>1 DEF CountedAt
    <3>6. b[c].refs = Refs(b, g, ls, tk, fr, c) /\ b[c].refs # 0
      BY <1>2, <1>3, <3>4, <3>5
    <3>7. CountedAt(b, g, ls, tk, fr, c)
      BY <1>1, <1>2, <1>3, <3>6 DEF CountedAt
    <3> QED BY <2>2, <3>7
  <2> QED BY <2>1, <2>2
<1>9. Calling(b, ls, tk) /\ Reading(b, ls, fr, ab)
  BY <1>3, <1>2 DEF Core, Calling, Reading
<1>10. Types(b, g, ls, tk, fr)
  BY <1>3, <1>4 DEF Core, Types
<1>11. Waiting(g, tk)
  <2>1. tk[u].at # "shake"
    BY DEF Idle
  <2> QED BY <1>4, <2>1 DEF Core, Waiting
<1>12. Core(b, g, ls, tk, fr, ab)
  BY <1>8, <1>9, <1>10, <1>11 DEF Core, Counted
<1> QED BY <1>12 DEF b, g

(* The wait for a handshake ends: its reference becomes the user's.         *)
LEMMA ShakeEndsCore ==
  ASSUME NEW cs, NEW hd, NEW ls, NEW tk, NEW fr, NEW ab, Core(cs, hd, ls, tk, fr, ab),
         NEW u \in Users, tk[u].at = "shake"
  PROVE  Core(cs, [hd EXCEPT ![u] = tk[u].conn], ls, [tk EXCEPT ![u] = Idle], fr, ab)
<1> DEFINE c == tk[u].conn
           g == [hd EXCEPT ![u] = c]
           k == [tk EXCEPT ![u] = Idle]
<1>1. /\ \A d \in Conns : CountedAt(cs, hd, ls, tk, fr, d)
      /\ hd \in [Users -> Conns \cup {None}] /\ tk \in [Threads -> Task]
  BY DEF Core, Types, Counted
<1>2. u \in Threads /\ c \in Conns /\ hd[u] = None /\ None \notin Conns
  BY ConnAssumption DEF Core, Waiting, Threads
<1>3. g \in [Users -> Conns \cup {None}] /\ g[u] = c /\ \A w \in Users : w # u => g[w] = hd[w]
  BY <1>1, <1>2
<1>4. Idle \in Task
  <2>1. <<>> \in Seq(Users)
    BY EmptySeq
  <2> QED BY <2>1 DEF Idle, Task
<1>5. k \in [Threads -> Task] /\ k[u] = Idle /\ \A w \in Threads : w # u => k[w] = tk[w]
  BY <1>1, <1>2, <1>4
<1>6. \A d : (Shakes(tk[u], d) <=> d = c) /\ ~Shakes(k[u], d) /\ ~Calls(k[u], d)
  BY <1>5 DEF Shakes, Calls, Idle
<1> HIDE DEF c, g, k
<1>7. ASSUME NEW d \in Conns, d # c
      PROVE  Holders(g, d) = Holders(hd, d) /\ Shakers(k, d) = Shakers(tk, d)
  <2>1. hd[u] # d /\ g[u] # d
    BY <1>2, <1>3, <1>7
  <2>2. ~Shakes(tk[u], d) /\ ~Shakes(k[u], d)
    BY <1>6, <1>7
  <2>3. Holders(g, d) = Holders(hd, d)
    BY <1>3, <2>1 DEF Holders
  <2>4. Shakers(k, d) = Shakers(tk, d)
    BY <1>5, <2>2 DEF Shakers, Threads
  <2> QED BY <2>3, <2>4
<1>8. Cardinality(Holders(g, c)) = Cardinality(Holders(hd, c)) + 1
  <2>1. hd[u] # c /\ g[u] = c
    BY <1>2, <1>3
  <2>2. \A w \in Users : w # u => g[w] = hd[w]
    BY <1>3
  <2> QED BY <2>1, <2>2, HoldersUpdate
<1>9. Cardinality(Shakers(k, c)) = Cardinality(Shakers(tk, c)) - 1
  <2>1. Shakes(tk[u], c) /\ ~Shakes(k[u], c)
    BY <1>6
  <2>2. \A w \in Threads : w # u => k[w] = tk[w]
    BY <1>5
  <2>3. u \in Threads /\ u \in Users
    BY <1>2
  <2> QED BY <2>1, <2>2, <2>3, ShakersUpdate
<1>10. ASSUME NEW d \in Conns PROVE Refs(cs, g, ls, k, fr, d) = Refs(cs, hd, ls, tk, fr, d)
  <2>1. CASE d # c
    BY <1>7, <2>1 DEF Refs
  <2>2. CASE d = c
    <3> DEFINE h == Cardinality(Holders(hd, c))
               s == Cardinality(Shakers(tk, c))
               f == One(fr.conn = c /\ fr.at = "handler")
               l == One(InList(ls, c))
               e == One(cs[c].used /\ ~cs[c].failed)
    <3>1. h \in Nat /\ s \in Nat /\ f \in {0, 1} /\ l \in {0, 1} /\ e \in {0, 1}
      BY HoldersCount, ShakersCount, OneType
    <3>2. /\ Refs(cs, g, ls, k, fr, c) = l + e + (h + 1) + (s - 1) + f
          /\ Refs(cs, hd, ls, tk, fr, c) = l + e + h + s + f
      BY <1>8, <1>9 DEF Refs
    <3> HIDE DEF h, s, f, l, e
    <3>3. Refs(cs, g, ls, k, fr, c) = Refs(cs, hd, ls, tk, fr, c)
      BY <3>1, <3>2
    <3> QED BY <2>2, <3>3
  <2> QED BY <2>1, <2>2
<1>11. Counted(cs, g, ls, k, fr)
  BY <1>1, <1>10 DEF Counted, CountedAt
<1>12. Calling(cs, ls, k)
  <2>1. Calling(cs, ls, tk)
    BY DEF Core
  <2>2. ASSUME NEW t \in Threads, k[t].at = "callback"
        PROVE  k[t].conn \in Conns /\ cs[k[t].conn].failed /\ InList(ls, k[t].conn)
    <3>1. k[t] = tk[t]
      BY <1>5, <2>2 DEF Idle
    <3> QED BY <2>1, <2>2, <3>1 DEF Calling
  <2>3. ASSUME NEW t \in Threads, NEW v \in Threads, NEW d \in Conns, Calls(k[t], d), Calls(k[v], d)
        PROVE  t = v
    <3>1. k[t] = tk[t] /\ k[v] = tk[v]
      BY <1>5, <1>6, <2>3
    <3> QED BY <2>1, <2>3, <3>1 DEF Calling
  <2> QED BY <2>2, <2>3 DEF Calling
<1>13. Waiting(g, k)
  <2>1. k[u].at \notin {"shake", "callback"}
    BY <1>5 DEF Idle
  <2> QED BY <1>3, <1>5, <2>1 DEF Core, Waiting
<1>14. Types(cs, g, ls, k, fr)
  BY <1>3, <1>5 DEF Core, Types
<1>15. Core(cs, g, ls, k, fr, ab)
  BY <1>11, <1>12, <1>13, <1>14 DEF Core
<1> QED BY <1>15 DEF c, g, k

(* A new connection: the transport, the list and whoever waits for its      *)
(* handshake have it.                                                       *)
LEMMA CreateCore ==
  ASSUME NEW cs, NEW hd, NEW ls, NEW tk, NEW fr, NEW ab, Core(cs, hd, ls, tk, fr, ab),
         NEW c \in Conns, ~cs[c].used,
         NEW e \in Connection, e.used, ~e.failed, ~e.freed,
         NEW k \in [Threads -> Task], Waiting(hd, k),
         e.refs = 2 + Cardinality(Shakers(k, c)),
         \A d \in Conns : d # c => Shakers(k, d) = Shakers(tk, d),
         \A t \in Threads : k[t].at = "callback" => k[t] = tk[t]
  PROVE  Core([cs EXCEPT ![c] = e], hd, Append(ls, c), k, fr, ab)
<1> DEFINE b == [cs EXCEPT ![c] = e]
           l == Append(ls, c)
<1>1. /\ cs \in [Conns -> Connection] /\ \A d \in Conns : CountedAt(cs, hd, ls, tk, fr, d)
      /\ ls \in Seq(Conns) /\ \A i, j \in DOMAIN ls : ls[i] = ls[j] => i = j
  BY DEF Core, Types, Counted
<1>2. b \in [Conns -> Connection] /\ b[c] = e /\ \A d \in Conns : d # c => b[d] = cs[d]
  BY <1>1
<1>3. cs[c].refs = 0 /\ cs[c].refs = Refs(cs, hd, ls, tk, fr, c)
  BY <1>1 DEF CountedAt, Unused
<1>4. ~InList(ls, c) /\ \A u \in Users : hd[u] # c
  BY <1>3, RefsParts
<1>5. /\ l \in Seq(Conns) /\ \A i, j \in DOMAIN l : l[i] = l[j] => i = j
      /\ \A d : InList(l, d) <=> InList(ls, d) \/ d = c
  BY <1>1, <1>4, AppendInList
<1> HIDE DEF b, l
<1>6. ASSUME NEW d \in Conns PROVE CountedAt(b, hd, l, k, fr, d)
  <2>1. CASE d # c
    <3>1. One(InList(l, d)) = One(InList(ls, d))
      BY <1>5, <2>1 DEF One
    <3>2. Refs(b, hd, l, k, fr, d) = Refs(cs, hd, ls, tk, fr, d)
      BY <1>2, <2>1, <3>1 DEF Refs
    <3> QED BY <1>1, <1>2, <1>5, <2>1, <3>2 DEF CountedAt
  <2>2. CASE d = c
    <3> DEFINE f == One(fr.conn = c /\ fr.at = "handler")
               s == Cardinality(Shakers(k, c))
    <3>1. Holders(hd, c) = {}
      BY <1>4 DEF Holders
    <3>2. Cardinality(Holders(hd, c)) = 0
      BY <3>1, FS_EmptySet
    <3>3. ~(fr.conn = c /\ fr.at = "handler")
      BY <1>3, RefsParts
    <3>4. f = 0 /\ s \in Nat
      BY <3>3, OneType, ShakersCount
    <3>5. One(InList(l, c)) = 1 /\ One(b[c].used /\ ~b[c].failed) = 1
      BY <1>2, <1>5, OneType
    <3>6. Refs(b, hd, l, k, fr, c) = 1 + 1 + 0 + s + f
      BY <3>2, <3>5 DEF Refs
    <3> HIDE DEF f
    <3>7. b[c].refs = Refs(b, hd, l, k, fr, c) /\ b[c].refs # 0
      BY <1>2, <3>4, <3>6
    <3>8. CountedAt(b, hd, l, k, fr, c)
      BY <1>2, <1>5, <3>7 DEF CountedAt
    <3> QED BY <2>2, <3>8
  <2> QED BY <2>1, <2>2
<1>7. Calling(b, l, k)
  <2>1. Calling(cs, ls, tk)
    BY DEF Core
  <2>2. ASSUME NEW t \in Threads, k[t].at = "callback"
        PROVE  k[t].conn \in Conns /\ b[k[t].conn].failed /\ InList(l, k[t].conn)
    <3>1. k[t].conn \in Conns /\ cs[k[t].conn].failed /\ InList(ls, k[t].conn)
      BY <2>1, <2>2 DEF Calling
    <3>2. k[t].conn # c
      BY <1>4, <3>1
    <3> QED BY <1>2, <1>5, <3>1, <3>2
  <2>3. ASSUME NEW t \in Threads, NEW v \in Threads, NEW d \in Conns, Calls(k[t], d), Calls(k[v], d)
        PROVE  t = v
    <3>1. k[t] = tk[t] /\ k[v] = tk[v]
      BY <2>3 DEF Calls
    <3> QED BY <2>1, <2>3, <3>1 DEF Calling
  <2> QED BY <2>2, <2>3 DEF Calling
<1>8. Reading(b, l, fr, ab)
  <2>1. Reading(cs, ls, fr, ab)
    BY DEF Core
  <2> QED BY <1>2, <1>5, <2>1 DEF Reading
<1>9. Types(b, hd, l, k, fr)
  BY <1>2, <1>5 DEF Core, Types
<1>10. Core(b, hd, l, k, fr, ab)
  BY <1>5, <1>6, <1>7, <1>8, <1>9 DEF Core, Counted
<1> QED BY <1>10 DEF b, l

(* The reader calls a handler: a reference of its own.                      *)
LEMMA MessageCore ==
  ASSUME NEW cs, NEW hd, NEW ls, NEW tk, NEW fr, NEW ab, Core(cs, hd, ls, tk, fr, ab),
         NEW c \in Conns, cs[c].selected, fr.at = "none"
  PROVE  Core([cs EXCEPT ![c].refs = @ + 1, ![c].messages = 1], hd, ls, tk,
              [conn |-> c, at |-> "handler"], ab)
<1> DEFINE b == [cs EXCEPT ![c].refs = @ + 1, ![c].messages = 1]
           g == [conn |-> c, at |-> "handler"]
<1>1. /\ cs \in [Conns -> Connection] /\ \A d \in Conns : CountedAt(cs, hd, ls, tk, fr, d)
  BY DEF Core, Types, Counted
<1>2. cs[c].used /\ ~cs[c].failed /\ InList(ls, c)
  BY <1>1 DEF CountedAt
<1>3. cs[c].refs \in Nat /\ ~cs[c].freed
  BY <1>1, <1>2, UsedIfHeld
<1>4. /\ b \in [Conns -> Connection] /\ \A d \in Conns : d # c => b[d] = cs[d]
      /\ b[c].refs = cs[c].refs + 1 /\ b[c].used /\ ~b[c].failed
      /\ b[c].selected /\ ~b[c].freed
  <2>1. cs[c] \in Connection /\ cs[c].refs + 1 \in Nat
    BY <1>1, <1>3
  <2> QED BY <1>1, <1>2, <1>3, <2>1 DEF Connection
<1>5. g.conn = c /\ g.at = "handler"
  OBVIOUS
<1> HIDE DEF b
<1>6. ASSUME NEW d \in Conns PROVE CountedAt(b, hd, ls, tk, g, d)
  <2>1. CASE d # c
    <3>1. One(g.conn = d /\ g.at = "handler") = 0 /\ One(fr.conn = d /\ fr.at = "handler") = 0
      BY <2>1, OneType
    <3>2. Refs(b, hd, ls, tk, g, d) = Refs(cs, hd, ls, tk, fr, d)
      <4> HIDE DEF g
      <4> QED BY <1>4, <2>1, <3>1 DEF Refs
    <3> QED BY <1>1, <1>4, <2>1, <3>2 DEF CountedAt
  <2>2. CASE d = c
    <3> DEFINE h == Cardinality(Holders(hd, c))
               s == Cardinality(Shakers(tk, c))
               l == One(InList(ls, c))
    <3>1. h \in Nat /\ s \in Nat /\ l \in {0, 1}
      BY HoldersCount, ShakersCount, OneType
    <3>2. /\ One(b[c].used /\ ~b[c].failed) = 1 /\ One(cs[c].used /\ ~cs[c].failed) = 1
          /\ One(g.conn = c /\ g.at = "handler") = 1
          /\ One(fr.conn = c /\ fr.at = "handler") = 0
      BY <1>2, <1>4, OneType
    <3> HIDE DEF g
    <3>3. /\ Refs(b, hd, ls, tk, g, c) = l + 1 + h + s + 1
          /\ Refs(cs, hd, ls, tk, fr, c) = l + 1 + h + s + 0
      BY <3>2 DEF Refs
    <3> HIDE DEF h, s, l
    <3>4. cs[c].refs = Refs(cs, hd, ls, tk, fr, c)
      BY <1>1 DEF CountedAt
    <3>5. b[c].refs = Refs(b, hd, ls, tk, g, c) /\ b[c].refs # 0
      BY <1>3, <1>4, <3>1, <3>3, <3>4
    <3>6. CountedAt(b, hd, ls, tk, g, c)
      BY <1>2, <1>4, <3>5 DEF CountedAt
    <3> QED BY <2>2, <3>6
  <2> QED BY <2>1, <2>2
<1>7. Calling(b, ls, tk)
  BY <1>2, <1>4 DEF Core, Calling
<1>8. Reading(b, ls, g, ab)
  BY <1>2, <1>4 DEF Reading
<1>9. Types(b, hd, ls, tk, g)
  BY <1>4 DEF Core, Types
<1>10. Core(b, hd, ls, tk, g, ab)
  BY <1>6, <1>7, <1>8, <1>9 DEF Core, Counted
<1> QED BY <1>10 DEF b

(* The handler returns, and with it the reader's reference.                 *)
LEMMA ReturnCore ==
  ASSUME NEW cs, NEW hd, NEW ls, NEW tk, NEW fr, NEW ab, Core(cs, hd, ls, tk, fr, ab),
         fr.at = "handler"
  PROVE  Core(Dereference(cs, fr.conn), hd, ls, tk, [fr EXCEPT !.at = "read"], ab)
<1> DEFINE c == fr.conn
           b == Dereference(cs, c)
           g == [fr EXCEPT !.at = "read"]
<1>1. /\ cs \in [Conns -> Connection] /\ \A d \in Conns : CountedAt(cs, hd, ls, tk, fr, d)
      /\ fr \in [conn : Conns \cup {None}, at : {"none", "handler", "read"}]
      /\ c \in Conns /\ (InList(ls, c) \/ ab)
  BY DEF Core, Types, Counted, Reading
<1>2. g.conn = c /\ g.at = "read" /\ g \in [conn : Conns \cup {None}, at : {"none", "handler", "read"}]
  BY <1>1
<1> HIDE DEF c, g
<1>3. cs[c].refs \in Nat /\ cs[c].refs >= 1 /\ cs[c].used /\ ~cs[c].freed
  BY <1>1, UsedIfHeld DEF c
<1>4. /\ b \in [Conns -> Connection] /\ \A d \in Conns : d # c => b[d] = cs[d]
      /\ b[c].refs = cs[c].refs - 1 /\ b[c].used /\ b[c].failed = cs[c].failed
      /\ b[c].selected = cs[c].selected /\ (b[c].freed <=> b[c].refs = 0)
  BY <1>1, <1>3, DereferenceFields
<1> HIDE DEF b
<1>5. ASSUME NEW d \in Conns PROVE CountedAt(b, hd, ls, tk, g, d)
  <2>1. CASE d # c
    <3>1. ~(g.conn = d /\ g.at = "handler") /\ ~(fr.conn = d /\ fr.at = "handler")
      BY <1>2, <2>1 DEF c
    <3>2. One(g.conn = d /\ g.at = "handler") = 0 /\ One(fr.conn = d /\ fr.at = "handler") = 0
      BY <3>1, OneType
    <3>3. Refs(b, hd, ls, tk, g, d) = Refs(cs, hd, ls, tk, fr, d)
      BY <1>4, <2>1, <3>2 DEF Refs
    <3> QED BY <1>1, <1>4, <2>1, <3>3 DEF CountedAt
  <2>2. CASE d = c
    <3> DEFINE h == Cardinality(Holders(hd, c))
               s == Cardinality(Shakers(tk, c))
               l == One(InList(ls, c))
               e == One(cs[c].used /\ ~cs[c].failed)
    <3>1. h \in Nat /\ s \in Nat /\ l \in {0, 1} /\ e \in {0, 1}
      BY HoldersCount, ShakersCount, OneType
    <3>2. g.at # "handler" /\ fr.conn = c
      BY <1>2 DEF c
    <3>3. /\ One(g.conn = c /\ g.at = "handler") = 0
          /\ One(fr.conn = c /\ fr.at = "handler") = 1
      BY <3>2, OneType
    <3>4. One(b[c].used /\ ~b[c].failed) = e
      BY <1>3, <1>4
    <3>5. /\ Refs(b, hd, ls, tk, g, c) = l + e + h + s + 0
          /\ Refs(cs, hd, ls, tk, fr, c) = l + e + h + s + 1
      BY <3>3, <3>4 DEF Refs
    <3> HIDE DEF h, s, l, e
    <3>6. cs[c].refs = Refs(cs, hd, ls, tk, fr, c)
      BY <1>1 DEF CountedAt
    <3>7. b[c].refs = Refs(b, hd, ls, tk, g, c)
      BY <1>3, <1>4, <3>1, <3>5, <3>6
    <3>8. CountedAt(b, hd, ls, tk, g, c)
      BY <1>1, <1>3, <1>4, <3>7 DEF CountedAt
    <3> QED BY <2>2, <3>8
  <2> QED BY <2>1, <2>2
<1>6. Calling(b, ls, tk)
  BY <1>4, <1>1 DEF Core, Calling
<1>7. Reading(b, ls, g, ab)
  BY <1>1, <1>2, <1>4 DEF Reading
<1>8. Types(b, hd, ls, tk, g)
  BY <1>2, <1>4 DEF Core, Types
<1>9. Core(b, hd, ls, tk, g, ab)
  BY <1>5, <1>6, <1>7, <1>8 DEF Core, Counted
<1> QED BY <1>9 DEF b, c, g

(* The reader is done with the connection: it looked at it only if nobody   *)
(* told it to stop.                                                         *)
LEMMA ReadCore ==
  ASSUME NEW cs, NEW hd, NEW ls, NEW tk, NEW fr, NEW ab, Core(cs, hd, ls, tk, fr, ab),
         fr.at = "read", NEW ab2
  PROVE  /\ Core(cs, hd, ls, tk, NoFrame, ab2)
         /\ ~ab => ~cs[fr.conn].freed
<1>1. /\ cs \in [Conns -> Connection] /\ \A d \in Conns : CountedAt(cs, hd, ls, tk, fr, d)
      /\ fr.conn \in Conns /\ (InList(ls, fr.conn) \/ ab)
  BY DEF Core, Types, Counted, Reading
<1>2. ~ab => ~cs[fr.conn].freed
  BY <1>1, UsedIfHeld
<1>3. ASSUME NEW d \in Conns PROVE CountedAt(cs, hd, ls, tk, NoFrame, d)
  <2>1. ~(NoFrame.conn = d /\ NoFrame.at = "handler") /\ ~(fr.conn = d /\ fr.at = "handler")
    BY DEF NoFrame
  <2>2. One(NoFrame.conn = d /\ NoFrame.at = "handler") = One(fr.conn = d /\ fr.at = "handler")
    BY <2>1 DEF One
  <2>3. Refs(cs, hd, ls, tk, NoFrame, d) = Refs(cs, hd, ls, tk, fr, d)
    BY <2>2 DEF Refs
  <2> QED BY <1>1, <2>3 DEF CountedAt
<1>4. Reading(cs, ls, NoFrame, ab2)
  BY DEF Reading, NoFrame
<1>5. Types(cs, hd, ls, tk, NoFrame)
  BY DEF Core, Types, NoFrame
<1> QED BY <1>2, <1>3, <1>4, <1>5 DEF Core, Counted

-----------------------------------------------------------------------------
(* The users' programs.                                                     *)

LEMMA ProgramTypes ==
  ASSUME RestTypes, NEW u \in Users
  PROVE  /\ program.ops[u] \in Seq(Ops) /\ GivesBack(program.ops[u])
         /\ DOMAIN program.ops[u] = 1..Len(program.ops[u]) /\ Len(program.ops[u]) \in Nat
         /\ pos[u] \in Nat /\ pos[u] >= 1
<1>1. program \in Programs /\ pos[u] \in Nat \ {0}
  BY DEF RestTypes
<1>2. program.ops \in [Users -> Seq(Ops)] /\ GivesBack(program.ops[u])
  BY <1>1, ConnAssumption
<1> QED BY <1>1, <1>2

(* A user that gets a connection has none: it gave back the one before.     *)
LEMMA GetHoldsNone ==
  ASSUME RestTypes, Programmed, NEW u \in Users, At(u, "get")
  PROVE  held[u] = None
<1> DEFINE ops == program.ops[u]
           p == pos[u]
<1>1. p \in DOMAIN ops /\ ops[p] = "get"
  BY DEF At
<1>2. GivesBack(ops) /\ p \in Nat /\ DOMAIN ops \subseteq Nat
  BY ProgramTypes
<1>3. SUFFICES ASSUME GotIt(u) PROVE FALSE
  BY DEF Programmed
<1>4. PICK i \in DOMAIN ops : i < p /\ ops[i] = "get" /\ \A k \in i..(p - 1) : ops[k] # "close"
  BY <1>3 DEF GotIt
<1> HIDE DEF ops, p
<1>5. PICK k \in i..p : ops[k] = "close"
  BY <1>1, <1>2, <1>4 DEF GivesBack
<1>6. k # p
  BY <1>1, <1>5
<1>7. k \in i..(p - 1)
  BY <1>2, <1>5, <1>6
<1> QED BY <1>4, <1>5, <1>7

(* A user that goes on keeps what it has, unless it closes it.              *)
LEMMA GotItMoves ==
  ASSUME RestTypes, NEW u \in Users, program' = program, Done(u), NEW op, op # "close", At(u, op),
         op = "get" \/ GotIt(u)
  PROVE  GotIt(u)'
<1> DEFINE ops == program.ops[u]
           p == pos[u]
<1>1. p \in DOMAIN ops /\ ops[p] = op
  BY DEF At
<1>2. p \in Nat /\ p >= 1 /\ DOMAIN ops \subseteq Nat
  BY ProgramTypes
<1>3. pos'[u] = p + 1 /\ program'.ops[u] = ops
  BY DEF Done, RestTypes
<1>4. SUFFICES \E i \in DOMAIN ops :
                  /\ i < p + 1 /\ ops[i] = "get"
                  /\ \A k \in i..((p + 1) - 1) : ops[k] # "close"
  BY <1>3 DEF GotIt
<1>5. CASE op = "get"
  <2>1. p < p + 1 /\ p..((p + 1) - 1) = {p}
    BY <1>2
  <2> QED BY <1>1, <1>5, <2>1
<1>6. CASE GotIt(u)
  <2>1. PICK i \in DOMAIN ops : i < p /\ ops[i] = "get" /\ \A k \in i..(p - 1) : ops[k] # "close"
    BY <1>6 DEF GotIt
  <2>2. i < p + 1
    BY <1>2, <2>1
  <2>3. \A k \in i..((p + 1) - 1) : k \in i..(p - 1) \/ k = p
    BY <1>2
  <2> QED BY <1>1, <2>1, <2>2, <2>3
<1> QED BY <1>5, <1>6

LEMMA ProgrammedStep ==
  ASSUME RestTypes, Programmed, program' = program, NEW u \in Users,
         \A v \in Users : v # u =>
           /\ pos'[v] = pos[v] /\ (held'[v] = held[v] \/ held'[v] = None)
           /\ task'[v].at = "shake" => task[v].at = "shake",
         held'[u] # None => GotIt(u)', task'[u].at = "shake" => AtGet(u)'
  PROVE  Programmed'
<1>1. ASSUME NEW v \in Users, v # u
      PROVE  (held'[v] # None => GotIt(v)') /\ (task'[v].at = "shake" => AtGet(v)')
  <2>1. pos'[v] = pos[v] /\ program'.ops[v] = program.ops[v]
    BY <1>1
  <2>2. GotIt(v)' <=> GotIt(v)
    BY <2>1 DEF GotIt
  <2>3. AtGet(v)' <=> AtGet(v)
    BY <2>1 DEF AtGet
  <2> QED BY <1>1, <2>2, <2>3 DEF Programmed
<1> QED BY <1>1 DEF Programmed

(* Steps in which no user goes on.                                          *)
LEMMA ProgrammedStays ==
  ASSUME RestTypes, Programmed, program' = program, pos' = pos,
         \A v \in Users :
           /\ held'[v] = held[v] \/ held'[v] = None
           /\ task'[v].at = "shake" => task[v].at = "shake"
  PROVE  Programmed'
<1>1. \A v \in Users : (GotIt(v)' <=> GotIt(v)) /\ (AtGet(v)' <=> AtGet(v))
  BY DEF GotIt, AtGet
<1> QED BY <1>1 DEF Programmed

LEMMA DoneRest ==
  ASSUME RestTypes, NEW u \in Users, program' = program, Done(u), UNCHANGED <<alive, called, touched>>,
         abort' \in BOOLEAN
  PROVE  RestTypes' /\ \A v \in Users : v # u => pos'[v] = pos[v]
<1>1. pos'  \in [Users -> Nat \ {0}] /\ \A v \in Users : v # u => pos'[v] = pos[v]
  <2>1. pos \in [Users -> Nat \ {0}] /\ pos[u] + 1 \in Nat \ {0}
    BY DEF RestTypes
  <2> QED BY <2>1 DEF Done
<1> QED BY <1>1 DEF RestTypes

LEMMA ProceedTasks ==
  ASSUME NEW cs, NEW t \in Threads, NEW c, NEW hooks, Proceed(t, c, cs, hooks),
         task \in [Threads -> Task], abort \in BOOLEAN
  PROVE  /\ \A u \in Threads : task'[u].at = "shake" => task[u].at = "shake"
         /\ abort' \in BOOLEAN
<1>1. abort' \in BOOLEAN
  BY DEF Proceed, AbortOnRemove
<1>2. \/ task' = [task EXCEPT ![t] = Idle]
      \/ task' = [task EXCEPT ![t] = [at |-> "callback", conn |-> c, hooks |-> hooks]]
  BY DEF Proceed
<1> QED BY <1>1, <1>2 DEF Idle

LEMMA FailTasks ==
  ASSUME NEW t \in Threads, NEW c, Fail(t, c), task \in [Threads -> Task], abort \in BOOLEAN
  PROVE  /\ \A u \in Threads : task'[u].at = "shake" => task[u].at = "shake"
         /\ abort' \in BOOLEAN
<1>1. CASE conns[c].failed
  BY <1>1 DEF Fail
<1>2. CASE ~conns[c].failed
  <2>1. Proceed(t, c, Broken(conns, c), conns[c].hooks)
    BY <1>2 DEF Fail
  <2> QED BY <2>1, ProceedTasks
<1> QED BY <1>1, <1>2

-----------------------------------------------------------------------------
(* One lemma per action.                                                    *)

LEMMA UserThread == \A u \in Users : u \in Threads
BY DEF Threads

LEMMA RefsTypes ==
  ASSUME RefsInv
  PROVE  /\ conns \in [Conns -> Connection] /\ held \in [Users -> Conns \cup {None}]
         /\ list \in Seq(Conns) /\ task \in [Threads -> Task] /\ abort \in BOOLEAN
         /\ \A c \in Conns : CountedAt(conns, held, list, task, frame, c)
         /\ None \notin Conns
BY ConnAssumption DEF RefsInv, RestTypes, Core, Types, Counted

LEMMA GetFindsRefs ==
  ASSUME RefsInv, NEW u \in Users, GetFinds(u)
  PROVE  RefsInv'
<1>1. PICK i \in DOMAIN list :
        /\ Usable(list[i])
        /\ held' = [held EXCEPT ![u] = list[i]]
        /\ conns' = [conns EXCEPT ![list[i]].refs = @ + 1]
  BY DEF GetFinds, Matches
<1>2. /\ At(u, "get") /\ task[u] = Idle
      /\ UNCHANGED <<program, task, list, frame, abort, alive, called, touched>> /\ Done(u)
  BY DEF GetFinds, At
<1> DEFINE c == list[i]
<1>3. c \in Conns /\ InList(list, c)
  BY RefsTypes DEF InList
<1>4. conns[c].refs >= 1
  BY <1>3, RefsTypes, UsedIfHeld
<1>5. held[u] = None
  BY <1>2, GetHoldsNone DEF RefsInv
<1> HIDE DEF c
<1>6. Core([conns EXCEPT ![c].refs = @ + 1], [held EXCEPT ![u] = c], list, task, frame, abort)
  BY <1>2, <1>3, <1>4, <1>5, HoldCore DEF RefsInv
<1>7. Core(conns', held', list', task', frame', abort')
  BY <1>1, <1>2, <1>6 DEF c
<1>8. RestTypes' /\ \A v \in Users : v # u => pos'[v] = pos[v]
  BY <1>2, DoneRest, RefsTypes DEF RefsInv
<1>9. GotIt(u)'
  BY <1>2, GotItMoves DEF RefsInv
<1>10. Programmed'
  <2>1. \A v \in Users : v # u => held'[v] = held[v]
    BY <1>1, RefsTypes
  <2>2. task'[u].at # "shake" /\ task' = task
    BY <1>2 DEF Idle
  <2> QED BY <1>2, <1>8, <1>9, <2>1, <2>2, ProgrammedStep DEF RefsInv
<1> QED BY <1>2, <1>7, <1>8, <1>10 DEF RefsInv

(* The structure that CMConnection_create makes.                            *)
LEMMA CreateFields ==
  ASSUME RefsInv, NEW c \in Conns, NEW p \in Peers \cup {None}, NEW user \in BOOLEAN,
         Create(c, p, user)
  PROVE  \E e \in Connection :
           /\ conns' = [conns EXCEPT ![c] = e] /\ list' = Append(list, c) /\ ~conns[c].used
           /\ e.used /\ ~e.failed /\ ~e.freed /\ e.refs = (IF user THEN 3 ELSE 2)
           /\ e.hooks = <<>>
<1> DEFINE n == IF user THEN 3 ELSE 2
           w == IF user THEN "waiting" ELSE "none"
           b == p # None
           e == [Unused EXCEPT !.used = TRUE, !.peer = p, !.refs = n, !.selected = b,
                               !.initiated = user, !.cond = w]
<1>1. n \in Nat /\ w \in {"none", "waiting"} /\ b \in BOOLEAN /\ <<>> \in Seq(Users)
  BY EmptySeq
<1>2. conns' = [conns EXCEPT ![c] = e] /\ list' = Append(list, c) /\ ~conns[c].used
  BY DEF Create
<1> HIDE DEF n, w, b
<1>3. e \in Connection
  BY <1>1 DEF Unused, Connection
<1>4. e.used /\ ~e.failed /\ ~e.freed /\ e.refs = n /\ e.hooks = <<>>
  BY DEF Unused
<1> HIDE DEF e
<1> QED BY <1>2, <1>3, <1>4 DEF n

LEMMA GetInitiatesRefs ==
  ASSUME RefsInv, NEW u \in Users, GetInitiates(u)
  PROVE  RefsInv'
<1>1. /\ At(u, "get") /\ task[u] = Idle /\ u \in Threads
      /\ UNCHANGED <<program, pos, held, frame, abort, alive, called, touched>>
  BY UserThread DEF GetInitiates, At
<1>2. PICK c \in Conns :
        /\ Create(c, program.peer[u], TRUE)
        /\ task' = [task EXCEPT ![u] = [Idle EXCEPT !.at = "shake", !.conn = c]]
  BY DEF GetInitiates
<1>3. program.peer[u] \in Peers \cup {None}
  BY ConnAssumption DEF RefsInv, RestTypes
<1>4. PICK e \in Connection :
        /\ conns' = [conns EXCEPT ![c] = e] /\ list' = Append(list, c) /\ ~conns[c].used
        /\ e.used /\ ~e.failed /\ ~e.freed /\ e.refs = 3
  BY <1>2, <1>3, CreateFields
<1>5. held[u] = None
  BY <1>1, GetHoldsNone DEF RefsInv
<1> DEFINE f == [Idle EXCEPT !.at = "shake", !.conn = c]
           k == [task EXCEPT ![u] = f]
<1>6. f \in Task /\ f.at = "shake" /\ f.conn = c
  <2>1. <<>> \in Seq(Users)
    BY EmptySeq
  <2> QED BY <2>1 DEF Idle, Task
<1> HIDE DEF f
<1>7. k \in [Threads -> Task] /\ k[u] = f /\ \A t \in Threads : t # u => k[t] = task[t]
  BY <1>1, <1>6, RefsTypes
<1>8. task' = k
  BY <1>2 DEF f
<1> HIDE DEF k
<1>9. \A d : ~Shakes(task[u], d) /\ (Shakes(k[u], d) <=> d = c)
  BY <1>1, <1>6, <1>7 DEF Shakes, Idle
<1>10. e.refs = 2 + Cardinality(Shakers(k, c))
  <2>1. Shakers(task, c) = {}
    <3>1. conns[c].refs = 0 /\ conns[c].refs = Refs(conns, held, list, task, frame, c)
      BY <1>4, RefsTypes DEF CountedAt, Unused
    <3>2. \A v \in Users : ~Shakes(task[v], c)
      BY <3>1, RefsParts
    <3> QED BY <3>2 DEF Shakers
  <2>2. Shakers(k, c) = {u}
    <3>1. \A v \in Users : Shakes(k[v], c) <=> v = u
      BY <1>7, <1>9, <2>1, UserThread DEF Shakers
    <3> QED BY <3>1 DEF Shakers
  <2>3. Cardinality({u}) = 1
    BY FS_Singleton
  <2> QED BY <1>4, <2>2, <2>3
<1>11. ASSUME NEW d \in Conns, d # c PROVE Shakers(k, d) = Shakers(task, d)
  <2>1. ~Shakes(k[u], d) /\ ~Shakes(task[u], d)
    BY <1>9, <1>11
  <2> QED BY <1>7, <2>1, UserThread DEF Shakers
<1>12. Waiting(held, k)
  BY <1>5, <1>6, <1>7 DEF RefsInv, Core, Waiting
<1>13. \A t \in Threads : k[t].at = "callback" => k[t] = task[t]
  BY <1>6, <1>7
<1>14. Core([conns EXCEPT ![c] = e], held, Append(list, c), k, frame, abort)
  <2>1. Core(conns, held, list, task, frame, abort)
    BY DEF RefsInv
  <2> QED BY <1>4, <1>7, <1>10, <1>11, <1>12, <1>13, <2>1, CreateCore
<1>15. Core(conns', held', list', task', frame', abort')
  BY <1>1, <1>4, <1>8, <1>14
<1>16. RestTypes'
  BY <1>1 DEF RefsInv, RestTypes
<1>17. Programmed'
  <2>1. AtGet(u)'
    BY <1>1 DEF At, AtGet
  <2>2. GotIt(u)' <=> GotIt(u)
    BY <1>1 DEF GotIt
  <2>3. \A v \in Users : v # u => task'[v] = task[v]
    BY <1>7, <1>8, UserThread
  <2>4. held'[u] # None => GotIt(u)'
    BY <1>1, <1>5
  <2>5. \A v \in Users : v # u => pos'[v] = pos[v] /\ held'[v] = held[v]
    BY <1>1
  <2> QED BY <1>1, <2>1, <2>3, <2>4, <2>5, ProgrammedStep DEF RefsInv
<1> QED BY <1>1, <1>15, <1>16, <1>17 DEF RefsInv

LEMMA GetFailsRefs ==
  ASSUME RefsInv, NEW u \in Users, GetFails(u)
  PROVE  RefsInv'
<1>1. /\ At(u, "get") /\ task[u] = Idle
      /\ UNCHANGED <<program, held, task, conns, list, frame, abort, alive, called, touched>>
      /\ pos' = [pos EXCEPT ![u] = Len(program.ops[u]) + 1]
  BY DEF GetFails, At
<1>2. Len(program.ops[u]) + 1 \in Nat \ {0}
  BY ProgramTypes DEF RefsInv
<1>3. RestTypes' /\ \A v \in Users : v # u => pos'[v] = pos[v]
  BY <1>1, <1>2 DEF RefsInv, RestTypes
<1>4. held[u] = None /\ task[u].at # "shake"
  BY <1>1, GetHoldsNone DEF RefsInv, Idle
<1>5. Programmed'
  BY <1>1, <1>3, <1>4, ProgrammedStep DEF RefsInv
<1>6. Core(conns', held', list', task', frame', abort')
  BY <1>1 DEF RefsInv
<1> QED BY <1>1, <1>3, <1>5, <1>6 DEF RefsInv

LEMMA HandshakeDoneRefs ==
  ASSUME RefsInv, NEW u \in Users, HandshakeDone(u)
  PROVE  RefsInv'
<1> DEFINE c == task[u].conn
           b == [conns EXCEPT ![c].cond = "none"]
<1>1. /\ task[u].at = "shake" /\ conns' = b /\ held' = [held EXCEPT ![u] = c]
      /\ task' = [task EXCEPT ![u] = Idle] /\ Done(u)
      /\ UNCHANGED <<program, list, frame, abort, alive, called, touched>>
      /\ conns[c].cond \in {"signaled", "failed"}
  BY DEF HandshakeDone
<1>2. c \in Conns
  BY <1>1, UserThread DEF RefsInv, Core, Waiting
<1>3. conns[c].used
  <2>1. conns[c].cond # "none"
    BY <1>1
  <2> HIDE DEF c
  <2> QED BY <1>2, <2>1, RefsTypes DEF CountedAt, Unused
<1>4. Core(b, held, list, task, frame, abort)
  <2> HIDE DEF c
  <2>1. /\ b \in [Conns -> Connection]
        /\ \A d \in Conns :
             /\ b[d].refs = conns[d].refs /\ b[d].freed = conns[d].freed /\ b[d].used = conns[d].used
             /\ b[d].failed = conns[d].failed /\ b[d].selected = conns[d].selected
             /\ ~conns[d].used => b[d] = conns[d]
    <3>1. conns \in [Conns -> Connection] /\ conns[c] \in Connection
      BY <1>2, RefsTypes, Zenon
    <3>2. PICK r : r = [conns[c] EXCEPT !.cond = "none"]
      OBVIOUS
    <3>3. /\ r \in Connection /\ r.refs = conns[c].refs /\ r.freed = conns[c].freed
          /\ r.used = conns[c].used /\ r.failed = conns[c].failed
          /\ r.selected = conns[c].selected
      BY <3>1, <3>2 DEF Connection
    <3>4. b = [conns EXCEPT ![c] = r]
      BY <3>1, <3>2
    <3>5. b \in [Conns -> Connection] /\ b[c] = r /\ \A d \in Conns : d # c => b[d] = conns[d]
      BY <1>2, <3>1, <3>3, <3>4
    <3> QED BY <1>3, <3>3, <3>5
  <2> HIDE DEF b
  <2> QED BY <2>1, SameCore DEF RefsInv
<1>5. Core(b, [held EXCEPT ![u] = task[u].conn], list, [task EXCEPT ![u] = Idle], frame, abort)
  <2> HIDE DEF b
  <2> QED BY <1>1, <1>4, ShakeEndsCore
<1>6. Core(conns', held', list', task', frame', abort')
  BY <1>1, <1>5
<1>7. RestTypes' /\ \A v \in Users : v # u => pos'[v] = pos[v]
  BY <1>1, DoneRest, RefsTypes DEF RefsInv
<1>8. GotIt(u)'
  <2>1. pos[u] \in DOMAIN program.ops[u] /\ program.ops[u][pos[u]] = "get"
    BY <1>1 DEF RefsInv, Programmed, AtGet
  <2>2. pos[u] \in Nat /\ pos[u] + 1 \in Nat
    BY ProgramTypes DEF RefsInv
  <2>3. pos'[u] = pos[u] + 1 /\ program' = program
    BY <1>1 DEF Done, RefsInv, RestTypes
  <2>4. pos[u] < pos[u] + 1 /\ pos[u]..((pos[u] + 1) - 1) = {pos[u]}
    BY <2>2
  <2>5. \A k \in pos[u]..(pos'[u] - 1) : program'.ops[u][k] # "close"
    BY <2>1, <2>3, <2>4
  <2> QED BY <2>1, <2>3, <2>4, <2>5 DEF GotIt
<1>9. Programmed'
  <2>1. \A v \in Users : v # u => held'[v] = held[v] /\ task'[v] = task[v]
    BY <1>1, RefsTypes, UserThread
  <2>2. task'[u].at # "shake"
    BY <1>1, RefsTypes, UserThread DEF Idle
  <2> QED BY <1>1, <1>7, <1>8, <2>1, <2>2, ProgrammedStep DEF RefsInv
<1> QED BY <1>1, <1>6, <1>7, <1>9 DEF RefsInv

(* A user goes on with an operation other than "get": it has no connection, *)
(* or it keeps the one it got.                                              *)
LEMMA GoesOn ==
  ASSUME RefsInv, NEW u \in Users, NEW op, op # "close", At(u, op), held[u] = None \/ op # "get",
         Done(u), program' = program, held' = held,
         \A v \in Users : task'[v].at = "shake" => task[v].at = "shake",
         UNCHANGED <<alive, called, touched>>, abort' \in BOOLEAN
  PROVE  RestTypes' /\ Programmed'
<1>1. RestTypes' /\ \A v \in Users : v # u => pos'[v] = pos[v]
  BY DoneRest DEF RefsInv
<1>2. task'[u].at # "shake"
  BY DEF At, Idle
<1>3. held'[u] # None => GotIt(u)'
  <2>1. held[u] # None => GotIt(u)
    BY DEF RefsInv, Programmed
  <2>2. GotIt(u) => GotIt(u)'
    BY GotItMoves DEF RefsInv
  <2> QED BY <2>1, <2>2
<1> QED BY <1>1, <1>2, <1>3, ProgrammedStep DEF RefsInv

(* A user without a connection goes on, whatever it does not do.            *)
LEMMA GoesOnWithout ==
  ASSUME RefsInv, NEW u \in Users, task'[u].at # "shake", held'[u] = None,
         Done(u), program' = program, task' = task,
         \A v \in Users : v # u => held'[v] = held[v],
         UNCHANGED <<abort, alive, called, touched>>
  PROVE  RestTypes' /\ Programmed'
<1>1. RestTypes' /\ \A v \in Users : v # u => pos'[v] = pos[v]
  BY DoneRest, RefsTypes DEF RefsInv
<1> QED BY <1>1, ProgrammedStep DEF RefsInv

LEMMA SkipRefs ==
  ASSUME RefsInv, NEW u \in Users, Skip(u)
  PROVE  RefsInv'
<1>1. /\ task[u] = Idle /\ held[u] = None /\ Done(u)
      /\ UNCHANGED <<program, held, task, conns, list, frame, abort, alive, called, touched>>
  BY DEF Skip, At
<1>2. task'[u].at # "shake"
  BY <1>1 DEF Idle
<1>3. RestTypes' /\ Programmed'
  BY <1>1, <1>2, GoesOnWithout
<1>4. Core(conns', held', list', task', frame', abort')
  BY <1>1 DEF RefsInv
<1> QED BY <1>1, <1>3, <1>4 DEF RefsInv

LEMMA RegisterRefs ==
  ASSUME RefsInv, NEW u \in Users, Register(u)
  PROVE  RefsInv'
<1> DEFINE c == held[u]
           b == [conns EXCEPT ![c].hooks = Append(@, u)]
<1>1. /\ At(u, "register") /\ c # None /\ conns' = b /\ Done(u)
      /\ UNCHANGED <<program, held, task, list, frame, abort, alive, called, touched>>
  BY DEF Register
<1>2. c \in Conns /\ conns[c].refs >= 1
  BY <1>1, RefsTypes, UsedIfHeld
<1>3. conns[c].used /\ Append(conns[c].hooks, u) \in Seq(Users)
  <2> HIDE DEF c
  <2>1. conns[c].hooks \in Seq(Users)
    BY <1>2, RefsTypes DEF Connection
  <2> QED BY <1>2, <2>1, RefsTypes, UsedIfHeld, AppendProperties
<1>4. Core(b, held, list, task, frame, abort)
  <2> HIDE DEF c
  <2>1. /\ b \in [Conns -> Connection]
        /\ \A d \in Conns :
             /\ b[d].refs = conns[d].refs /\ b[d].freed = conns[d].freed /\ b[d].used = conns[d].used
             /\ b[d].failed = conns[d].failed /\ b[d].selected = conns[d].selected
             /\ ~conns[d].used => b[d] = conns[d]
    <3>1. conns \in [Conns -> Connection] /\ conns[c] \in Connection
      BY <1>2, RefsTypes, Zenon
    <3>2. PICK r : r = [conns[c] EXCEPT !.hooks = Append(conns[c].hooks, u)]
      OBVIOUS
    <3>3. /\ r \in Connection /\ r.refs = conns[c].refs /\ r.freed = conns[c].freed
          /\ r.used = conns[c].used /\ r.failed = conns[c].failed
          /\ r.selected = conns[c].selected
      BY <1>3, <3>1, <3>2 DEF Connection
    <3>4. b = [conns EXCEPT ![c] = r]
      BY <3>1, <3>2
    <3>5. b \in [Conns -> Connection] /\ b[c] = r /\ \A d \in Conns : d # c => b[d] = conns[d]
      BY <1>2, <3>1, <3>3, <3>4
    <3> QED BY <1>3, <3>3, <3>5
  <2> HIDE DEF b
  <2> QED BY <2>1, SameCore DEF RefsInv
<1>5. Core(conns', held', list', task', frame', abort')
  BY <1>1, <1>4
<1>6. RestTypes' /\ Programmed'
  <2>1. /\ \A v \in Users : task'[v].at = "shake" => task[v].at = "shake"
        /\ abort' \in BOOLEAN
    BY <1>1, RefsTypes
  <2> QED BY <1>1, <2>1, GoesOn
<1> QED BY <1>1, <1>5, <1>6 DEF RefsInv

LEMMA WriteRefs ==
  ASSUME RefsInv, NEW u \in Users, Write(u)
  PROVE  RefsInv'
<1>1. /\ At(u, "write") /\ Done(u)
      /\ UNCHANGED <<program, held, task, conns, list, frame, abort, alive, called, touched>>
  BY DEF Write
<1>2. RestTypes' /\ Programmed'
  <2>1. /\ \A v \in Users : task'[v].at = "shake" => task[v].at = "shake"
        /\ abort' \in BOOLEAN
    BY <1>1, RefsTypes
  <2> QED BY <1>1, <2>1, GoesOn
<1>3. Core(conns', held', list', task', frame', abort')
  BY <1>1 DEF RefsInv
<1> QED BY <1>1, <1>2, <1>3 DEF RefsInv

LEMMA WriteFailsRefs ==
  ASSUME RefsInv, NEW u \in Users, WriteFails(u)
  PROVE  RefsInv'
<1>1. /\ At(u, "write") /\ held[u] # None /\ Fail(u, held[u]) /\ Done(u) /\ task[u] = Idle
      /\ UNCHANGED <<program, held, frame, alive, called, touched>>
  BY DEF WriteFails, At
<1>2. held[u] \in Conns /\ conns[held[u]].used /\ u \in Threads
  BY <1>1, RefsTypes, UsedIfHeld, UserThread
<1>3. Core(conns', held, list', task', frame, abort')
  BY <1>1, <1>2, FailCore DEF RefsInv
<1>4. /\ \A t \in Threads : task'[t].at = "shake" => task[t].at = "shake"
      /\ abort' \in BOOLEAN
  BY <1>1, <1>2, FailTasks, RefsTypes
<1>5. RestTypes' /\ Programmed'
  BY <1>1, <1>4, UserThread, GoesOn
<1>6. Core(conns', held', list', task', frame', abort')
  BY <1>1, <1>3
<1> QED BY <1>1, <1>5, <1>6 DEF RefsInv

LEMMA CloseRefs ==
  ASSUME RefsInv, NEW u \in Users, Close(u)
  PROVE  RefsInv'
<1>1. /\ At(u, "close") /\ held[u] # None /\ conns' = Closed(conns, held[u])
      /\ held' = [held EXCEPT ![u] = None] /\ Done(u) /\ task[u] = Idle
      /\ UNCHANGED <<program, task, list, frame, abort, alive, called, touched>>
  BY DEF Close, At
<1>2. held[u] \in Conns
  BY <1>1, RefsTypes
<1>3. Core(conns', held', list, task, frame, abort)
  BY <1>1, <1>2, ClosedCore DEF RefsInv
<1>4. Core(conns', held', list', task', frame', abort')
  BY <1>1, <1>3
<1>5. /\ held'[u] = None /\ task'[u].at # "shake"
      /\ \A v \in Users : v # u => held'[v] = held[v]
  BY <1>1, RefsTypes DEF Idle
<1>6. RestTypes' /\ Programmed'
  BY <1>1, <1>5, GoesOnWithout
<1> QED BY <1>1, <1>4, <1>6 DEF RefsInv

LEMMA CloseHandlerRefs ==
  ASSUME RefsInv, NEW t \in Threads, CloseHandler(t)
  PROVE  RefsInv'
<1> DEFINE c == task[t].conn
           hs == task[t].hooks
           u == Head(hs)
           closes == u \in program.closers /\ held[u] = c
<1>1. /\ task[t].at = "callback"
      /\ called' = [called EXCEPT ![c] = Append(@, u)]
      /\ held' = IF closes THEN [held EXCEPT ![u] = None] ELSE held
      /\ Proceed(t, c, IF closes THEN Closed(conns, c) ELSE conns, Tail(hs))
      /\ UNCHANGED <<program, pos, frame, alive, touched>>
  BY DEF CloseHandler
<1>2. /\ c \in Conns /\ conns[c].failed /\ InList(list, c)
      /\ \A v \in Threads : Calls(task[v], c) => v = t
      /\ \A d \in Conns : Calls(task[t], d) => d = c
      /\ task[t].at # "shake"
  BY <1>1 DEF RefsInv, Core, Calling, Calls
<1>3. hs \in Seq(Users)
  BY RefsTypes DEF Task
<1>4. hs # <<>>
  BY <1>1 DEF RefsInv, Core, Waiting
<1>5. u \in Users /\ Tail(hs) \in Seq(Users)
  <2> HIDE DEF hs
  <2> QED BY <1>3, <1>4, HeadTailProperties
<1> HIDE DEF c, hs, u, closes
<1>6. called' \in [Conns -> Seq(Users)]
  <2>1. called \in [Conns -> Seq(Users)]
    BY DEF RefsInv, RestTypes
  <2>2. Append(called[c], u) \in Seq(Users)
    BY <1>2, <1>5, <2>1, AppendProperties
  <2> QED BY <1>1, <2>1, <2>2
<1>7. Core(conns', held', list', task', frame', abort')
  <2>1. Core(conns, held, list, task, frame, abort)
    BY DEF RefsInv
  <2>2. CASE closes
    <3>1. held[u] = c
      BY <2>2 DEF closes
    <3>2. /\ Core(Closed(conns, c), [held EXCEPT ![u] = None], list, task, frame, abort)
          /\ Closed(conns, c)[c].failed
      BY <1>2, <1>5, <2>1, <3>1, ClosedCore
    <3>3. Failing(Closed(conns, c), list, task, t, c)
      BY <1>2, <3>2 DEF Failing
    <3>4. Proceed(t, c, Closed(conns, c), Tail(hs)) /\ held' = [held EXCEPT ![u] = None]
      BY <1>1, <2>2
    <3> QED BY <1>1, <1>2, <1>5, <3>2, <3>3, <3>4, ProceedCore
  <2>3. CASE ~closes
    <3>1. Failing(conns, list, task, t, c)
      BY <1>2 DEF Failing
    <3>2. Proceed(t, c, conns, Tail(hs)) /\ held' = held
      BY <1>1, <2>3
    <3> QED BY <1>1, <1>2, <1>5, <2>1, <3>1, <3>2, ProceedCore
  <2> QED BY <2>2, <2>3
<1>8. /\ \A v \in Threads : task'[v].at = "shake" => task[v].at = "shake"
      /\ abort' \in BOOLEAN
  BY <1>1, RefsTypes, ProceedTasks
<1>9. \A v \in Users : held'[v] = held[v] \/ held'[v] = None
  BY <1>1, RefsTypes
<1>10. Programmed'
  BY <1>1, <1>8, <1>9, UserThread, ProgrammedStays DEF RefsInv
<1>11. RestTypes'
  BY <1>1, <1>6, <1>8 DEF RefsInv, RestTypes
<1> QED BY <1>1, <1>7, <1>10, <1>11 DEF RefsInv

LEMMA AcceptRefs ==
  ASSUME RefsInv, NEW p \in Peers, Accept(p)
  PROVE  RefsInv'
<1>1. UNCHANGED <<program, pos, held, task, frame, abort, alive, called, touched>>
  BY DEF Accept
<1>2. PICK c \in Conns, heard \in BOOLEAN : Create(c, IF heard THEN p ELSE None, FALSE)
  BY DEF Accept
<1>3. (IF heard THEN p ELSE None) \in Peers \cup {None}
  OBVIOUS
<1>4. PICK e \in Connection :
        /\ conns' = [conns EXCEPT ![c] = e] /\ list' = Append(list, c) /\ ~conns[c].used
        /\ e.used /\ ~e.failed /\ ~e.freed /\ e.refs = 2
  BY <1>2, <1>3, CreateFields
<1>5. e.refs = 2 + Cardinality(Shakers(task, c))
  <2>1. conns[c].refs = 0 /\ conns[c].refs = Refs(conns, held, list, task, frame, c)
    BY <1>4, RefsTypes DEF CountedAt, Unused
  <2>2. \A v \in Users : ~Shakes(task[v], c)
    BY <2>1, RefsParts
  <2>3. Shakers(task, c) = {}
    BY <2>2 DEF Shakers
  <2>4. Cardinality(Shakers(task, c)) = 0
    BY <2>3, FS_EmptySet
  <2> QED BY <1>4, <2>4
<1>6. Core([conns EXCEPT ![c] = e], held, Append(list, c), task, frame, abort)
  <2>1. /\ Core(conns, held, list, task, frame, abort) /\ Waiting(held, task)
        /\ task \in [Threads -> Task]
    BY RefsTypes DEF RefsInv, Core
  <2> QED BY <1>4, <1>5, <2>1, CreateCore
<1>7. Core(conns', held', list', task', frame', abort')
  BY <1>1, <1>4, <1>6
<1>8. Programmed'
  BY <1>1, ProgrammedStays DEF RefsInv
<1>9. RestTypes'
  BY <1>1 DEF RefsInv, RestTypes
<1> QED BY <1>1, <1>7, <1>8, <1>9 DEF RefsInv

(* What the network thread does to a connection and its frame only.         *)
LEMMA NetworkRefs ==
  ASSUME RefsInv, UNCHANGED <<program, pos, held, task, alive, called>>,
         abort' \in BOOLEAN, touched' = FALSE,
         Core(conns', held', list', task', frame', abort')
  PROVE  RefsInv'
<1>1. Programmed'
  BY ProgrammedStays DEF RefsInv
<1>2. RestTypes'
  BY DEF RefsInv, RestTypes
<1> QED BY <1>1, <1>2 DEF RefsInv

LEMMA HandshakeArrivesRefs ==
  ASSUME RefsInv, NEW c \in Conns, HandshakeArrives(c)
  PROVE  RefsInv'
<1> DEFINE w == IF conns[c].cond = "waiting" THEN "signaled" ELSE conns[c].cond
           b == [conns EXCEPT ![c].remote = TRUE, ![c].cond = w]
<1>1. /\ conns[c].selected /\ conns' = b
      /\ UNCHANGED <<program, pos, held, task, list, frame, abort, alive, called, touched>>
  BY DEF HandshakeArrives, Heard
<1>2. conns[c].used
  BY <1>1, RefsTypes DEF CountedAt
<1>3. w \in {"none", "waiting", "signaled", "failed"}
  BY RefsTypes DEF Connection
<1> HIDE DEF w
<1>4. /\ b \in [Conns -> Connection]
      /\ \A d \in Conns :
           /\ b[d].refs = conns[d].refs /\ b[d].freed = conns[d].freed /\ b[d].used = conns[d].used
           /\ b[d].failed = conns[d].failed /\ b[d].selected = conns[d].selected
           /\ ~conns[d].used => b[d] = conns[d]
  <2> DEFINE r == [conns[c] EXCEPT !.remote = TRUE, !.cond = w]
  <2>1. conns[c] \in Connection
    BY RefsTypes
  <2>2. r \in Connection
    BY <1>3, <2>1 DEF Connection
  <2>3. /\ r.refs = conns[c].refs /\ r.freed = conns[c].freed /\ r.used = conns[c].used
        /\ r.failed = conns[c].failed /\ r.selected = conns[c].selected
    BY <2>1 DEF Connection
  <2>4. b = [conns EXCEPT ![c] = r]
    BY RefsTypes
  <2> HIDE DEF r, b
  <2> QED BY <1>2, <2>2, <2>3, <2>4, RefsTypes
<1> HIDE DEF b
<1>5. Core(b, held, list, task, frame, abort)
  BY <1>4, SameCore DEF RefsInv
<1>6. Core(conns', held', list', task', frame', abort')
  BY <1>1, <1>5
<1> QED BY <1>1, <1>6, NetworkRefs, RefsTypes DEF RefsInv, RestTypes

LEMMA MessageArrivesRefs ==
  ASSUME RefsInv, NEW c \in Conns, MessageArrives(c)
  PROVE  RefsInv'
<1>1. /\ conns[c].selected /\ frame = NoFrame
      /\ conns' = [conns EXCEPT ![c].refs = @ + 1, ![c].messages = 1]
      /\ frame' = [conn |-> c, at |-> "handler"]
      /\ UNCHANGED <<program, pos, held, task, list, abort, alive, called, touched>>
  BY DEF MessageArrives, Heard, NetIdle
<1>2. frame.at = "none"
  BY <1>1 DEF NoFrame
<1>3. Core([conns EXCEPT ![c].refs = @ + 1, ![c].messages = 1], held, list, task,
           [conn |-> c, at |-> "handler"], abort)
  BY <1>1, <1>2, MessageCore DEF RefsInv
<1>4. Core(conns', held', list', task', frame', abort')
  BY <1>1, <1>3
<1> QED BY <1>1, <1>4, NetworkRefs, RefsTypes DEF RefsInv, RestTypes

LEMMA HandlerReturnsRefs ==
  ASSUME RefsInv, HandlerReturns
  PROVE  RefsInv'
<1>1. /\ frame.at = "handler" /\ conns' = Dereference(conns, frame.conn)
      /\ frame' = [frame EXCEPT !.at = "read"]
      /\ UNCHANGED <<program, pos, held, task, list, abort, alive, called, touched>>
  BY DEF HandlerReturns
<1>2. Core(Dereference(conns, frame.conn), held, list, task, [frame EXCEPT !.at = "read"], abort)
  BY <1>1, ReturnCore DEF RefsInv
<1>3. Core(conns', held', list', task', frame', abort')
  BY <1>1, <1>2
<1> QED BY <1>1, <1>3, NetworkRefs, RefsTypes DEF RefsInv, RestTypes

LEMMA ReadAheadRefs ==
  ASSUME RefsInv, ReadAhead
  PROVE  RefsInv'
<1>1. /\ frame.at = "read" /\ touched' = (touched \/ (~abort /\ conns[frame.conn].freed))
      /\ abort' = FALSE /\ frame' = NoFrame
      /\ UNCHANGED <<program, pos, held, task, conns, list, alive, called>>
  BY DEF ReadAhead
<1>2. /\ Core(conns, held, list, task, NoFrame, abort')
      /\ ~abort => ~conns[frame.conn].freed
  <2>1. Core(conns, held, list, task, frame, abort)
    BY DEF RefsInv
  <2> QED BY <1>1, <2>1, ReadCore
<1>3. Core(conns', held', list', task', frame', abort') /\ abort' \in BOOLEAN
  BY <1>1, <1>2
<1>4. touched' = FALSE
  BY <1>1, <1>2 DEF RefsInv
<1> QED BY <1>1, <1>3, <1>4, NetworkRefs

(* A failure that the network thread meets.                                 *)
LEMMA NetFailRefs ==
  ASSUME RefsInv, NEW c \in Conns, conns[c].used, task[Net] = Idle, Fail(Net, c),
         UNCHANGED <<program, pos, held, frame, alive, called, touched>>
  PROVE  RefsInv'
<1>1. Net \in Threads
  BY DEF Threads
<1>2. Core(conns', held, list', task', frame, abort')
  BY <1>1, FailCore DEF RefsInv
<1>3. Core(conns', held', list', task', frame', abort')
  BY <1>2
<1>4. /\ \A t \in Threads : task'[t].at = "shake" => task[t].at = "shake"
      /\ abort' \in BOOLEAN
  BY <1>1, FailTasks, RefsTypes
<1>5. Programmed'
  BY <1>4, UserThread, ProgrammedStays DEF RefsInv
<1>6. RestTypes'
  BY <1>4 DEF RefsInv, RestTypes
<1> QED BY <1>3, <1>5, <1>6 DEF RefsInv

LEMMA AnswerFailsRefs ==
  ASSUME RefsInv, AnswerFails
  PROVE  RefsInv'
<1>1. /\ frame.at = "handler" /\ task[Net] = Idle /\ Fail(Net, frame.conn)
      /\ UNCHANGED <<program, pos, held, frame, alive, called, touched>>
  BY DEF AnswerFails
<1>2. frame.conn \in Conns /\ conns[frame.conn].used
  BY <1>1 DEF RefsInv, Core, Reading
<1> QED BY <1>1, <1>2, NetFailRefs

LEMMA EofRefs ==
  ASSUME RefsInv, NEW c \in Conns, Eof(c)
  PROVE  RefsInv'
<1>1. /\ conns[c].selected /\ task[Net] = Idle /\ Fail(Net, c)
      /\ UNCHANGED <<program, pos, held, frame, alive, called, touched>>
  BY DEF Eof, Heard, NetIdle
<1>2. conns[c].used
  BY <1>1, RefsTypes DEF CountedAt
<1> QED BY <1>1, <1>2, NetFailRefs

LEMMA PeerDiesRefs ==
  ASSUME RefsInv, NEW p \in Peers, PeerDies(p)
  PROVE  RefsInv'
<1>1. /\ alive' = alive \ {p}
      /\ UNCHANGED <<program, pos, held, task, conns, list, frame, abort, called, touched>>
  BY DEF PeerDies
<1>2. Programmed'
  BY <1>1, ProgrammedStays DEF RefsInv
<1>3. RestTypes'
  BY <1>1 DEF RefsInv, RestTypes
<1>4. Core(conns', held', list', task', frame', abort')
  BY <1>1 DEF RefsInv
<1> QED BY <1>1, <1>2, <1>3, <1>4 DEF RefsInv

LEMMA InitRefs == Init => RefsInv
<1> SUFFICES ASSUME Init PROVE RefsInv
  OBVIOUS
<1>0. <<>> \in Seq(Users) /\ <<>> \in Seq(Conns) /\ DOMAIN <<>> = {}
  BY EmptySeq
<1>1. RestTypes
  <2>1. pos \in [Users -> Nat \ {0}] /\ called \in [Conns -> Seq(Users)]
    BY <1>0 DEF Init
  <2> QED BY <2>1 DEF Init, RestTypes
<1>2. Programmed
  <2>1. \A u \in Users : held[u] = None /\ task[u] = Idle
    BY UserThread DEF Init
  <2> QED BY <2>1 DEF Programmed, Idle
<1>3. Types(conns, held, list, task, frame)
  <2>1. Unused \in Connection
    BY <1>0 DEF Unused, Connection
  <2>2. Idle \in Task /\ NoFrame \in [conn : Conns \cup {None}, at : {"none", "handler", "read"}]
    BY <1>0 DEF Idle, Task, NoFrame
  <2> QED BY <1>0, <2>1, <2>2 DEF Init, Types
<1>4. ASSUME NEW c \in Conns PROVE CountedAt(conns, held, list, task, frame, c)
  <2>1. conns[c] = Unused
    BY DEF Init
  <2>2. ~InList(list, c)
    BY <1>0 DEF Init, InList
  <2>3. Holders(held, c) = {}
    BY ConnAssumption DEF Init, Holders
  <2>4. Shakers(task, c) = {}
    BY UserThread DEF Init, Shakers, Shakes, Idle
  <2>5. Cardinality(Holders(held, c)) = 0 /\ Cardinality(Shakers(task, c)) = 0
    BY <2>3, <2>4, FS_EmptySet
  <2>6. /\ One(InList(list, c)) = 0 /\ One(conns[c].used /\ ~conns[c].failed) = 0
        /\ One(frame.conn = c /\ frame.at = "handler") = 0
    <3>1. ~(conns[c].used /\ ~conns[c].failed) /\ ~(frame.conn = c /\ frame.at = "handler")
      BY <2>1 DEF Init, Unused, NoFrame
    <3> QED BY <2>2, <3>1, OneType
  <2>7. Refs(conns, held, list, task, frame, c) = 0
    BY <2>5, <2>6 DEF Refs
  <2>8. /\ conns[c].refs = 0 /\ ~conns[c].freed /\ ~conns[c].used /\ ~conns[c].selected
    BY <2>1 DEF Unused
  <2> QED BY <2>1, <2>7, <2>8 DEF CountedAt
<1>5. Calling(conns, list, task) /\ Waiting(held, task)
  <2>1. \A t \in Threads : task[t] = Idle
    BY DEF Init
  <2>2. Idle.at = "idle"
    BY DEF Idle
  <2> QED BY <2>1, <2>2 DEF Calling, Waiting, Calls
<1>6. Reading(conns, list, frame, abort)
  BY DEF Init, Reading, NoFrame
<1>7. \A i, j \in DOMAIN list : list[i] = list[j] => i = j
  BY <1>0 DEF Init
<1>8. Core(conns, held, list, task, frame, abort)
  BY <1>3, <1>4, <1>5, <1>6, <1>7 DEF Core, Counted
<1> QED BY <1>1, <1>2, <1>8 DEF RefsInv, Init

LEMMA StepRefs == RefsInv /\ [Next]_vars => RefsInv'
<1> SUFFICES ASSUME RefsInv, [Next]_vars PROVE RefsInv'
  OBVIOUS
<1>1. ASSUME NEW u \in Users, User(u) PROVE RefsInv'
  BY <1>1, GetFindsRefs, GetInitiatesRefs, GetFailsRefs, HandshakeDoneRefs, SkipRefs,
     RegisterRefs, WriteRefs, WriteFailsRefs, CloseRefs DEF User
<1>2. ASSUME NEW c \in Conns, Network(c) PROVE RefsInv'
  BY <1>2, HandshakeArrivesRefs, MessageArrivesRefs, EofRefs DEF Network
<1>3. ASSUME NEW t \in Threads, CloseHandler(t) PROVE RefsInv'
  BY <1>3, CloseHandlerRefs
<1>4. CASE AnswerFails \/ HandlerReturns \/ ReadAhead
  BY <1>4, AnswerFailsRefs, HandlerReturnsRefs, ReadAheadRefs
<1>5. ASSUME NEW p \in Peers, Accept(p) \/ PeerDies(p) PROVE RefsInv'
  BY <1>5, AcceptRefs, PeerDiesRefs
<1>6. CASE UNCHANGED vars
  <2>1. UNCHANGED <<program, pos, held, task, conns, list, frame, abort, alive, called, touched>>
    BY <1>6 DEF vars
  <2>2. Programmed' /\ RestTypes'
    BY <2>1, ProgrammedStays DEF RefsInv, RestTypes
  <2>3. Core(conns', held', list', task', frame', abort')
    BY <2>1 DEF RefsInv
  <2> QED BY <2>1, <2>2, <2>3 DEF RefsInv
<1> QED BY <1>1, <1>2, <1>3, <1>4, <1>5, <1>6 DEF Next

LEMMA RefsInvSound == RefsInv => RefsSound
<1> SUFFICES ASSUME RefsInv PROVE RefsSound
  OBVIOUS
<1>1. TypeOK
  <2>1. Types(conns, held, list, task, frame)
    BY DEF RefsInv, Core
  <2> QED BY <2>1 DEF RefsInv, RestTypes, Types, Task, TypeOK
<1>2. ASSUME NEW c \in Conns
      PROVE  /\ conns[c].refs = References(c)
             /\ conns[c].freed <=> (conns[c].used /\ conns[c].refs = 0)
             /\ conns[c].freed => conns[c].failed
  <2>1. CountedAt(conns, held, list, task, frame, c)
    BY RefsTypes
  <2>2. Cardinality({c} \cap Range(list)) = One(InList(list, c))
    <3>1. c \in Range(list) <=> InList(list, c)
      BY DEF Range, InList
    <3>2. CASE InList(list, c)
      <4>1. {c} \cap Range(list) = {c}
        BY <3>1, <3>2
      <4> QED BY <3>2, <4>1, FS_Singleton, OneType
    <3>3. CASE ~InList(list, c)
      <4>1. {c} \cap Range(list) = {}
        BY <3>1, <3>3
      <4> QED BY <3>3, <4>1, FS_EmptySet, OneType
    <3> QED BY <3>2, <3>3
  <2>3. {u \in Users : task[u].at = "shake" /\ task[u].conn = c} = Shakers(task, c)
    BY DEF Shakers, Shakes
  <2>4. References(c) = Refs(conns, held, list, task, frame, c)
    BY <2>2, <2>3 DEF References, Refs, Count, Holders, HasTransportRef, One
  <2> QED BY <2>1, <2>4, RefsTypes, UsedIfHeld DEF CountedAt
<1>3. ASSUME NEW t \in Threads, task[t].conn # None PROVE ~conns[task[t].conn].freed
  <2>1. task[t].at \in {"shake", "callback"}
    BY <1>3, RefsTypes DEF RefsInv, Core, Waiting, Idle, Task
  <2>2. CASE task[t].at = "shake"
    <3>1. t \in Users /\ task[t].conn \in Conns /\ Shakes(task[t], task[t].conn)
      BY <2>2 DEF RefsInv, Core, Waiting, Shakes
    <3> QED BY <3>1, RefsTypes, UsedIfHeld
  <2>3. CASE task[t].at = "callback"
    <3>1. task[t].conn \in Conns /\ InList(list, task[t].conn)
      BY <2>3 DEF RefsInv, Core, Calling
    <3> QED BY <3>1, RefsTypes, UsedIfHeld
  <2> QED BY <2>1, <2>2, <2>3
<1> QED BY <1>1, <1>2, <1>3 DEF RefsSound, RefsInv

(* The reference count of every connection is the number of those who hold  *)
(* it; a connection is freed when the count is zero, never before it failed *)
(* and never while a thread waits for it, calls its close handlers or is    *)
(* about to look at it.                                                     *)
THEOREM RefsAreSound == Spec => []RefsSound
<1>1. Init => RefsInv
  BY InitRefs
<1>2. RefsInv /\ [Next]_vars => RefsInv'
  BY StepRefs
<1>3. RefsInv => RefsSound
  BY RefsInvSound
<1> QED BY <1>1, <1>2, <1>3, PTL DEF Spec

-----------------------------------------------------------------------------
(* Sharing and close handlers: what a step leaves of a connection.          *)

Older(a, b) ==
  /\ b.peer = a.peer /\ b.initiated = a.initiated
  /\ a.closed => b.closed
  /\ a.failed => b.failed

Aged ==
  \A c \in Conns : Older(conns[c], conns'[c]) /\ (InList(list', c) => InList(list, c))

HooksKept ==
  /\ called' = called
  /\ \A c \in Conns : conns'[c].hooks = conns[c].hooks \/ conns'[c].hooks = <<>>
  /\ \A t \in Threads : task'[t].at = "callback" => task'[t] = task[t]

Proceeds == program' = program /\ \A u \in Users : pos'[u] \in Nat /\ pos'[u] >= pos[u]

Shared == CallsCounted /\ OnePerPeer /\ CalledFailed

LEMMA RegisteredSet ==
  ASSUME RestTypes, NEW u \in Users
  PROVE  /\ IsFiniteSet({i \in DOMAIN program.ops[u] : i < pos[u] /\ program.ops[u][i] = "register"})
         /\ Registered(u) \in Nat
         /\ Registered(u) <= Count({i \in DOMAIN program.ops[u] : program.ops[u][i] = "register"})
<1> DEFINE D == DOMAIN program.ops[u]
           R == {i \in D : program.ops[u][i] = "register"}
           S == {i \in D : i < pos[u] /\ program.ops[u][i] = "register"}
<1>1. IsFiniteSet(D)
  <2>1. D = 1..Len(program.ops[u]) /\ Len(program.ops[u]) \in Nat
    BY ProgramTypes
  <2> DEFINE n == Len(program.ops[u])
  <2> HIDE DEF n
  <2>2. IsFiniteSet(1..n)
    BY <2>1, UpTo DEF n
  <2> HIDE DEF D
  <2> QED BY <2>1, <2>2 DEF n
<1>2. R \in SUBSET D /\ S \in SUBSET R
  OBVIOUS
<1>3. IsFiniteSet(R)
  <2> HIDE DEF R, D
  <2> QED BY <1>1, <1>2, FS_Subset
<1>4. IsFiniteSet(S) /\ Cardinality(S) <= Cardinality(R)
  <2> HIDE DEF R, S
  <2> QED BY <1>2, <1>3, FS_Subset
<1> QED BY <1>4, FS_CardinalityType DEF Registered, Count

LEMMA RegisteredGrows ==
  ASSUME RestTypes, RestTypes', Proceeds, NEW u \in Users
  PROVE  Registered(u)' \in Nat /\ Registered(u)' >= Registered(u)
<1> DEFINE ops == program.ops[u]
           S == {i \in DOMAIN ops : i < pos[u] /\ ops[i] = "register"}
           T == {i \in DOMAIN ops : i < pos'[u] /\ ops[i] = "register"}
<1>1. Registered(u) = Cardinality(S) /\ Registered(u)' = Cardinality(T)
  BY DEF Registered, Proceeds
<1>2. IsFiniteSet(T)
  <2>1. T \in SUBSET DOMAIN ops
    OBVIOUS
  <2>2. DOMAIN ops = 1..Len(ops) /\ Len(ops) \in Nat
    BY ProgramTypes
  <2> DEFINE n == Len(ops)
  <2> HIDE DEF T, ops, n
  <2>3. IsFiniteSet(1..n)
    BY <2>2, UpTo DEF n
  <2>4. IsFiniteSet(DOMAIN ops)
    BY <2>2, <2>3 DEF n
  <2> QED BY <2>1, <2>4, FS_Subset
<1>3. S \in SUBSET T
  <2>1. DOMAIN ops \subseteq Nat /\ pos[u] \in Nat /\ pos'[u] \in Nat /\ pos'[u] >= pos[u]
    BY ProgramTypes DEF Proceeds
  <2> QED BY <2>1
<1> HIDE DEF S, T
<1>4. Cardinality(S) <= Cardinality(T) /\ IsFiniteSet(S)
  BY <1>2, <1>3, FS_Subset
<1>5. Cardinality(T) \in Nat /\ Cardinality(S) \in Nat
  BY <1>2, <1>4, FS_CardinalityType
<1> QED BY <1>1, <1>4, <1>5

LEMMA HooksTypes ==
  ASSUME RefsInv, NEW c \in Conns
  PROVE  /\ conns[c].hooks \in Seq(Users) /\ called[c] \in Seq(Users)
         /\ \A t \in Threads : task[t].hooks \in Seq(Users)
         /\ \A u : CountIn(called[c], u) \in Nat /\ CountIn(conns[c].hooks, u) \in Nat
         /\ \A t \in Threads : \A u : CountIn(task[t].hooks, u) \in Nat
<1>1. conns[c].hooks \in Seq(Users) /\ called[c] \in Seq(Users)
  BY RefsTypes DEF Connection, RefsInv, RestTypes
<1>2. \A t \in Threads : task[t].hooks \in Seq(Users)
  BY RefsTypes DEF Task
<1>3. \A u : CountIn(called[c], u) \in Nat /\ CountIn(conns[c].hooks, u) \in Nat
  BY <1>1, CountType
<1>4. \A t \in Threads : \A u : CountIn(task[t].hooks, u) \in Nat
  BY <1>2, CountType
<1> QED BY <1>1, <1>2, <1>3, <1>4

LEMMA AgedOne ==
  ASSUME OnePerPeer, Aged
  PROVE  OnePerPeer'
<1>1. ASSUME NEW c \in Conns, Open(c)' PROVE Open(c) /\ conns'[c].peer = conns[c].peer
  <2>1. InList(list', c)
    BY <1>1 DEF Open, Range, InList
  <2>2. InList(list, c) /\ Older(conns[c], conns'[c])
    BY <2>1 DEF Aged
  <2>3. c \in Range(list)
    BY <2>2 DEF Range, InList
  <2> QED BY <1>1, <2>2, <2>3 DEF Open, Older
<1> QED BY <1>1 DEF OnePerPeer

LEMMA KeptShared ==
  ASSUME RefsInv, RefsInv', Shared, Aged, HooksKept, Proceeds
  PROVE  Shared'
<1>1. OnePerPeer'
  BY AgedOne DEF Shared
<1>2. CalledFailed'
  BY DEF Shared, CalledFailed, Aged, HooksKept, Older
<1>3. ASSUME NEW c \in Conns, NEW u \in Users
      PROVE  /\ CountIn(called'[c], u) + CountIn(conns'[c].hooks, u) <= Registered(u)'
             /\ \A t \in Threads : task'[t].at = "callback" /\ task'[t].conn = c =>
                  CountIn(called'[c], u) + CountIn(conns'[c].hooks, u)
                    + CountIn(task'[t].hooks, u) <= Registered(u)'
  <2> DEFINE a == CountIn(called[c], u)
             h == CountIn(conns[c].hooks, u)
             g == CountIn(conns'[c].hooks, u)
  <2>1. a \in Nat /\ h \in Nat /\ g \in Nat /\ g <= h
    <3>1. g = h \/ g = 0
      BY CountEmpty DEF HooksKept
    <3> QED BY <3>1, HooksTypes
  <2>2. called'[c] = called[c]
    BY DEF HooksKept
  <2>3. Registered(u)' \in Nat /\ Registered(u) \in Nat /\ Registered(u)' >= Registered(u)
    BY RegisteredGrows, RegisteredSet DEF RefsInv
  <2>4. a + h <= Registered(u)
    BY DEF Shared, CallsCounted
  <2>5. ASSUME NEW t \in Threads, task'[t].at = "callback", task'[t].conn = c
        PROVE  a + g + CountIn(task'[t].hooks, u) <= Registered(u)'
    <3>1. task'[t] = task[t]
      BY <2>5 DEF HooksKept
    <3>2. a + h + CountIn(task[t].hooks, u) <= Registered(u)
      BY <2>5, <3>1 DEF Shared, CallsCounted
    <3>3. CountIn(task[t].hooks, u) \in Nat
      BY HooksTypes
    <3> HIDE DEF a, h, g
    <3> QED BY <2>1, <2>3, <3>1, <3>2, <3>3
  <2>6. a + g <= Registered(u)'
    <3> HIDE DEF a, h, g
    <3> QED BY <2>1, <2>3, <2>4
  <2> QED BY <2>2, <2>5, <2>6
<1>4. CallsCounted'
  BY <1>3 DEF CallsCounted
<1> QED BY <1>1, <1>2, <1>4 DEF Shared

LEMMA OlderTrans ==
  ASSUME NEW a, NEW b, NEW e, Older(a, b), Older(b, e)
  PROVE  Older(a, e)
BY DEF Older

LEMMA OlderSelf == \A a : Older(a, a)
BY DEF Older

LEMMA DereferenceOlder ==
  ASSUME NEW cs \in [Conns -> Connection], NEW c \in Conns, NEW d \in Conns
  PROVE  Older(cs[d], Dereference(cs, c)[d])
<1> DEFINE b == cs[c].freed \/ cs[c].refs = 1
           b2 == cs[c].closed \/ cs[c].refs = 1
           e == [cs[c] EXCEPT !.refs = @ - 1, !.freed = b, !.closed = b2]
<1>1. Dereference(cs, c) = [cs EXCEPT ![c] = e]
  BY DEF Dereference
<1>2. cs[c].closed => b2 = TRUE
  OBVIOUS
<1> HIDE DEF b, b2
<1>3. /\ e.peer = cs[c].peer /\ e.initiated = cs[c].initiated /\ e.failed = cs[c].failed
      /\ e.closed = b2
  BY DEF Connection
<1> HIDE DEF e
<1>4. Older(cs[c], e)
  BY <1>2, <1>3 DEF Older
<1> QED BY <1>1, <1>4, OlderSelf

LEMMA ClosedOlder ==
  ASSUME NEW cs \in [Conns -> Connection], NEW c \in Conns, NEW d \in Conns
  PROVE  Older(cs[d], Closed(cs, c)[d])
<1> DEFINE e == [cs EXCEPT ![c].closed = TRUE]
<1>1. e \in [Conns -> Connection] /\ Older(cs[d], e[d])
  BY ZenonT(90) DEF Connection, Older
<1>2. Closed(cs, c) = Dereference(e, c)
  BY DEF Closed
<1> HIDE DEF e
<1> QED BY <1>1, <1>2, DereferenceOlder, OlderTrans

LEMMA BrokenOlder ==
  ASSUME NEW cs \in [Conns -> Connection], NEW c \in Conns, NEW d \in Conns
  PROVE  Older(cs[d], Broken(cs, c)[d])
<1> DEFINE f == [cs[c] EXCEPT !.failed = TRUE, !.selected = FALSE, !.hooks = <<>>,
                              !.cond = IF @ = "waiting" THEN "failed" ELSE @]
           e == [cs EXCEPT ![c] = f]
<1>1. cs[c] \in Connection /\ <<>> \in Seq(Users)
  BY EmptySeq
<1>2. f \in Connection
  BY <1>1 DEF Connection
<1>3. f.peer = cs[c].peer /\ f.initiated = cs[c].initiated /\ f.closed = cs[c].closed /\ f.failed
  BY <1>1 DEF Connection
<1> HIDE DEF f
<1>4. Older(cs[c], f)
  BY <1>3 DEF Older
<1>5. e \in [Conns -> Connection] /\ Older(cs[d], e[d])
  BY <1>2, <1>4, OlderSelf
<1>6. Broken(cs, c) = Dereference(e, c)
  BY DEF Broken, f
<1> HIDE DEF e
<1> QED BY <1>5, <1>6, DereferenceOlder, OlderTrans

(* A round of the loop over the close handlers.                             *)
LEMMA ProceedAged ==
  ASSUME RefsInv, NEW cs \in [Conns -> Connection], NEW t \in Threads, NEW c \in Conns, NEW hooks,
         cs[c].refs >= 1, Proceed(t, c, cs, hooks), \A d \in Conns : Older(conns[d], cs[d])
  PROVE  /\ Aged
         /\ \A d \in Conns : conns'[d].hooks = cs[d].hooks
         /\ \A u \in Threads : u # t => task'[u] = task[u]
         /\ task'[t].at = "callback" => task'[t].conn = c /\ task'[t].hooks = hooks
<1>1. CASE hooks = <<>> \/ cs[c].closed
  <2>1. /\ conns' = Closed(cs, c) /\ list' = Removed(list, c)
        /\ task' = [task EXCEPT ![t] = Idle]
    BY <1>1 DEF Proceed, Closed
  <2>2. \A d : InList(list', d) => InList(list, d)
    <3>1. list \in Seq(Conns) /\ \A i, j \in DOMAIN list : list[i] = list[j] => i = j
      BY RefsTypes DEF RefsInv, Core
    <3> QED BY <2>1, <3>1, RemoveFirstProperties DEF Removed
  <2>3. Aged
    BY <2>1, <2>2, ClosedOlder, OlderTrans DEF Aged
  <2>4. \A d \in Conns : conns'[d].hooks = cs[d].hooks
    BY <2>1, ClosedFields
  <2>5. \A u \in Threads : u # t => task'[u] = task[u]
    BY <2>1, RefsTypes
  <2>6. task'[t].at # "callback"
    BY <2>1, RefsTypes DEF Idle
  <2> QED BY <2>3, <2>4, <2>5, <2>6
<1>2. CASE ~(hooks = <<>> \/ cs[c].closed)
  <2>1. /\ conns' = cs /\ list' = list
        /\ task' = [task EXCEPT ![t] = [at |-> "callback", conn |-> c, hooks |-> hooks]]
    BY <1>2 DEF Proceed
  <2>2. Aged
    BY <2>1 DEF Aged
  <2> QED BY <2>1, <2>2, RefsTypes
<1> QED BY <1>1, <1>2

LEMMA FailShared ==
  ASSUME RefsInv, RefsInv', Shared, NEW t \in Threads, NEW c \in Conns, conns[c].used,
         task[t] = Idle, Fail(t, c), called' = called, Proceeds
  PROVE  Shared'
<1>1. CASE conns[c].failed
  <2>1. conns' = conns /\ list' = list /\ task' = task
    BY <1>1 DEF Fail
  <2>2. Aged /\ HooksKept
    BY <2>1, OlderSelf DEF Aged, HooksKept
  <2> QED BY <2>2, KeptShared
<1>2. CASE ~conns[c].failed
  <2> DEFINE b == Broken(conns, c)
             hs == conns[c].hooks
  <2>1. Proceed(t, c, b, hs)
    BY <1>2 DEF Fail
  <2>2. conns[c].refs \in Nat /\ conns[c].refs >= 2
    BY <1>2, RefsTypes, UsedIfHeld
  <2>3. /\ b \in [Conns -> Connection] /\ b[c].refs >= 1 /\ b[c].hooks = <<>>
        /\ \A d \in Conns : d # c => b[d].hooks = conns[d].hooks
    BY <2>2, RefsTypes, BrokenFields
  <2>4. \A d \in Conns : Older(conns[d], b[d])
    BY RefsTypes, BrokenOlder
  <2> HIDE DEF b, hs
  <2>5. /\ Aged
        /\ \A d \in Conns : conns'[d].hooks = b[d].hooks
        /\ \A u \in Threads : u # t => task'[u] = task[u]
        /\ task'[t].at = "callback" => task'[t].conn = c /\ task'[t].hooks = hs
    BY <2>1, <2>3, <2>4, ProceedAged
  <2>6. OnePerPeer'
    BY <2>5, AgedOne DEF Shared
  <2>7. CalledFailed'
    BY <2>5 DEF Shared, CalledFailed, Aged, Older
  <2>8. ASSUME NEW d \in Conns, NEW u \in Users
        PROVE  /\ CountIn(called'[d], u) + CountIn(conns'[d].hooks, u) <= Registered(u)'
               /\ \A v \in Threads : task'[v].at = "callback" /\ task'[v].conn = d =>
                    CountIn(called'[d], u) + CountIn(conns'[d].hooks, u)
                      + CountIn(task'[v].hooks, u) <= Registered(u)'
    <3> DEFINE a == CountIn(called[d], u)
               h == CountIn(conns[d].hooks, u)
               g == CountIn(conns'[d].hooks, u)
    <3>1. a \in Nat /\ h \in Nat
      BY HooksTypes
    <3>2. g = IF d = c THEN 0 ELSE h
      BY <2>3, <2>5, CountEmpty
    <3>3. Registered(u)' \in Nat /\ Registered(u) \in Nat /\ Registered(u)' >= Registered(u)
      BY RegisteredGrows, RegisteredSet DEF RefsInv
    <3>4. a + h <= Registered(u)
      BY DEF Shared, CallsCounted
    <3>5. ASSUME NEW v \in Threads, task'[v].at = "callback", task'[v].conn = d
          PROVE  a + g + CountIn(task'[v].hooks, u) <= Registered(u)'
      <4>1. CASE v # t
        <5>1. task'[v] = task[v]
          BY <2>5, <4>1
        <5>2. a + h + CountIn(task[v].hooks, u) <= Registered(u)
          BY <3>5, <5>1 DEF Shared, CallsCounted
        <5>3. CountIn(task[v].hooks, u) \in Nat
          BY HooksTypes
        <5> HIDE DEF a, h, g
        <5> QED BY <3>1, <3>2, <3>3, <5>1, <5>2, <5>3
      <4>2. CASE v = t
        <5>1. d = c /\ CountIn(task'[v].hooks, u) = h
          BY <2>5, <3>5, <4>2 DEF hs
        <5> HIDE DEF a, h, g
        <5> QED BY <3>1, <3>2, <3>3, <3>4, <5>1
      <4> QED BY <4>1, <4>2
    <3>6. a + g <= Registered(u)'
      <4> HIDE DEF a, h, g
      <4> QED BY <3>1, <3>2, <3>3, <3>4
    <3> QED BY <3>5, <3>6
  <2>9. CallsCounted'
    BY <2>8 DEF CallsCounted
  <2> QED BY <2>6, <2>7, <2>9 DEF Shared
<1> QED BY <1>1, <1>2

LEMMA CloseHandlerShared ==
  ASSUME RefsInv, RefsInv', Shared, NEW t \in Threads, CloseHandler(t)
  PROVE  Shared'
<1> DEFINE c == task[t].conn
           hs == task[t].hooks
           w == Head(hs)
           closes == w \in program.closers /\ held[w] = c
           b == IF closes THEN Closed(conns, c) ELSE conns
<1>1. /\ task[t].at = "callback"
      /\ called' = [called EXCEPT ![c] = Append(@, w)]
      /\ Proceed(t, c, b, Tail(hs))
      /\ UNCHANGED <<program, pos, frame, alive, touched>>
  BY DEF CloseHandler
<1>2. /\ c \in Conns /\ conns[c].failed /\ InList(list, c)
      /\ \A v \in Threads : task[v].at = "callback" /\ task[v].conn = c => v = t
  BY <1>1 DEF RefsInv, Core, Calling, Calls
<1>3. hs \in Seq(Users) /\ hs # <<>>
  BY <1>1, HooksTypes, <1>2 DEF RefsInv, Core, Waiting
<1>4. w \in Users /\ Tail(hs) \in Seq(Users)
  <2> HIDE DEF hs
  <2> QED BY <1>3, HeadTailProperties
<1>5. /\ b \in [Conns -> Connection] /\ b[c].refs >= 1
      /\ \A d \in Conns : Older(conns[d], b[d]) /\ b[d].hooks = conns[d].hooks
  <2> HIDE DEF c, hs, w
  <2>1. conns[c].refs \in Nat /\ conns[c].refs >= 1
    BY <1>2, RefsTypes, UsedIfHeld
  <2>2. CASE closes
    <3>1. conns[c].refs >= 2
      <4>1. held[w] = c
        BY <2>2
      <4>2. conns[c].refs = Refs(conns, held, list, task, frame, c)
        BY <1>2, RefsTypes DEF CountedAt
      <4>3. One(InList(list, c)) = 1 /\ Cardinality(Holders(held, c)) >= 1
        BY <1>2, <1>4, <4>1, OneType, HoldersCount
      <4> DEFINE h == Cardinality(Holders(held, c))
                 s == Cardinality(Shakers(task, c))
                 f == One(frame.conn = c /\ frame.at = "handler")
                 k == One(conns[c].used /\ ~conns[c].failed)
      <4>4. h \in Nat /\ s \in Nat /\ f \in {0, 1} /\ k \in {0, 1}
        BY HoldersCount, ShakersCount, OneType
      <4>5. Refs(conns, held, list, task, frame, c) = One(InList(list, c)) + k + h + s + f
        BY DEF Refs
      <4>6. h >= 1
        BY <4>3
      <4> HIDE DEF h, s, f, k
      <4> QED BY <4>2, <4>3, <4>4, <4>5, <4>6
    <3>2. b = Closed(conns, c)
      BY <2>2
    <3> HIDE DEF b
    <3>3. \A d \in Conns : Older(conns[d], b[d]) /\ b[d].hooks = conns[d].hooks
      BY <1>2, <2>1, <3>2, RefsTypes, ClosedOlder, ClosedFields
    <3> QED BY <1>2, <2>1, <3>1, <3>2, <3>3, RefsTypes, ClosedFields
  <2>3. CASE ~closes
    BY <2>1, <2>3, RefsTypes, OlderSelf
  <2> QED BY <2>2, <2>3
<1> HIDE DEF b
<1>6. /\ Aged
      /\ \A d \in Conns : conns'[d].hooks = b[d].hooks
      /\ \A u \in Threads : u # t => task'[u] = task[u]
      /\ task'[t].at = "callback" => task'[t].conn = c /\ task'[t].hooks = Tail(hs)
  BY <1>1, <1>2, <1>5, ProceedAged
<1> HIDE DEF c, hs, w, closes
<1>7. OnePerPeer'
  BY <1>6, AgedOne DEF Shared
<1>8. called \in [Conns -> Seq(Users)]
  BY DEF RefsInv, RestTypes
<1>9. CalledFailed'
  BY <1>1, <1>2, <1>6, <1>8 DEF Shared, CalledFailed, Aged, Older
<1>10. Proceeds
  BY <1>1, ProgramTypes DEF Proceeds, RefsInv
<1>11. ASSUME NEW d \in Conns, NEW u \in Users
       PROVE  /\ CountIn(called'[d], u) + CountIn(conns'[d].hooks, u) <= Registered(u)'
              /\ \A v \in Threads : task'[v].at = "callback" /\ task'[v].conn = d =>
                   CountIn(called'[d], u) + CountIn(conns'[d].hooks, u)
                     + CountIn(task'[v].hooks, u) <= Registered(u)'
  <2> DEFINE a == CountIn(called[d], u)
             a2 == CountIn(called'[d], u)
             h == CountIn(conns[d].hooks, u)
             r == CountIn(Tail(hs), u)
  <2>1. a \in Nat /\ h \in Nat /\ conns'[d].hooks = conns[d].hooks
    BY <1>5, <1>6, HooksTypes
  <2>2. Registered(u)' \in Nat /\ Registered(u) \in Nat /\ Registered(u)' >= Registered(u)
    BY <1>10, RegisteredGrows, RegisteredSet DEF RefsInv
  <2>3. a + h <= Registered(u)
    BY DEF Shared, CallsCounted
  <2>4. CASE d # c
    <3>1. called'[d] = called[d]
      BY <1>1, <1>8, <2>4
    <3>2. ASSUME NEW v \in Threads, task'[v].at = "callback", task'[v].conn = d
          PROVE  a + h + CountIn(task'[v].hooks, u) <= Registered(u)'
      <4>1. task'[v] = task[v]
        BY <1>6, <2>4, <3>2
      <4>2. a + h + CountIn(task[v].hooks, u) <= Registered(u)
        BY <3>2, <4>1 DEF Shared, CallsCounted
      <4>3. CountIn(task[v].hooks, u) \in Nat
        BY HooksTypes
      <4> HIDE DEF a, h
      <4> QED BY <2>1, <2>2, <4>1, <4>2, <4>3
    <3>3. a + h <= Registered(u)'
      <4> HIDE DEF a, h
      <4> QED BY <2>1, <2>2, <2>3
    <3> QED BY <2>1, <3>1, <3>2, <3>3
  <2>5. CASE d = c
    <3>1. a + h + CountIn(hs, u) <= Registered(u)
      BY <1>1, <2>5 DEF Shared, CallsCounted, c, hs
    <3>2. r \in Nat /\ CountIn(hs, u) = IF u = w THEN r + 1 ELSE r
      BY <1>3, <1>4, CountTail, CountType DEF w
    <3>3. a2 = IF u = w THEN a + 1 ELSE a
      <4>1. called'[d] = Append(called[d], w) /\ called[d] \in Seq(Users)
        BY <1>1, <1>2, <1>8, <2>5
      <4> QED BY <1>4, <4>1, CountAppend
    <3> HIDE DEF a, a2, h, r
    <3>4. a2 + h + r <= Registered(u)' /\ a2 + h <= Registered(u)'
      BY <2>1, <2>2, <3>1, <3>2, <3>3
    <3>5. ASSUME NEW v \in Threads, task'[v].at = "callback", task'[v].conn = d
          PROVE  CountIn(task'[v].hooks, u) = r
      <4>1. v = t
        BY <1>2, <1>6, <2>5, <3>5 DEF c
      <4> QED BY <1>6, <3>5, <4>1 DEF r
    <3> USE DEF a2, h
    <3> QED BY <2>1, <3>4, <3>5
  <2> QED BY <2>4, <2>5
<1>12. CallsCounted'
  BY <1>11 DEF CallsCounted
<1> QED BY <1>7, <1>9, <1>12 DEF Shared

(* A new connection: nobody has registered with it, and it is the only open *)
(* one to its peer.                                                         *)
LEMMA CreateShared ==
  ASSUME RefsInv, RefsInv', Shared, NEW c \in Conns, NEW p \in Peers \cup {None},
         NEW user \in BOOLEAN, Create(c, p, user), called' = called, Proceeds,
         \A t \in Threads : task'[t].at = "callback" => task'[t] = task[t],
         user => \A d \in Conns : Open(d) => conns[d].peer # p
  PROVE  Shared'
<1>1. PICK e \in Connection :
        /\ conns' = [conns EXCEPT ![c] = e] /\ list' = Append(list, c) /\ ~conns[c].used
        /\ e.hooks = <<>>
  BY CreateFields
<1>2. conns'[c].initiated = user /\ conns'[c].peer = p
  BY RefsTypes DEF Create, Unused
<1>3. conns[c] = Unused
  BY <1>1, RefsTypes DEF CountedAt
<1>4. \A d \in Conns : d # c => conns'[d] = conns[d]
  BY <1>1, RefsTypes
<1>5. ASSUME NEW d \in Conns, Open(d)', d # c PROVE Open(d)
  <2>1. InList(list', d)
    BY <1>5 DEF Open, Range, InList
  <2>2. InList(list, d)
    BY <1>1, <1>5, <2>1, RefsTypes, AppendInList
  <2>3. d \in Range(list)
    BY <2>2 DEF Range, InList
  <2> QED BY <1>4, <1>5, <2>3 DEF Open
<1>6. Open(c)' => user
  BY <1>2 DEF Open
<1>7. OnePerPeer'
  <2>1. ASSUME NEW d \in Conns, NEW f \in Conns, Open(d)', Open(f)', conns'[d].peer = conns'[f].peer
        PROVE  d = f
    <3>1. CASE d # c /\ f # c
      <4>1. Open(d) /\ Open(f) /\ conns[d].peer = conns[f].peer
        BY <1>4, <1>5, <2>1, <3>1
      <4> QED BY <4>1 DEF Shared, OnePerPeer
    <3>2. CASE d = c /\ f # c
      <4>1. Open(f) /\ conns[f].peer = p /\ user
        BY <1>2, <1>4, <1>5, <1>6, <2>1, <3>2
      <4> QED BY <4>1
    <3>3. CASE f = c /\ d # c
      <4>1. Open(d) /\ conns[d].peer = p /\ user
        BY <1>2, <1>4, <1>5, <1>6, <2>1, <3>3
      <4> QED BY <4>1
    <3> QED BY <3>1, <3>2, <3>3
  <2> QED BY <2>1 DEF OnePerPeer
<1>8. CalledFailed'
  <2>1. called[c] = <<>>
    BY <1>3 DEF Shared, CalledFailed, Unused
  <2> QED BY <1>4, <2>1 DEF Shared, CalledFailed
<1>9. CallsCounted'
  <2>1. \A d \in Conns : conns'[d].hooks = conns[d].hooks
    <3>1. conns[c].hooks = <<>> /\ conns'[c].hooks = <<>>
      BY <1>1, <1>3, RefsTypes DEF Unused
    <3> QED BY <1>4, <3>1
  <2>2. ASSUME NEW d \in Conns, NEW u \in Users
        PROVE  /\ CountIn(called'[d], u) + CountIn(conns'[d].hooks, u) <= Registered(u)'
               /\ \A v \in Threads : task'[v].at = "callback" /\ task'[v].conn = d =>
                    CountIn(called'[d], u) + CountIn(conns'[d].hooks, u)
                      + CountIn(task'[v].hooks, u) <= Registered(u)'
    <3> DEFINE a == CountIn(called[d], u)
               h == CountIn(conns[d].hooks, u)
    <3>1. a \in Nat /\ h \in Nat
      BY HooksTypes
    <3>2. Registered(u)' \in Nat /\ Registered(u) \in Nat /\ Registered(u)' >= Registered(u)
      BY RegisteredGrows, RegisteredSet DEF RefsInv
    <3>3. a + h <= Registered(u)
      BY DEF Shared, CallsCounted
    <3>4. ASSUME NEW v \in Threads, task'[v].at = "callback", task'[v].conn = d
          PROVE  a + h + CountIn(task'[v].hooks, u) <= Registered(u)'
      <4>1. task'[v] = task[v]
        BY <3>4
      <4>2. a + h + CountIn(task[v].hooks, u) <= Registered(u)
        BY <3>4, <4>1 DEF Shared, CallsCounted
      <4>3. CountIn(task[v].hooks, u) \in Nat
        BY HooksTypes
      <4> HIDE DEF a, h
      <4> QED BY <3>1, <3>2, <4>1, <4>2, <4>3
    <3>5. a + h <= Registered(u)'
      <4> HIDE DEF a, h
      <4> QED BY <3>1, <3>2, <3>3
    <3> QED BY <2>1, <3>4, <3>5
  <2> QED BY <2>2 DEF CallsCounted
<1> QED BY <1>7, <1>8, <1>9 DEF Shared

LEMMA DoneProceeds ==
  ASSUME RefsInv, NEW u \in Users, Done(u), program' = program
  PROVE  Proceeds
<1>1. pos \in [Users -> Nat \ {0}] /\ pos' = [pos EXCEPT ![u] = @ + 1]
  BY DEF RefsInv, RestTypes, Done
<1> QED BY <1>1 DEF Proceeds

LEMMA StaysProceeds ==
  ASSUME RefsInv, pos' = pos, program' = program
  PROVE  Proceeds
BY ProgramTypes DEF Proceeds, RefsInv

LEMMA RegisterShared ==
  ASSUME RefsInv, RefsInv', Shared, NEW u \in Users, Register(u)
  PROVE  Shared'
<1> DEFINE c == held[u]
<1>1. /\ At(u, "register") /\ c # None /\ Done(u)
      /\ conns' = [conns EXCEPT ![c].hooks = Append(@, u)]
      /\ UNCHANGED <<program, held, task, list, frame, abort, alive, called, touched>>
  BY DEF Register
<1>2. c \in Conns
  BY <1>1, RefsTypes
<1> HIDE DEF c
<1>3. /\ \A d \in Conns : d # c => conns'[d] = conns[d]
      /\ conns'[c].hooks = Append(conns[c].hooks, u)
      /\ conns'[c].peer = conns[c].peer /\ conns'[c].initiated = conns[c].initiated
      /\ conns'[c].closed = conns[c].closed /\ conns'[c].failed = conns[c].failed
  BY <1>1, <1>2, RefsTypes DEF Connection
<1>4. Aged
  BY <1>1, <1>3, OlderSelf DEF Aged, Older
<1>5. OnePerPeer' /\ CalledFailed'
  <2>1. OnePerPeer'
    BY <1>4, AgedOne DEF Shared
  <2> QED BY <1>1, <1>4, <2>1 DEF Shared, CalledFailed, Aged, Older
<1>6. Proceeds
  BY <1>1, DoneProceeds
<1>7. Registered(u)' = Registered(u) + 1
  <2> DEFINE ops == program.ops[u]
             p == pos[u]
             S == {i \in DOMAIN ops : i < p /\ ops[i] = "register"}
             T == {i \in DOMAIN ops : i < p + 1 /\ ops[i] = "register"}
  <2>1. p \in DOMAIN ops /\ ops[p] = "register" /\ p \in Nat /\ DOMAIN ops \subseteq Nat
    BY <1>1, ProgramTypes DEF At, RefsInv
  <2>2. pos'[u] = p + 1 /\ program' = program
    BY <1>1 DEF Done, RefsInv, RestTypes
  <2>3. Registered(u) = Cardinality(S) /\ Registered(u)' = Cardinality(T)
    BY <2>2 DEF Registered
  <2>4. IsFiniteSet(S)
    BY RegisteredSet DEF RefsInv
  <2>5. T = S \cup {p} /\ p \notin S
    <3> HIDE DEF ops, p
    <3>1. \A i \in DOMAIN ops : i < p + 1 <=> i < p \/ i = p
      BY <2>1
    <3> QED BY <2>1, <3>1
  <2> HIDE DEF S, T, p
  <2> QED BY <2>3, <2>4, <2>5, FS_AddElement
<1>8. ASSUME NEW d \in Conns, NEW w \in Users
      PROVE  /\ CountIn(called'[d], w) + CountIn(conns'[d].hooks, w) <= Registered(w)'
             /\ \A v \in Threads : task'[v].at = "callback" /\ task'[v].conn = d =>
                  CountIn(called'[d], w) + CountIn(conns'[d].hooks, w)
                    + CountIn(task'[v].hooks, w) <= Registered(w)'
  <2> DEFINE a == CountIn(called[d], w)
             h == CountIn(conns[d].hooks, w)
             g == CountIn(conns'[d].hooks, w)
  <2>1. a \in Nat /\ h \in Nat
    BY HooksTypes
  <2>2. Registered(w)' \in Nat /\ Registered(w) \in Nat /\ Registered(w)' >= Registered(w)
    BY <1>6, RegisteredGrows, RegisteredSet DEF RefsInv
  <2>3. w = u => Registered(w)' = Registered(w) + 1
    BY <1>7
  <2>4. g = h \/ (w = u /\ g = h + 1)
    <3>1. CASE d # c
      BY <1>3, <3>1
    <3>2. CASE d = c
      <4>1. conns[c].hooks \in Seq(Users)
        BY <1>2, HooksTypes
      <4>2. CountIn(Append(conns[c].hooks, u), w) =
              IF w = u THEN CountIn(conns[c].hooks, w) + 1 ELSE CountIn(conns[c].hooks, w)
        BY <4>1, CountAppend
      <4> QED BY <1>3, <3>2, <4>2
    <3> QED BY <3>1, <3>2
  <2>5. a + h <= Registered(w)
    BY DEF Shared, CallsCounted
  <2>6. ASSUME NEW v \in Threads, task'[v].at = "callback", task'[v].conn = d
        PROVE  a + g + CountIn(task'[v].hooks, w) <= Registered(w)'
    <3>1. task'[v] = task[v]
      BY <1>1
    <3>2. a + h + CountIn(task[v].hooks, w) <= Registered(w)
      BY <2>6, <3>1 DEF Shared, CallsCounted
    <3>3. CountIn(task[v].hooks, w) \in Nat
      BY HooksTypes
    <3> HIDE DEF a, h, g
    <3> QED BY <2>1, <2>2, <2>3, <2>4, <3>1, <3>2, <3>3
  <2>7. a + g <= Registered(w)'
    <3> HIDE DEF a, h, g
    <3> QED BY <2>1, <2>2, <2>3, <2>4, <2>5
  <2> QED BY <1>1, <2>6, <2>7
<1>9. CallsCounted'
  BY <1>8 DEF CallsCounted
<1> QED BY <1>5, <1>9 DEF Shared

(* Steps that change fields nobody shares.                                  *)
LEMMA QuietShared ==
  ASSUME RefsInv, RefsInv', Shared, Proceeds, called' = called, list' = list,
         \A d \in Conns : Older(conns[d], conns'[d]) /\ conns'[d].hooks = conns[d].hooks,
         \A t \in Threads : task'[t].at = "callback" => task'[t] = task[t]
  PROVE  Shared'
<1>1. Aged /\ HooksKept
  BY DEF Aged, HooksKept
<1> QED BY <1>1, KeptShared

LEMMA UserShared ==
  ASSUME RefsInv, RefsInv', Shared, NEW u \in Users, User(u)
  PROVE  Shared'
<1>0. u \in Threads
  BY UserThread
<1>1. CASE GetFinds(u)
  <2>1. PICK i \in DOMAIN list : conns' = [conns EXCEPT ![list[i]].refs = @ + 1]
    BY <1>1 DEF GetFinds, Matches
  <2>2. \A d \in Conns : Older(conns[d], conns'[d]) /\ conns'[d].hooks = conns[d].hooks
    BY <2>1, RefsTypes DEF Older, Connection
  <2>3. UNCHANGED <<program, task, list, called>> /\ Done(u)
    BY <1>1 DEF GetFinds
  <2> QED BY <2>2, <2>3, DoneProceeds, QuietShared
<1>2. CASE GetInitiates(u)
  <2>1. PICK c \in Conns :
          /\ Create(c, program.peer[u], TRUE)
          /\ task' = [task EXCEPT ![u] = [Idle EXCEPT !.at = "shake", !.conn = c]]
    BY <1>2 DEF GetInitiates
  <2>2. Matches(u) = {} /\ UNCHANGED <<program, pos, called>>
    BY <1>2 DEF GetInitiates
  <2>3. program.peer[u] \in Peers \cup {None}
    BY ConnAssumption DEF RefsInv, RestTypes
  <2>4. ASSUME NEW d \in Conns, Open(d) PROVE conns[d].peer # program.peer[u]
    <3>1. PICK i \in DOMAIN list : list[i] = d
      BY <2>4 DEF Open, Range
    <3> QED BY <2>2, <2>4, <3>1 DEF Open, Matches, Usable
  <2>5. \A t \in Threads : task'[t].at = "callback" => task'[t] = task[t]
    <3>1. \A t \in Threads : t # u => task'[t] = task[t]
      BY <2>1, RefsTypes
    <3>2. task'[u].at = "shake"
      BY <2>1, <1>0, RefsTypes DEF Idle
    <3> QED BY <3>1, <3>2
  <2>6. TRUE \in BOOLEAN
    OBVIOUS
  <2> QED BY <2>1, <2>2, <2>3, <2>4, <2>5, <2>6, StaysProceeds, CreateShared
<1>3. CASE GetFails(u)
  <2>1. /\ UNCHANGED <<program, task, conns, list, called>> /\ At(u, "get")
        /\ pos' = [pos EXCEPT ![u] = Len(program.ops[u]) + 1]
    BY <1>3 DEF GetFails
  <2>2. Proceeds
    <3>1. /\ pos[u] \in 1..Len(program.ops[u]) /\ Len(program.ops[u]) \in Nat
          /\ \A v \in Users : pos[v] \in Nat
      BY <2>1, ProgramTypes DEF At, RefsInv
    <3>2. pos'[u] = Len(program.ops[u]) + 1 /\ \A v \in Users : v # u => pos'[v] = pos[v]
      BY <2>1 DEF RefsInv, RestTypes
    <3> QED BY <2>1, <3>1, <3>2 DEF Proceeds
  <2> QED BY <2>1, <2>2, OlderSelf, QuietShared
<1>4. CASE HandshakeDone(u)
  <2>1. /\ conns' = [conns EXCEPT ![task[u].conn].cond = "none"]
        /\ task' = [task EXCEPT ![u] = Idle] /\ Done(u) /\ UNCHANGED <<program, list, called>>
    BY <1>4 DEF HandshakeDone
  <2>2. \A d \in Conns : Older(conns[d], conns'[d]) /\ conns'[d].hooks = conns[d].hooks
    BY <2>1, RefsTypes DEF Older, Connection
  <2>3. \A t \in Threads : task'[t].at = "callback" => task'[t] = task[t]
    BY <1>0, <2>1, RefsTypes DEF Idle
  <2> QED BY <2>1, <2>2, <2>3, DoneProceeds, QuietShared
<1>5. CASE Skip(u) \/ Write(u)
  <2>1. Done(u) /\ UNCHANGED <<program, task, conns, list, called>>
    BY <1>5 DEF Skip, Write
  <2> QED BY <2>1, OlderSelf, DoneProceeds, QuietShared
<1>6. CASE Register(u)
  BY <1>6, RegisterShared
<1>7. CASE WriteFails(u)
  <2>1. /\ At(u, "write") /\ held[u] # None /\ Fail(u, held[u]) /\ Done(u) /\ task[u] = Idle
        /\ UNCHANGED <<program, called>>
    BY <1>7 DEF WriteFails, At
  <2>2. held[u] \in Conns /\ conns[held[u]].used
    BY <2>1, RefsTypes, UsedIfHeld
  <2> QED BY <1>0, <2>1, <2>2, DoneProceeds, FailShared
<1>8. CASE Close(u)
  <2>1. /\ held[u] # None /\ conns' = Closed(conns, held[u]) /\ Done(u)
        /\ UNCHANGED <<program, task, list, called>>
    BY <1>8 DEF Close
  <2>2. held[u] \in Conns /\ conns[held[u]].refs >= 1
    BY <2>1, RefsTypes, UsedIfHeld
  <2>3. \A d \in Conns : Older(conns[d], conns'[d]) /\ conns'[d].hooks = conns[d].hooks
    BY <2>1, <2>2, RefsTypes, ClosedOlder, ClosedFields
  <2> QED BY <2>1, <2>3, DoneProceeds, QuietShared
<1> QED BY <1>1, <1>2, <1>3, <1>4, <1>5, <1>6, <1>7, <1>8 DEF User

LEMMA NetworkShared ==
  ASSUME RefsInv, RefsInv', Shared,
         \/ \E c \in Conns : Network(c)
         \/ AnswerFails \/ HandlerReturns \/ ReadAhead
         \/ \E p \in Peers : Accept(p) \/ PeerDies(p)
  PROVE  Shared'
<1>0. Net \in Threads
  BY DEF Threads
<1>1. ASSUME NEW c \in Conns, Network(c) PROVE Shared'
  <2>1. CASE HandshakeArrives(c)
    <3>1. /\ UNCHANGED <<program, pos, task, list, called>>
          /\ conns' = [conns EXCEPT ![c].remote = TRUE,
                                    ![c].cond = IF @ = "waiting" THEN "signaled" ELSE @]
      BY <2>1 DEF HandshakeArrives
    <3>2. \A d \in Conns : Older(conns[d], conns'[d]) /\ conns'[d].hooks = conns[d].hooks
      BY <3>1, RefsTypes DEF Older, Connection
    <3> QED BY <3>1, <3>2, StaysProceeds, QuietShared
  <2>2. CASE MessageArrives(c)
    <3>1. /\ UNCHANGED <<program, pos, task, list, called>>
          /\ conns' = [conns EXCEPT ![c].refs = @ + 1, ![c].messages = 1]
      BY <2>2 DEF MessageArrives
    <3>2. \A d \in Conns : Older(conns[d], conns'[d]) /\ conns'[d].hooks = conns[d].hooks
      BY <3>1, RefsTypes DEF Older, Connection
    <3> QED BY <3>1, <3>2, StaysProceeds, QuietShared
  <2>3. CASE Eof(c)
    <3>1. /\ conns[c].selected /\ task[Net] = Idle /\ Fail(Net, c)
          /\ UNCHANGED <<program, pos, called>>
      BY <2>3 DEF Eof, Heard, NetIdle
    <3>2. conns[c].used
      BY <3>1, RefsTypes DEF CountedAt
    <3> QED BY <1>0, <3>1, <3>2, StaysProceeds, FailShared
  <2> QED BY <1>1, <2>1, <2>2, <2>3 DEF Network
<1>2. CASE AnswerFails
  <2>1. /\ frame.at = "handler" /\ task[Net] = Idle /\ Fail(Net, frame.conn)
        /\ UNCHANGED <<program, pos, called>>
    BY <1>2 DEF AnswerFails
  <2>2. frame.conn \in Conns /\ conns[frame.conn].used
    BY <2>1 DEF RefsInv, Core, Reading
  <2> QED BY <1>0, <2>1, <2>2, StaysProceeds, FailShared
<1>3. CASE HandlerReturns
  <2>1. /\ conns' = Dereference(conns, frame.conn) /\ frame.at = "handler"
        /\ UNCHANGED <<program, pos, task, list, called>>
    BY <1>3 DEF HandlerReturns
  <2>2. frame.conn \in Conns
    BY <2>1 DEF RefsInv, Core, Reading
  <2>3. conns[frame.conn].refs >= 1
    BY <2>1, <2>2, RefsTypes, UsedIfHeld
  <2>4. \A d \in Conns : Older(conns[d], conns'[d]) /\ conns'[d].hooks = conns[d].hooks
    BY <2>1, <2>2, <2>3, RefsTypes, DereferenceOlder, DereferenceFields
  <2> QED BY <2>1, <2>4, StaysProceeds, QuietShared
<1>4. CASE ReadAhead
  <2>1. UNCHANGED <<program, pos, task, conns, list, called>>
    BY <1>4 DEF ReadAhead
  <2> QED BY <2>1, OlderSelf, StaysProceeds, QuietShared
<1>5. ASSUME NEW p \in Peers, Accept(p) PROVE Shared'
  <2>1. PICK c \in Conns, heard \in BOOLEAN : Create(c, IF heard THEN p ELSE None, FALSE)
    BY <1>5 DEF Accept
  <2>2. UNCHANGED <<program, pos, task, called>>
    BY <1>5 DEF Accept
  <2>3. (IF heard THEN p ELSE None) \in Peers \cup {None} /\ FALSE \in BOOLEAN
    OBVIOUS
  <2> QED BY <2>1, <2>2, <2>3, StaysProceeds, CreateShared
<1>6. ASSUME NEW p \in Peers, PeerDies(p) PROVE Shared'
  <2>1. UNCHANGED <<program, pos, task, conns, list, called>>
    BY <1>6 DEF PeerDies
  <2> QED BY <2>1, OlderSelf, StaysProceeds, QuietShared
<1> QED BY <1>1, <1>2, <1>3, <1>4, <1>5, <1>6

LEMMA InitShared == Init => Shared
<1> SUFFICES ASSUME Init PROVE Shared
  OBVIOUS
<1>1. RefsInv
  BY InitRefs
<1>2. \A c \in Conns : conns[c] = Unused /\ called[c] = <<>>
  BY DEF Init
<1>3. CalledFailed /\ OnePerPeer
  BY <1>2 DEF CalledFailed, OnePerPeer, Open, Unused
<1>4. CallsCounted
  <2>1. \A t \in Threads : task[t].at # "callback"
    BY DEF Init, Idle
  <2>2. ASSUME NEW c \in Conns, NEW u \in Users
        PROVE  CountIn(called[c], u) + CountIn(conns[c].hooks, u) <= Registered(u)
    <3>1. CountIn(called[c], u) = 0 /\ CountIn(conns[c].hooks, u) = 0
      BY <1>2, CountEmpty DEF Unused
    <3>2. Registered(u) \in Nat
      BY <1>1, RegisteredSet DEF RefsInv
    <3> QED BY <3>1, <3>2
  <2> QED BY <2>1, <2>2 DEF CallsCounted
<1> QED BY <1>3, <1>4 DEF Shared

LEMMA StepShared == IInv /\ [Next]_vars => IInv'
<1> SUFFICES ASSUME RefsInv, Shared, [Next]_vars PROVE RefsInv' /\ Shared'
  BY DEF IInv, Shared
<1>1. RefsInv'
  BY StepRefs
<1>2. ASSUME NEW u \in Users, User(u) PROVE Shared'
  BY <1>1, <1>2, UserShared
<1>3. ASSUME NEW t \in Threads, CloseHandler(t) PROVE Shared'
  BY <1>1, <1>3, CloseHandlerShared
<1>4. CASE \/ \E c \in Conns : Network(c)
           \/ AnswerFails \/ HandlerReturns \/ ReadAhead
           \/ \E p \in Peers : Accept(p) \/ PeerDies(p)
  BY <1>1, <1>4, NetworkShared
<1>5. CASE UNCHANGED vars
  <2>1. UNCHANGED <<program, pos, task, conns, list, called>>
    BY <1>5 DEF vars
  <2> QED BY <1>1, <2>1, OlderSelf, StaysProceeds, QuietShared
<1>6. Shared'
  BY <1>2, <1>3, <1>4, <1>5 DEF Next
<1> QED BY <1>1, <1>6

LEMMA InvShared == IInv => SharedOnce
<1> SUFFICES ASSUME IInv PROVE SharedOnce
  OBVIOUS
<1>1. ASSUME NEW u \in Users, NEW c \in Conns
      PROVE  Count({i \in DOMAIN called[c] : called[c][i] = u}) <=
               Count({i \in DOMAIN program.ops[u] : program.ops[u][i] = "register"})
  <2> DEFINE n == Count({i \in DOMAIN program.ops[u] : program.ops[u][i] = "register"})
  <2>1. Registered(u) \in Nat /\ Registered(u) <= n
    BY RegisteredSet DEF IInv, RefsInv
  <2>2. CountIn(called[c], u) + CountIn(conns[c].hooks, u) <= Registered(u)
    BY DEF IInv, CallsCounted
  <2>3. CountIn(called[c], u) \in Nat /\ CountIn(conns[c].hooks, u) \in Nat
    BY HooksTypes DEF IInv
  <2>4. n \in Nat
    <3>1. DOMAIN program.ops[u] = 1..Len(program.ops[u]) /\ Len(program.ops[u]) \in Nat
      BY ProgramTypes DEF IInv, RefsInv
    <3> DEFINE m == Len(program.ops[u])
               R == {i \in DOMAIN program.ops[u] : program.ops[u][i] = "register"}
    <3>2. R \in SUBSET (1..m)
      BY <3>1
    <3> HIDE DEF m, R
    <3>3. IsFiniteSet(1..m)
      BY <3>1, UpTo DEF m
    <3>4. Cardinality(R) \in Nat
      BY <3>2, <3>3, FS_Subset, FS_CardinalityType
    <3> QED BY <3>4 DEF R, Count
  <2>5. Count({i \in DOMAIN called[c] : called[c][i] = u}) = CountIn(called[c], u)
    BY DEF Count, CountIn
  <2> HIDE DEF n
  <2>6. CountIn(called[c], u) <= n
    BY <2>1, <2>2, <2>3, <2>4
  <2> QED BY <2>5, <2>6 DEF n
<1> QED BY <1>1 DEF SharedOnce, IInv, OnePerPeer, CalledFailed

(* Users of one peer share one connection, a close handler is called at     *)
(* most as often as it was registered, and only on a connection that        *)
(* failed.                                                                  *)
THEOREM ConnectionsShared == Spec => []SharedOnce
<1>1. Init => IInv
  BY InitRefs, InitShared DEF IInv, Shared
<1>2. IInv /\ [Next]_vars => IInv'
  BY StepShared
<1>3. IInv => SharedOnce
  BY InvShared
<1> QED BY <1>1, <1>2, <1>3, PTL DEF Spec
===============================================================================
