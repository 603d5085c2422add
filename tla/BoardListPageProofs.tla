------------------------ MODULE BoardListPageProofs ------------------------
(***************************************************************************)
(* The list of boards, for any texts, any number of runs in progress and   *)
(* of runs in all.                                                         *)
(*                                                                         *)
(* The argument: what is on its way decides what may still happen.  A text *)
(* that has been created and may be submitted again is in a run that will  *)
(* empty the field; and the list that comes last is the list there is, or  *)
(* a run has its GET before it.                                            *)
(***************************************************************************)
EXTENDS BoardListPage, OrderingProofs, TLAPS

-----------------------------------------------------------------------------
(* Types.                                                                  *)

LEMMA Bounds == MaxInFlight \in Nat \ {0} /\ MaxRuns \in Nat \ {0} /\ 1 \in Runs
  BY BoundsAssumption DEF Runs

LEMMA Creates ==
    /\ \A t, u : Create(t) = Create(u) => t = u
    /\ \A t, b : Create(t) # Delete(b)
    /\ \A t : Create(t).kind = "create" /\ Create(t).text = t
    /\ \A b : Delete(b).kind = "delete" /\ Delete(b).text = None /\ Delete(b).board = b
  BY DEF Create, Delete

LEMMA MadeDomain ==
    ASSUME TypeOK
    PROVE  Len(made) \in Nat /\ DOMAIN made = 1 .. Len(made)
  BY LenProperties DEF TypeOK

LEMMA ActionFacts ==
    ASSUME TypeOK, NEW c \in Actions
    PROVE  /\ c # None /\ c.kind \in {"create", "delete"}
           /\ c.text \in Texts \cup {None}
           /\ c.kind = "create" => c.text \in Texts /\ c = Create(c.text)
           /\ c.kind = "delete" => c.text = None /\ c.board \in DOMAIN made
<1>1. c \in [kind : {"create", "delete"}, text : Texts \cup {None}, board : Nat]
  BY MadeDomain DEF Actions, Create, Delete
<1>2. c # None
  BY <1>1, NoneAssumption
<1> QED
  BY <1>2, Creates DEF Actions

\* Boards are only ever added to those that there have been.
LEMMA ServerType ==
    ASSUME TypeOK, NEW text \in Texts, made' = Append(made, text)
    PROVE  /\ made' \in Seq(Texts \cup {None})
           /\ DOMAIN made \subseteq DOMAIN made' /\ Len(made) + 1 \in DOMAIN made'
           /\ \A i \in DOMAIN made : made'[i] = made[i]
           /\ made'[Len(made) + 1] = text
           /\ \A i \in DOMAIN made' : i \in DOMAIN made \/ i = Len(made) + 1
<1>1. made \in Seq(Texts \cup {None}) /\ text \in Texts \cup {None}
  BY DEF TypeOK
<1>2. /\ made' \in Seq(Texts \cup {None}) /\ Len(made') = Len(made) + 1
      /\ \A i \in 1 .. Len(made) : made'[i] = made[i]
      /\ made'[Len(made) + 1] = text
  BY <1>1, AppendProperties
<1>3. DOMAIN made' = 1 .. Len(made) + 1
  BY <1>2, LenProperties
<1> QED
  BY <1>2, <1>3, MadeDomain

-----------------------------------------------------------------------------
(* Runs and texts.                                                         *)

RunsInv  == \A r \in Runs : RunInv(r)
TextsInv == \A text \in Texts : TextInv(text)

LEMMA InitIInv == Init => IInv
<1> SUFFICES ASSUME Init PROVE IInv
  OBVIOUS
<1>1. made \in Seq(Texts \cup {None}) /\ DOMAIN made = {1} /\ made[1] = None /\ Len(made) = 1
  BY DEF Init
<1>2. TypeOK
  <2>1. phase \in [Runs -> Phases] /\ runs \in 0 .. MaxRuns
    BY Bounds DEF Init, Phases
  <2>2. served \in Seq(Runs)
    BY EmptySeq DEF Init
  <2>3. boards \in Lists /\ snapshot \in [Runs -> Lists]
    <3>1. None \in Lists
      BY DEF Lists
    <3> QED
      BY <3>1 DEF Init
  <2>4. call \in [Runs -> Actions \cup {None}] /\ failure \in [Runs -> {None, "action"}]
    BY DEF Init
  <2> QED
    BY <1>1, <2>1, <2>2, <2>3, <2>4 DEF Init, TypeOK
<1>3. OncePerText
  BY <1>1 DEF OncePerText
<1>4. OrderInv
  <2>1. phase[1] = "loading" /\ DOMAIN served = {}
    BY Bounds DEF Init
  <2> QED
    BY <2>1, Bounds DEF OrderInv
<1>5. ASSUME NEW r \in Runs PROVE RunInv(r)
  BY NoneAssumption, Creates DEF Init, RunInv, Create
<1>6. ASSUME NEW text \in Texts PROVE TextInv(text)
  <2>1. ~Made(text)
    BY <1>1, TextsAssumption DEF Made
  <2>2. \A r \in Runs : call[r] # Create(text)
    BY NoneAssumption DEF Init, Create
  <2>3. title # text
    BY TextsAssumption DEF Init
  <2> QED
    BY <2>1, <2>2, <2>3 DEF TextInv, Creating
<1> QED
  BY <1>2, <1>3, <1>4, <1>5, <1>6 DEF IInv

\* A run goes on to its next phase, the boards and the field being as they were.
LEMMA RunGoesOn ==
    ASSUME TypeOK, RunsInv, TextsInv, NEW r \in Runs, NEW p \in Phases \ {"idle", "acting"},
           NEW f, UNCHANGED <<made, call, title, fresh>>, Again \subseteq Again',
           phase' = [phase EXCEPT ![r] = p], failure' = [failure EXCEPT ![r] = f],
           phase[r] # "idle",
           p \in {"done", "refused"} => f = None /\ call[r] # None,
           \A text \in Texts : call[r] = Create(text) =>
              /\ Performed(r)' => Performed(r)
              /\ Performed(r) => Performed(r)' \/ text \in Again'
              /\ Creating(r, text)' => Creating(r, text)
    PROVE  RunsInv' /\ TextsInv'
<1>1. /\ phase'[r] = p /\ failure'[r] = f
      /\ \A q \in Runs \ {r} : phase'[q] = phase[q] /\ failure'[q] = failure[q]
      /\ \A text : Made(text)' <=> Made(text)
  BY DEF TypeOK, Made
<1>2. \A q \in Runs \ {r} : Performed(q)' <=> Performed(q)
  BY <1>1 DEF Performed
<1>3. ASSUME NEW q \in Runs PROVE RunInv(q)'
  <2>1. RunInv(q)
    BY DEF RunsInv
  <2> QED
    BY <1>1, <1>2, <2>1 DEF RunInv, Phases
<1>4. ASSUME NEW text \in Texts PROVE TextInv(text)'
  <2>1. TextInv(text)
    BY DEF TextsInv
  <2> SUFFICES ASSUME text \notin Again' PROVE TextInv(text)'
    BY DEF TextInv
  <2>2. text \notin Again
    OBVIOUS
  <2>3. \A q \in Runs : call[q] = Create(text) /\ Performed(q) => Performed(q)' /\ failure'[q] = None
    <3> SUFFICES ASSUME NEW q \in Runs, call[q] = Create(text), Performed(q)
                 PROVE  Performed(q)' /\ failure'[q] = None
      OBVIOUS
    <3>1. Performed(q)'
      BY <1>2
    <3>2. RunInv(q)'
      BY <1>3
    <3> QED
      BY <3>1, <3>2 DEF RunInv, Performed
  <2>4. \A q \in Runs : Creating(q, text)' => Creating(q, text)
    BY <1>1 DEF Creating
  <2>5. \A q \in Runs : Creating(q, text) /\ Made(text) => Creating(q, text)'
    BY <2>1, <2>2, <2>3 DEF TextInv, Creating
  <2>6. \A q \in Runs : Creating(q, text) /\ Made(text) => Performed(q)'
    BY <2>1, <2>2, <2>3 DEF TextInv, Creating
  <2> QED
    BY <1>1, <2>1, <2>2, <2>4, <2>5, <2>6 DEF TextInv
<1> QED
  BY <1>3, <1>4 DEF RunsInv, TextsInv

LEMMA Parts ==
    /\ IInv <=> TypeOK /\ OncePerText /\ OrderInv /\ RunsInv /\ TextsInv
    /\ IInv' <=> TypeOK' /\ OncePerText' /\ OrderInv' /\ RunsInv' /\ TextsInv'
  BY DEF IInv, RunsInv, TextsInv

\* As long as nothing that the order of the answers is about has changed.
LEMMA OrderStays ==
    ASSUME OrderInv, UNCHANGED <<boards, served>>,
           \A i \in DOMAIN served : phase'[served[i]] = "loaded" /\ snapshot'[served[i]] = snapshot[served[i]],
           served \in Seq(Runs),
           inOrder' => \/ \E r \in Runs : phase'[r] \in {"acting", "done", "refused", "loading"}
                       \/ inOrder /\ there' = there
                          /\ \A r \in Runs : phase[r] \in {"acting", "done", "refused", "loading"}
                                => phase'[r] \in {"acting", "done", "refused", "loading"}
    PROVE  OrderInv'
<1>1. DOMAIN served = 1 .. Len(served) /\ Len(served) \in Nat
  BY LenProperties
<1>2. served # <<>> => Len(served) \in DOMAIN served
  BY <1>1, EmptySeq
<1>3. Coming' = Coming
  BY <1>2 DEF Coming
<1> QED
  BY <1>3 DEF OrderInv

-----------------------------------------------------------------------------
(* The actions.                                                            *)

LEMMA TypeKeeps == ASSUME IInv, Type PROVE IInv'
<1>1. TypeOK /\ OncePerText /\ OrderInv /\ RunsInv /\ TextsInv
  BY Parts
<1>2. PICK typed \in fresh : title' = typed /\ fresh' = fresh \ {typed}
  BY DEF Type
<1>3. UNCHANGED <<made, there, boards, error, phase, call, failure, snapshot, served, inOrder,
                  unsure, early, Again, runs>>
  BY DEF Type, Again, server, calls
<1>4. TypeOK'
  BY <1>1, <1>2, <1>3 DEF TypeOK, Lists, Actions
<1>5. OncePerText'
  BY <1>1, <1>3 DEF OncePerText
<1>6. OrderInv'
  BY <1>1, <1>3 DEF OrderInv, Coming
<1>7. RunsInv'
  BY <1>1, <1>3 DEF RunsInv, RunInv, Performed, Made
<1>8. ASSUME NEW text \in Texts PROVE TextInv(text)'
  <2>1. TextInv(text)
    BY <1>1 DEF TextsInv
  <2>2. /\ Made(text)' <=> Made(text)
        /\ \A r : (Performed(r)' <=> Performed(r)) /\ (Creating(r, text)' <=> Creating(r, text))
    BY <1>3 DEF Made, Performed, Creating
  <2> QED
    BY <1>2, <1>3, <2>1, <2>2 DEF TextInv
<1> QED
  BY <1>4, <1>5, <1>6, <1>7, <1>8, Parts DEF TextsInv

\* A run begins: no other run creates the same text, or the text is submitted again.
LEMMA BeginKeeps ==
    ASSUME IInv, NEW r \in Runs, NEW action \in Actions, Begin(r, action),
           {unsure', early'} \subseteq SUBSET Texts, Again \subseteq Again',
           \A text \in Texts : action = Create(text) =>
              text = title /\ (text \in Again' \/ \A i \in Runs : ~Creating(i, text))
    PROVE  IInv'
<1>1. TypeOK /\ OncePerText /\ OrderInv /\ RunsInv /\ TextsInv
  BY Parts
<1>2. /\ phase[r] = "idle" /\ call[r] = None /\ failure[r] = None
      /\ call' = [call EXCEPT ![r] = action] /\ phase' = [phase EXCEPT ![r] = "acting"]
      /\ UNCHANGED <<made, there, boards, title, failure, snapshot, served, fresh>>
      /\ inOrder' = (inOrder \/ InFlight = {})
  BY <1>1 DEF Begin, server, RunsInv, RunInv
<1>3. TypeOK'
  <2>1. runs' \in 0 .. MaxRuns /\ error' = None
    BY <1>1, Bounds DEF Begin, TypeOK
  <2>2. call' \in [Runs -> Actions \cup {None}] /\ phase' \in [Runs -> Phases]
    BY <1>1, <1>2 DEF TypeOK, Phases
  <2>3. inOrder' \in BOOLEAN
    BY <1>2
  <2> QED
    BY <1>1, <1>2, <2>1, <2>2, <2>3 DEF TypeOK, Lists, Actions
<1>4. OncePerText'
  BY <1>1, <1>2 DEF OncePerText
<1>5. /\ phase'[r] = "acting" /\ call'[r] = action /\ failure' = failure
      /\ \A q \in Runs \ {r} : phase'[q] = phase[q] /\ call'[q] = call[q]
  BY <1>1, <1>2 DEF TypeOK
<1>6. OrderInv'
  <2>1. served \in Seq(Runs)
    BY <1>1 DEF TypeOK
  <2>2. \A i \in DOMAIN served : served[i] \in Runs /\ served[i] # r
    BY <1>1, <1>2, <2>1, ElementOfSeq, LenProperties DEF OrderInv
  <2>3. \A i \in DOMAIN served : phase'[served[i]] = "loaded" /\ snapshot'[served[i]] = snapshot[served[i]]
    BY <1>1, <1>2, <1>5, <2>2 DEF OrderInv
  <2> QED
    BY <1>1, <1>2, <1>5, <2>1, <2>3, OrderStays
<1>7. /\ \A text : Made(text)' <=> Made(text)
      /\ ~Performed(r) /\ ~Performed(r)'
      /\ \A q \in Runs \ {r} : Performed(q)' <=> Performed(q)
  BY <1>2, <1>5 DEF Made, Performed
<1>8. ASSUME NEW q \in Runs PROVE RunInv(q)'
  <2>1. RunInv(q)
    BY <1>1 DEF RunsInv
  <2>2. action # None
    BY <1>1, ActionFacts
  <2> QED
    BY <1>2, <1>5, <1>7, <2>1, <2>2 DEF RunInv
<1>9. ASSUME NEW text \in Texts PROVE TextInv(text)'
  <2>1. TextInv(text)
    BY <1>1 DEF TextsInv
  <2> SUFFICES ASSUME text \notin Again' PROVE TextInv(text)'
    BY DEF TextInv
  <2>2. text \notin Again
    OBVIOUS
  <2>3. call[r] # Create(text)
    BY <1>2, NoneAssumption DEF Create
  <2>4. CASE action # Create(text)
    BY <1>2, <1>5, <1>7, <2>1, <2>2, <2>3, <2>4 DEF TextInv, Creating
  <2>5. CASE action = Create(text)
    <3>1. title = text /\ \A i \in Runs : ~Creating(i, text)
      BY <2>5
    <3>2. ~Made(text) /\ text \notin fresh
      BY <2>1, <2>2, <3>1 DEF TextInv
    <3>3. \A i \in Runs \ {r} : ~Creating(i, text)'
      BY <1>5, <3>1 DEF Creating
    <3>4. \A i, j \in Runs : Creating(i, text)' /\ Creating(j, text)' => i = j
      BY <3>3
    <3> QED
      BY <1>2, <1>7, <3>2, <3>4 DEF TextInv
  <2> QED
    BY <2>4, <2>5
<1> QED
  BY <1>3, <1>4, <1>6, <1>8, <1>9, Parts DEF RunsInv, TextsInv

LEMMA SubmitKeeps == ASSUME IInv, NEW r \in Runs, Submit(r) PROVE IInv'
<1>1. TypeOK
  BY Parts
<1>2. title \in Texts /\ Begin(r, Create(title))
  BY <1>1 DEF Submit, TypeOK
<1>3. PICK text \in Texts : text = title
  BY <1>2
<1>4. Create(text) \in Actions /\ Begin(r, Create(text))
  BY <1>2, <1>3 DEF Actions
<1>5. {unsure', early'} \subseteq SUBSET Texts /\ Again \subseteq Again'
  BY <1>1, <1>2 DEF Submit, TypeOK, Again
<1>6. ASSUME NEW i \in Runs, Creating(i, text) PROVE text \in Again'
  <2>1. phase[i] # "idle"
    BY <1>6, NoneAssumption, Parts DEF RunsInv, RunInv, Creating, Create
  <2>2. Awaited(i, text) \/ Fetching(i, text)
    BY <1>1, <1>6, <2>1 DEF Creating, Awaited, Fetching, TypeOK, Phases
  <2> QED
    BY <1>3, <2>2 DEF Submit, Again
<1>7. \A other : Create(text) = Create(other) => other = text
  BY Creates
<1> QED
  BY <1>3, <1>4, <1>5, <1>7, <1>6, BeginKeeps

LEMMA RemoveKeeps == ASSUME IInv, NEW r \in Runs, remove(r) PROVE IInv'
<1>1. TypeOK
  BY Parts
<1>2. PICK board \in boards : Begin(r, Delete(board)) /\ boards # None
  BY DEF remove
<1>3. Delete(board) \in Actions
  <2>1. board \in DOMAIN made
    BY <1>1, <1>2 DEF TypeOK, Lists
  <2> QED
    BY <2>1 DEF Actions
<1>4. {unsure', early'} \subseteq SUBSET Texts /\ Again \subseteq Again'
  BY <1>1 DEF remove, TypeOK, Again
<1>5. \A text : Delete(board) # Create(text)
  BY Creates
<1> QED
  BY <1>2, <1>3, <1>4, <1>5, BeginKeeps

LEMMA ServeKeeps == ASSUME IInv, NEW r \in Runs, Serve(r) PROVE IInv'
<1>1. TypeOK /\ OncePerText /\ OrderInv /\ RunsInv /\ TextsInv
  BY Parts
<1>2. /\ phase[r] = "acting" /\ failure[r] = None /\ call[r] # None /\ call[r] \in Actions
      /\ UNCHANGED <<boards, error, title, call, failure, snapshot, served, inOrder, unsure,
                     early, Again, fresh, runs>>
  BY <1>1 DEF Serve, page, RunsInv, RunInv, TypeOK, Again
<1>3. PICK p \in {"done", "refused"} : phase' = [phase EXCEPT ![r] = p]
  BY DEF Serve
<1>4. /\ phase'[r] = p /\ phase' \in [Runs -> Phases]
      /\ \A q \in Runs \ {r} : phase'[q] = phase[q]
  BY <1>1, <1>3 DEF TypeOK, Phases
<1>5. OrderInv'
  <2>1. served \in Seq(Runs)
    BY <1>1 DEF TypeOK
  <2>2. \A i \in DOMAIN served : served[i] \in Runs /\ served[i] # r
    BY <1>1, <1>2, <2>1, ElementOfSeq, LenProperties DEF OrderInv
  <2>3. \A i \in DOMAIN served : phase'[served[i]] = "loaded" /\ snapshot'[served[i]] = snapshot[served[i]]
    BY <1>1, <1>2, <1>4, <2>2 DEF OrderInv
  <2> QED
    BY <1>1, <1>2, <1>4, <2>1, <2>3, OrderStays
<1>6. CASE /\ UNCHANGED made /\ there' \subseteq there
           /\ call[r].kind = "delete" \/ p = "refused"
  <2>1. TypeOK'
    BY <1>1, <1>2, <1>4, <1>6 DEF TypeOK, Lists, Actions
  <2>2. OncePerText'
    BY <1>1, <1>2, <1>6 DEF OncePerText
  <2>3. failure' = [failure EXCEPT ![r] = None] /\ p \in Phases \ {"idle", "acting"}
    BY <1>1, <1>2 DEF TypeOK, Phases
  <2>4. ~Performed(r)
    BY <1>2 DEF Performed
  <2>5. \A text : call[r] = Create(text) => ~Performed(r)'
    BY <1>4, <1>6, Creates DEF Performed
  <2>6. RunsInv' /\ TextsInv'
    BY <1>1, <1>2, <1>3, <1>6, <2>3, <2>4, <2>5, RunGoesOn DEF Creating
  <2> QED
    BY <1>5, <2>1, <2>2, <2>6, Parts
<1>7. CASE call[r].kind = "create" /\ create_board(call[r].text) /\ p = "done"
  <2>1. PICK text \in Texts : call[r] = Create(text) /\ text = call[r].text
    BY <1>1, <1>2, <1>7, ActionFacts
  <2>2. made' = Append(made, text) /\ there' = there \cup {Len(made) + 1}
    BY <1>7, <2>1 DEF create_board
  <2>3. /\ made' \in Seq(Texts \cup {None})
        /\ DOMAIN made \subseteq DOMAIN made' /\ Len(made) + 1 \in DOMAIN made'
        /\ \A i \in DOMAIN made : made'[i] = made[i]
        /\ made'[Len(made) + 1] = text
        /\ \A i \in DOMAIN made' : i \in DOMAIN made \/ i = Len(made) + 1
    BY <1>1, <2>2, ServerType
  <2>4. TypeOK'
    <3>1. Lists \subseteq Lists' /\ Actions \subseteq Actions'
      BY <2>3 DEF Lists, Actions
    <3>2. boards' \in Lists' /\ snapshot' \in [Runs -> Lists'] /\ call' \in [Runs -> Actions' \cup {None}]
      BY <1>1, <1>2, <3>1 DEF TypeOK
    <3>3. there' \subseteq DOMAIN made'
      BY <1>1, <2>2, <2>3 DEF TypeOK
    <3> QED
      BY <1>1, <1>2, <1>4, <2>3, <3>2, <3>3 DEF TypeOK
  <2>5. TextInv(text) /\ RunInv(r)
    BY <1>1 DEF TextsInv, RunsInv
  <2>6. ~Performed(r) /\ Performed(r)'
    BY <1>2, <1>4, <1>7 DEF Performed
  <2>7. text \notin Again => ~Made(text)
    BY <1>2, <2>1, <2>5, <2>6 DEF TextInv, Creating
  <2>8. OncePerText'
    <3> SUFFICES ASSUME NEW i \in DOMAIN made', NEW j \in DOMAIN made', i # j,
                        made'[i] = made'[j], made'[i] # None, made'[i] \notin Again
                 PROVE  FALSE
      BY <1>2 DEF OncePerText
    <3>1. CASE i \in DOMAIN made /\ j \in DOMAIN made
      BY <1>1, <2>3, <3>1 DEF OncePerText
    <3>2. CASE i \notin DOMAIN made \/ j \notin DOMAIN made
      <4>1. Made(text) /\ made'[i] = text
        BY <2>3, <3>2 DEF Made
      <4> QED
        BY <2>7, <4>1
    <3> QED
      BY <3>1, <3>2
  <2>9. \A other : Made(other)' <=> Made(other) \/ other = text
    BY <2>3 DEF Made
  <2>10. \A q \in Runs \ {r} : Performed(q)' <=> Performed(q)
    BY <1>2, <1>4 DEF Performed
  <2>11. \A other : call[r] = Create(other) => other = text
    BY <2>1, Creates
  <2>12. ASSUME NEW q \in Runs PROVE RunInv(q)'
    <3>1. RunInv(q)
      BY <1>1 DEF RunsInv
    <3>2. CASE q = r
      BY <1>2, <1>4, <2>9, <2>11, <3>2 DEF RunInv, Phases
    <3>3. CASE q # r
      BY <1>2, <1>4, <2>9, <2>10, <3>1, <3>3 DEF RunInv
    <3> QED
      BY <3>2, <3>3
  <2>13. ASSUME NEW other \in Texts PROVE TextInv(other)'
    <3>1. TextInv(other)
      BY <1>1 DEF TextsInv
    <3> SUFFICES ASSUME other \notin Again PROVE TextInv(other)'
      BY <1>2 DEF TextInv
    <3>2. \A q : Creating(q, other)' <=> Creating(q, other)
      BY <1>2 DEF Creating
    <3>3. CASE other # text
      BY <1>2, <2>6, <2>9, <2>10, <3>1, <3>3, <3>2 DEF TextInv
    <3>4. CASE other = text
      <4>1. Creating(r, text)
        BY <1>2, <2>1 DEF Creating
      <4>2. \A q \in Runs : Creating(q, text) => q = r
        BY <3>1, <3>4, <4>1 DEF TextInv
      <4>3. text \notin fresh
        BY <2>1, <3>1, <3>4 DEF TextInv
      <4> QED
        BY <1>2, <2>6, <3>4, <3>2, <4>2, <4>3, <4>1 DEF TextInv
    <3> QED
      BY <3>3, <3>4
  <2> QED
    BY <1>5, <2>4, <2>8, <2>12, <2>13, Parts DEF RunsInv, TextsInv
<1> QED
  <2>1. CASE phase' = [phase EXCEPT ![r] = "done"] /\ call[r].kind = "create"
              /\ create_board(call[r].text)
    <3>1. p = "done"
      BY <1>1, <1>4, <2>1 DEF TypeOK
    <3> QED
      BY <1>7, <2>1, <3>1
  <2>2. CASE phase' = [phase EXCEPT ![r] = "done"] /\ call[r].kind = "delete"
              /\ delete_board(call[r].board)
    BY <1>6, <2>2 DEF delete_board
  <2>3. CASE phase' = [phase EXCEPT ![r] = "refused"] /\ UNCHANGED server
    <3>1. p = "refused"
      BY <1>1, <1>4, <2>3 DEF TypeOK
    <3> QED
      BY <1>6, <2>3, <3>1 DEF server
  <2> QED
    BY <2>1, <2>2, <2>3 DEF Serve

LEMMA ServeLoadKeeps == ASSUME IInv, NEW r \in Runs, ServeLoad(r) PROVE IInv'
<1>1. TypeOK /\ OncePerText /\ OrderInv /\ RunsInv /\ TextsInv
  BY Parts
<1>2. /\ phase[r] = "loading"
      /\ snapshot' = [snapshot EXCEPT ![r] = there] /\ phase' = [phase EXCEPT ![r] = "loaded"]
      /\ served' = Append(served, r)
      /\ UNCHANGED <<made, there, boards, error, title, call, failure, inOrder, unsure, early, Again,
                     fresh, runs>>
  BY DEF ServeLoad, server, page, Again
<1>3. /\ phase'[r] = "loaded" /\ phase' \in [Runs -> Phases]
      /\ \A q \in Runs \ {r} : phase'[q] = phase[q] /\ snapshot'[q] = snapshot[q]
      /\ snapshot'[r] = there
  BY <1>1, <1>2 DEF TypeOK, Phases
<1>4. /\ served \in Seq(Runs) /\ DOMAIN served = 1 .. Len(served) /\ Len(served) \in Nat
      /\ \A i \in DOMAIN served : served[i] \in Runs /\ served[i] # r
  BY <1>1, <1>2, ElementOfSeq, LenProperties DEF OrderInv, TypeOK
<1>5. /\ served' \in Seq(Runs) /\ Len(served') = Len(served) + 1
      /\ DOMAIN served' = 1 .. Len(served) + 1
      /\ \A i \in DOMAIN served : served'[i] = served[i]
      /\ served'[Len(served) + 1] = r
  BY <1>2, <1>4, AppendProperties, LenProperties
<1>6. TypeOK'
  <2>1. snapshot' \in [Runs -> Lists']
    <3>1. there \in Lists
      BY <1>1 DEF TypeOK, Lists
    <3> QED
      BY <1>1, <1>2, <3>1 DEF TypeOK, Lists
  <2> QED
    BY <1>1, <1>2, <1>3, <1>5, <2>1 DEF TypeOK, Lists, Actions
<1>7. OncePerText'
  BY <1>1, <1>2 DEF OncePerText
<1>8. OrderInv'
  <2>1. \A i, j \in DOMAIN served' : served'[i] = served'[j] => i = j
    BY <1>1, <1>4, <1>5 DEF OrderInv
  <2>2. \A i \in DOMAIN served' : phase'[served'[i]] = "loaded"
    BY <1>1, <1>3, <1>4, <1>5 DEF OrderInv
  <2>3. Coming' = there
    <3>1. served' # <<>>
      BY <1>5, EmptySeq
    <3> QED
      BY <1>3, <1>5, <3>1 DEF Coming
  <2> QED
    BY <1>2, <2>1, <2>2, <2>3 DEF OrderInv
<1>9. RunsInv' /\ TextsInv'
  <2>1. failure' = [failure EXCEPT ![r] = failure[r]]
    BY <1>1, <1>2 DEF TypeOK
  <2>2. Performed(r)' <=> Performed(r)
    BY <1>2, <1>3 DEF Performed
  <2>3. "loaded" \in Phases \ {"idle", "acting"}
    BY DEF Phases
  <2> QED
    BY <1>1, <1>2, <2>1, <2>2, <2>3, RunGoesOn DEF Creating
<1> QED
  BY <1>6, <1>7, <1>8, <1>9, Parts

\* What Answered and Lost have in common.
LEMMA ActedKeeps ==
    ASSUME IInv, NEW r \in Runs, NEW outcome \in {None, "action"}, Acted(r, outcome),
           phase[r] \in {"acting", "done", "refused"},
           unsure' \subseteq Texts, unsure \subseteq unsure',
           outcome = None => phase[r] = "done",
           phase[r] = "done" => outcome = None \/ call[r].text \in unsure' \cup {None}
    PROVE  IInv'
<1>1. TypeOK /\ OncePerText /\ OrderInv /\ RunsInv /\ TextsInv
  BY Parts
<1>2. /\ failure' = [failure EXCEPT ![r] = outcome] /\ phase' = [phase EXCEPT ![r] = "loading"]
      /\ UNCHANGED <<made, there, boards, error, title, call, snapshot, served, inOrder, early,
                     fresh, runs>>
      /\ Again \subseteq Again'
  BY DEF Acted, server, page, Again
<1>3. /\ phase'[r] = "loading" /\ failure'[r] = outcome /\ phase' \in [Runs -> Phases]
      /\ \A q \in Runs \ {r} : phase'[q] = phase[q]
  BY <1>1, <1>2 DEF TypeOK, Phases
<1>4. TypeOK'
  <2>1. failure' \in [Runs -> {None, "action"}]
    BY <1>1, <1>2 DEF TypeOK
  <2> QED
    BY <1>1, <1>2, <1>3, <2>1 DEF TypeOK, Lists, Actions
<1>5. OncePerText'
  BY <1>1, <1>2 DEF OncePerText
<1>6. OrderInv'
  <2>1. served \in Seq(Runs)
    BY <1>1 DEF TypeOK
  <2>2. \A i \in DOMAIN served : served[i] \in Runs /\ served[i] # r
    BY <1>1, <2>1, ElementOfSeq, LenProperties DEF OrderInv
  <2>3. \A i \in DOMAIN served : phase'[served[i]] = "loaded" /\ snapshot'[served[i]] = snapshot[served[i]]
    BY <1>1, <1>2, <1>3, <2>2 DEF OrderInv
  <2> QED
    BY <1>1, <1>2, <1>3, <2>1, <2>3, OrderStays
<1>7. RunsInv' /\ TextsInv'
  <2>1. failure[r] = None /\ outcome \in {None, "action"}
    BY <1>1 DEF RunsInv, RunInv
  <2>2. Performed(r)' <=> outcome = None
    BY <1>3 DEF Performed
  <2>3. Performed(r) <=> phase[r] = "done"
    BY DEF Performed
  <2>4. \A text \in Texts : call[r] = Create(text) =>
           /\ Performed(r)' => Performed(r)
           /\ Performed(r) => Performed(r)' \/ text \in Again'
           /\ Creating(r, text)' => Creating(r, text)
    BY <1>2, <2>1, <2>2, <2>3, Creates, TextsAssumption DEF Creating, Again
  <2>5. "loading" \in Phases \ {"idle", "acting"} /\ phase[r] # "idle"
    BY DEF Phases
  <2> QED
    BY <1>1, <1>2, <2>4, <2>5, RunGoesOn
<1> QED
  BY <1>4, <1>5, <1>6, <1>7, Parts

LEMMA ActionEndKeeps == ASSUME IInv, NEW r \in Runs, ActionEnds(r) PROVE IInv'
<1>1. TypeOK /\ RunsInv
  BY Parts
<1>2. CASE phase[r] = "done" /\ Acted(r, None) /\ UNCHANGED unsure
  BY <1>1, <1>2, ActedKeeps DEF TypeOK
<1>3. CASE phase[r] = "refused" /\ Acted(r, "action") /\ UNCHANGED unsure
  BY <1>1, <1>3, TextsAssumption, ActedKeeps DEF TypeOK
<1>4. CASE Lost(r)
  <2>1. call[r] \in Actions
    BY <1>1, <1>4 DEF RunsInv, RunInv, Lost, TypeOK
  <2>2. call[r].text \in Texts \cup {None}
    BY <1>1, <2>1, ActionFacts
  <2>3. unsure' \subseteq Texts /\ unsure \subseteq unsure' /\ call[r].text \in unsure' \cup {None}
    BY <1>1, <1>4, <2>2 DEF Lost, TypeOK
  <2> QED
    BY <1>4, <2>3, TextsAssumption, ActedKeeps DEF Lost
<1> QED
  BY <1>2, <1>3, <1>4 DEF ActionEnds, Answered

-----------------------------------------------------------------------------
(* The answers to the GETs.                                                *)

\* Of a sequence, all but one element.
LEMMA OthersOf ==
    ASSUME NEW S, NEW s \in Seq(S), IsInjective(s), NEW k \in DOMAIN s
    PROVE  LET rest == SE!RemoveAt(s, k) IN
           /\ rest \in Seq(S) /\ IsInjective(rest)
           /\ \A i \in DOMAIN rest : \E j \in DOMAIN s : rest[i] = s[j] /\ s[j] # s[k]
<1>1. Len(s) \in Nat /\ DOMAIN s = 1 .. Len(s) /\ k \in 1 .. Len(s)
  BY LenProperties
<1>2. PICK rest : rest = SE!RemoveAt(s, k)
  OBVIOUS
<1>3. /\ SE!RemoveAt(s, k) \in Seq(S)
      /\ SE!RemoveAt(s, k) = [i \in 1 .. Len(s) - 1 |-> IF i < k THEN s[i] ELSE s[i + 1]]
  BY <1>1, CutOut DEF SE!RemoveAt
<1>4. rest \in Seq(S) /\ DOMAIN rest = 1 .. Len(s) - 1
  BY <1>2, <1>3
<1>5. ASSUME NEW i \in DOMAIN rest
      PROVE  \E m \in DOMAIN s : rest[i] = s[m] /\ m # k /\ m = IF i < k THEN i ELSE i + 1
  BY <1>1, <1>2, <1>3, <1>4
<1>6. IsInjective(rest)
  <2> SUFFICES ASSUME NEW i \in DOMAIN rest, NEW j \in DOMAIN rest, rest[i] = rest[j] PROVE i = j
    BY DEF IsInjective
  <2>1. PICK m \in DOMAIN s : rest[i] = s[m] /\ m = IF i < k THEN i ELSE i + 1
    BY <1>5
  <2>2. PICK n \in DOMAIN s : rest[j] = s[n] /\ n = IF j < k THEN j ELSE j + 1
    BY <1>5
  <2>3. m = n
    BY <2>1, <2>2 DEF IsInjective
  <2> QED
    BY <1>1, <1>4, <2>1, <2>2, <2>3
<1>7. \A i \in DOMAIN rest : \E j \in DOMAIN s : rest[i] = s[j] /\ s[j] # s[k]
  <2> SUFFICES ASSUME NEW i \in DOMAIN rest PROVE \E j \in DOMAIN s : rest[i] = s[j] /\ s[j] # s[k]
    OBVIOUS
  <2>1. PICK m \in DOMAIN s : rest[i] = s[m] /\ m # k
    BY <1>5
  <2> QED
    BY <2>1 DEF IsInjective
<1> QED
  BY <1>2, <1>4, <1>6, <1>7

\* A run is answered: what becomes of the list and of the order of the answers is left open.
LEMMA FinishKeeps ==
    ASSUME IInv, NEW r \in Runs, NEW loaded \in BOOLEAN, Finish(r, loaded),
           phase[r] \in {"loading", "loaded"},
           boards' \in Lists, inOrder' \in BOOLEAN, served' \in Seq(Runs), OrderInv'
    PROVE  IInv'
<1>1. TypeOK /\ OncePerText /\ RunsInv /\ TextsInv
  BY Parts
<1>2. /\ title' = TitleAfter(r, loaded) /\ error' = ErrorAfter(r, loaded)
      /\ phase' = [phase EXCEPT ![r] = "idle"] /\ call' = [call EXCEPT ![r] = None]
      /\ failure' = [failure EXCEPT ![r] = None] /\ snapshot' = [snapshot EXCEPT ![r] = None]
      /\ UNCHANGED <<made, there, unsure, early, Again, fresh, runs>>
  BY DEF Finish, server, Again
<1>3. /\ phase'[r] = "idle" /\ call'[r] = None /\ failure'[r] = None
      /\ \A q \in Runs \ {r} : phase'[q] = phase[q] /\ call'[q] = call[q] /\ failure'[q] = failure[q]
  BY <1>1, <1>2 DEF TypeOK
<1>4. title' \in {None, title}
  BY <1>2 DEF TitleAfter
<1>5. TypeOK'
  <2>1. phase' \in [Runs -> Phases] /\ call' \in [Runs -> Actions \cup {None}]
    BY <1>1, <1>2 DEF TypeOK, Phases
  <2>2. failure' \in [Runs -> {None, "action"}] /\ snapshot' \in [Runs -> Lists]
    BY <1>1, <1>2 DEF TypeOK, Lists
  <2>3. error' \in {None, "action", "load"}
    BY <1>1, <1>2 DEF TypeOK, ErrorAfter
  <2>4. title' \in Texts \cup {None}
    BY <1>1, <1>4 DEF TypeOK
  <2> QED
    BY <1>1, <1>2, <2>1, <2>2, <2>3, <2>4 DEF TypeOK, Lists, Actions
<1>6. OncePerText'
  BY <1>1, <1>2 DEF OncePerText
<1>7. /\ \A text : Made(text)' <=> Made(text)
      /\ ~Performed(r)'
      /\ \A q \in Runs \ {r} : Performed(q)' <=> Performed(q)
  BY <1>2, <1>3 DEF Made, Performed
<1>8. ASSUME NEW q \in Runs PROVE RunInv(q)'
  <2>1. RunInv(q)
    BY <1>1 DEF RunsInv
  <2> QED
    BY <1>3, <1>7, <2>1 DEF RunInv
<1>9. ASSUME NEW text \in Texts PROVE TextInv(text)'
  <2> SUFFICES ASSUME text \notin Again PROVE TextInv(text)'
    BY <1>2 DEF TextInv
  <2>1. TextInv(text)
    BY <1>1 DEF TextsInv
  <2>2. /\ \A i, j \in Runs : Creating(i, text) /\ Creating(j, text) => i = j
        /\ \A i \in Runs : Creating(i, text) /\ Made(text) => Performed(i)
        /\ text \in fresh => title # text /\ ~Made(text) /\ \A i \in Runs : call[i] # Create(text)
        /\ Made(text) /\ title = text => \E i \in Runs : Creating(i, text)
    BY <2>1 DEF TextInv
  <2>3. text # None /\ Create(text) # None
    BY TextsAssumption, NoneAssumption DEF Create
  <2>4. \A i \in Runs : call'[i] = Create(text) => i # r /\ call[i] = Create(text)
    BY <1>3, <2>3
  <2>5. \A i \in Runs : Creating(i, text)' => i # r /\ Creating(i, text)
    BY <1>3, <2>4 DEF Creating
  <2>6. ASSUME Made(text), title' = text PROVE \E i \in Runs : Creating(i, text)'
    <3>1. title = text
      BY <1>4, <2>3, <2>6
    <3>2. PICK i \in Runs : Creating(i, text)
      BY <2>2, <2>6, <3>1
    <3>3. i # r
      <4> SUFFICES ASSUME i = r PROVE FALSE
        OBVIOUS
      <4>1. title' = None
        BY <1>2, <2>3, <3>2, Creates DEF TitleAfter, Creating
      <4> QED
        BY <2>3, <2>6, <4>1
    <3> QED
      BY <1>3, <3>2, <3>3 DEF Creating
  <2>7. text \in fresh => title' # text
    BY <1>4, <2>2, <2>3
  <2> QED
    BY <1>2, <1>7, <2>2, <2>4, <2>6, <2>7, <2>5 DEF TextInv
<1> QED
  BY <1>5, <1>6, <1>8, <1>9, Parts DEF RunsInv, TextsInv

\* The run has its place in the sequence of the GETs executed, if it is there at all.
LEMMA PositionFacts ==
    ASSUME TypeOK, OrderInv, NEW r
    PROVE  /\ served \in Seq(Runs) /\ IsInjective(served)
           /\ SE!Contains(served, r) => Position(r) \in DOMAIN served /\ served[Position(r)] = r
           /\ ~SE!Contains(served, r) => \A i \in DOMAIN served : served[i] # r
<1>1. served \in Seq(Runs) /\ DOMAIN served = 1 .. Len(served)
  BY LenProperties DEF TypeOK
<1>2. SE!Contains(served, r) <=> \E i \in DOMAIN served : served[i] = r
  BY <1>1 DEF SE!Contains
<1> QED
  BY <1>1, <1>2 DEF OrderInv, IsInjective, Position

LEMMA LoadArrivesKeeps == ASSUME IInv, NEW r \in Runs, LoadArrives(r) PROVE IInv'
<1>1. TypeOK /\ OrderInv
  BY Parts
<1>2. /\ phase[r] = "loaded" /\ boards' = snapshot[r] /\ Finish(r, TRUE)
      /\ inOrder' = (inOrder /\ SE!Contains(served, r))
      /\ served' = IF SE!Contains(served, r) THEN SubSeq(served, Position(r) + 1, Len(served))
                   ELSE served
  BY DEF LoadArrives, BoardsAfter
<1>3. /\ boards' \in Lists /\ inOrder' \in BOOLEAN
      /\ there' = there /\ snapshot' = [snapshot EXCEPT ![r] = None]
      /\ phase'[r] = "idle"
      /\ \A q \in Runs \ {r} : phase'[q] = phase[q] /\ snapshot'[q] = snapshot[q]
  BY <1>1, <1>2 DEF TypeOK, Finish, server
<1>4. /\ served \in Seq(Runs) /\ IsInjective(served)
      /\ \A i \in DOMAIN served : served[i] \in Runs /\ phase[served[i]] = "loaded"
  BY <1>1, PositionFacts, ElementOfSeq, LenProperties DEF OrderInv
<1>5. CASE SE!Contains(served, r)
  <2>1. PICK k \in DOMAIN served : k = Position(r) /\ served[k] = r
    BY <1>1, <1>5, PositionFacts
  <2>2. PICK rest : rest = RestAfter(served, k)
    OBVIOUS
  <2>3. /\ rest \in Seq(Runs) /\ IsInjective(rest)
        /\ \A i \in DOMAIN rest : \E j \in DOMAIN served : rest[i] = served[j] /\ served[j] # r
        /\ rest = <<>> => k = Len(served)
        /\ rest # <<>> => rest[Len(rest)] = served[Len(served)]
    BY <1>4, <2>1, <2>2, RestFacts
  <2>4. served' = rest
    BY <1>2, <1>5, <2>1, <2>2 DEF RestAfter
  <2>5. served # <<>>
    BY <1>4, <2>1, EmptySeq
  <2>6. Coming' = Coming
    <3>1. CASE rest = <<>>
      BY <1>2, <2>1, <2>3, <2>4, <2>5, <3>1 DEF Coming
    <3>2. CASE rest # <<>>
      <4>1. Len(rest) \in DOMAIN rest
        BY <2>3, <3>2, LenProperties, EmptySeq
      <4>2. rest[Len(rest)] \in Runs \ {r}
        BY <1>4, <2>3, <4>1
      <4> QED
        BY <1>3, <2>3, <2>4, <2>5, <3>2, <4>2 DEF Coming
    <3> QED
      BY <3>1, <3>2
  <2>7. \A i \in DOMAIN rest : phase'[rest[i]] = "loaded"
    BY <1>3, <1>4, <2>3
  <2>8. inOrder' => inOrder
    BY <1>2
  <2>9. \A q \in Runs : phase[q] \in {"acting", "done", "refused", "loading"}
            => phase'[q] \in {"acting", "done", "refused", "loading"}
    BY <1>2, <1>3
  <2>10. OrderInv'
    BY <1>1, <1>3, <2>3, <2>4, <2>6, <2>7, <2>8, <2>9 DEF OrderInv, IsInjective
  <2> QED
    BY <1>2, <1>3, <2>3, <2>4, <2>10, FinishKeeps
<1>6. CASE ~SE!Contains(served, r)
  <2>1. served' = served /\ inOrder' = FALSE
    BY <1>2, <1>6
  <2>2. \A i \in DOMAIN served : served[i] # r
    BY <1>1, <1>6, PositionFacts
  <2>3. OrderInv'
    BY <1>3, <1>4, <2>1, <2>2 DEF OrderInv, IsInjective
  <2> QED
    BY <1>2, <1>3, <1>4, <2>1, <2>3, FinishKeeps
<1> QED
  BY <1>5, <1>6

LEMMA LoadFailsKeeps == ASSUME IInv, NEW r \in Runs, LoadFails(r) PROVE IInv'
<1>1. TypeOK /\ OrderInv
  BY Parts
<1>2. /\ phase[r] \in {"loading", "loaded"} /\ Finish(r, FALSE)
      /\ inOrder' = FALSE /\ boards' = boards
      /\ served' = IF SE!Contains(served, r) THEN SE!RemoveAt(served, Position(r)) ELSE served
  BY DEF LoadFails
<1>3. /\ boards' \in Lists
      /\ \A q \in Runs \ {r} : phase'[q] = phase[q]
  BY <1>1, <1>2 DEF TypeOK, Finish
<1>4. /\ served \in Seq(Runs) /\ IsInjective(served)
      /\ \A i \in DOMAIN served : served[i] \in Runs /\ phase[served[i]] = "loaded"
  BY <1>1, PositionFacts, ElementOfSeq, LenProperties DEF OrderInv
<1>5. PICK rest : served' = rest
  OBVIOUS
<1>6. /\ rest \in Seq(Runs) /\ IsInjective(rest)
      /\ \A i \in DOMAIN rest : \E j \in DOMAIN served : rest[i] = served[j] /\ served[j] # r
  <2>1. CASE SE!Contains(served, r)
    <3>1. PICK k \in DOMAIN served : k = Position(r) /\ served[k] = r
      BY <1>1, <2>1, PositionFacts
    <3>2. rest = SE!RemoveAt(served, k)
      BY <1>2, <1>5, <2>1, <3>1
    <3> QED
      BY <1>4, <3>1, <3>2, OthersOf
  <2>2. CASE ~SE!Contains(served, r)
    BY <1>1, <1>2, <1>4, <1>5, <2>2, PositionFacts
  <2> QED
    BY <2>1, <2>2
<1>7. OrderInv'
  <2>1. \A i \in DOMAIN rest : phase'[rest[i]] = "loaded"
    BY <1>3, <1>4, <1>6
  <2> QED
    BY <1>2, <1>5, <1>6, <2>1 DEF OrderInv, IsInjective
<1> QED
  BY <1>2, <1>3, <1>5, <1>6, <1>7, FinishKeeps

-----------------------------------------------------------------------------
(* The results.                                                            *)

\* The invariant of every behaviour: what is on its way, and what it will do to the field
\* and to the list.
THEOREM Invariance == Spec => []IInv
<1>1. Init => IInv
  BY InitIInv
<1>2. IInv /\ [Next]_vars => IInv'
  <2> SUFFICES ASSUME IInv, [Next]_vars PROVE IInv'
    OBVIOUS
  <2>1. CASE Type
    BY <2>1, TypeKeeps
  <2>2. ASSUME NEW r \in Runs, Submit(r) PROVE IInv'
    BY <2>2, SubmitKeeps
  <2>3. ASSUME NEW r \in Runs, remove(r) PROVE IInv'
    BY <2>3, RemoveKeeps
  <2>4. ASSUME NEW r \in Runs, Serve(r) PROVE IInv'
    BY <2>4, ServeKeeps
  <2>5. ASSUME NEW r \in Runs, ServeLoad(r) PROVE IInv'
    BY <2>5, ServeLoadKeeps
  <2>6. ASSUME NEW r \in Runs, ActionEnds(r) PROVE IInv'
    BY <2>6, ActionEndKeeps
  <2>7. ASSUME NEW r \in Runs, LoadEnds(r) PROVE IInv'
    BY <2>7, LoadArrivesKeeps, LoadFailsKeeps DEF LoadEnds
  <2>8. CASE UNCHANGED vars
    BY <2>8 DEF vars, server, page, calls, IInv, TypeOK, Lists, Actions, OncePerText, OrderInv,
                Coming, RunInv, TextInv, Made, Performed, Creating, Again
  <2> QED
    BY <2>1, <2>2, <2>3, <2>4, <2>5, <2>6, <2>7, <2>8 DEF Next
<1> QED
  BY <1>1, <1>2, PTL DEF Spec

\* BoardListPage.tsx:23-39 and 52: one text makes two boards only if it was submitted again
\* before its create was answered or after that answer was lost, or while the run that had
\* created it was still fetching the list.
THEOREM OnePerText == Spec => []OncePerText
<1>1. IInv => OncePerText
  BY DEF IInv
<1> QED
  BY <1>1, Invariance, PTL

\* BoardListPage.tsx:32-36: once all is answered, the GETs in order, the list on screen is
\* the list there is.
THEOREM ListedWhenAtRest == Spec => []ListsWhatIsThere
<1>1. IInv => ListsWhatIsThere
  <2> SUFFICES ASSUME IInv, InFlight = {}, inOrder PROVE boards = there
    BY DEF ListsWhatIsThere
  <2>1. TypeOK /\ OrderInv
    BY Parts
  <2>2. \A r \in Runs : phase[r] = "idle"
    BY DEF InFlight
  <2>3. served = <<>>
    <3>1. served \in Seq(Runs) /\ \A i \in DOMAIN served : served[i] \in Runs
      BY <2>1, ElementOfSeq, LenProperties DEF TypeOK
    <3>2. DOMAIN served = {}
      BY <2>1, <2>2, <3>1 DEF OrderInv
    <3>3. Len(served) = 0
      BY <3>1, <3>2, LenProperties
    <3> QED
      BY <3>1, <3>3, EmptySeq
  <2> QED
    BY <2>1, <2>2, <2>3 DEF OrderInv, Coming
<1> QED
  BY <1>1, Invariance, PTL

\* BoardListPage.tsx:52: the field is emptied only for a text that has become a board.
THEOREM EmptiedOnlyWhenCreated == Spec => EmptiedOnlyIfCreated
<1>1. ASSUME IInv, [Next]_vars, title # None, title' = None
      PROVE  \E r \in Runs : /\ phase[r] # "idle" /\ phase'[r] = "idle"
                             /\ call[r].kind = "create" /\ call[r].text \in SE!ToSet(made)
  <2>1. TypeOK /\ RunsInv
    BY <1>1, Parts
  <2>2. ~Type
    BY <1>1, <2>1, TextsAssumption DEF Type, TypeOK
  <2>3. ASSUME NEW r \in Runs PROVE ~Submit(r) /\ ~remove(r) /\ ~Serve(r) /\ ~ServeLoad(r) /\ ~ActionEnds(r)
    BY <1>1 DEF Submit, remove, Begin, Serve, ServeLoad, ActionEnds, Answered, Lost, Acted, page
  <2>4. PICK r \in Runs : LoadEnds(r)
    BY <1>1, <2>2, <2>3 DEF Next, vars, page
  <2>5. /\ phase[r] \in {"loading", "loaded"} /\ phase'[r] = "idle"
        /\ call[r] # None /\ call[r].kind = "create" /\ failure[r] = None
    BY <1>1, <2>1, <2>4 DEF LoadEnds, LoadArrives, LoadFails, Finish, TitleAfter, TypeOK
  <2>6. call[r].text \in Texts /\ call[r] = Create(call[r].text)
    BY <2>1, <2>5, ActionFacts DEF TypeOK
  <2>7. Made(call[r].text)
    BY <2>1, <2>5, <2>6 DEF RunsInv, RunInv, Performed
  <2> QED
    BY <2>5, <2>7 DEF Made, SE!ToSet
<1>2. IInv /\ [Next]_vars =>
         [title # None /\ title' = None =>
            \E r \in Runs : /\ phase[r] # "idle" /\ phase'[r] = "idle"
                            /\ call[r].kind = "create" /\ call[r].text \in SE!ToSet(made)]_vars
  BY <1>1
<1> QED
  BY <1>2, Invariance, PTL DEF Spec, EmptiedOnlyIfCreated
=============================================================================
