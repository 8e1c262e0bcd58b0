------------------------- MODULE Containers_proofs -------------------------
(***************************************************************************)
(* The lists and dicts that the program hands over, which it may go on     *)
(* changing and which may contain each other: those that declarations copy *)
(* (Declare) and those that a result is made of (Encode).                  *)
(*                                                                         *)
(* Nothing a declaration or a plan binds can be reached by the program: no *)
(* list it holds is the list of a task or of a plan.  What plans bind was  *)
(* checked when it was declared, and so is among their dependencies.       *)
(***************************************************************************)
EXTENDS Declare, Encode, TLAPS

Contents == SUBSET Refs

Tasks == [name : Names, args : Nat, after : Contents]

Compiled == [graph : Graphs, names : Seq(Names), args : Seq(Nat), after : Seq(Contents),
             dependencies : Seq(SUBSET Nat), selected : SUBSET Nat]

DeclareTyped ==
    /\ tasks \in [Graphs -> Seq(Tasks)]
    /\ lists \in Seq(Contents)
    /\ held \subseteq DOMAIN lists
    /\ plans \in Seq(Compiled)

\* A list that the program cannot change any more.
Owned(list) == list \in DOMAIN lists \ held

\* The list of a task and the nodes it comes after: nodes of its own graph.
TasksOwn ==
    \A g \in Graphs : \A i \in DOMAIN tasks[g] :
        /\ Owned(tasks[g][i].args)
        /\ \A ref \in lists[tasks[g][i].args] \cup tasks[g][i].after : ref.owner = g /\ ref.name \in Declared(g)

PlansOwn ==
    \A p \in DOMAIN plans :
        /\ plans[p].selected \subseteq DOMAIN plans[p].names
        /\ \A i \in DOMAIN plans[p].names : Owned(plans[p].args[i])

DeclareInv == DeclareTyped /\ TasksOwn /\ PlansOwn /\ BindingsScheduled

\* What the steps of the program and of its callables have to show: that they
\* keep off the lists that are owned, and off what has been declared.
Keeps ==
    /\ \A list : Owned(list) => Owned(list)' /\ lists'[list] = lists[list]
    /\ \A g \in Graphs : \A i \in DOMAIN tasks[g] :
           /\ i \in DOMAIN tasks'[g]
           /\ tasks'[g][i].name = tasks[g][i].name /\ tasks'[g][i].args = tasks[g][i].args
           /\ tasks[g][i].after \subseteq tasks'[g][i].after
    /\ \A p \in DOMAIN plans : p \in DOMAIN plans' /\ plans'[p] = plans[p]

\* Appending to a sequence.
LEMMA Appended ==
    ASSUME NEW S, NEW s \in Seq(S), NEW t \in Seq(S)
    PROVE  /\ s \o t \in Seq(S) /\ DOMAIN s \subseteq DOMAIN (s \o t)
           /\ \A i \in DOMAIN s : (s \o t)[i] = s[i]
           /\ \A i \in DOMAIN t : Len(s) + i \in DOMAIN (s \o t) \ DOMAIN s /\ (s \o t)[Len(s) + i] = t[i]
           /\ \A x \in S : /\ Append(s, x) \in Seq(S) /\ DOMAIN Append(s, x) = DOMAIN s \cup {Len(s) + 1}
                           /\ Len(s) + 1 \notin DOMAIN s /\ Append(s, x)[Len(s) + 1] = x
                           /\ \A i \in DOMAIN s : Append(s, x)[i] = s[i]
OBVIOUS

\* The fields of what is declared and of what is compiled.
LEMMA DeclaredFields ==
    ASSUME DeclareTyped
    PROVE  /\ \A g \in Graphs : tasks[g] \in Seq(Tasks)
           /\ \A g \in Graphs : \A i \in DOMAIN tasks[g] :
                 tasks[g][i].name \in Names /\ tasks[g][i].args \in Nat /\ tasks[g][i].after \in Contents
           /\ \A list \in DOMAIN lists : lists[list] \in Contents
           /\ Len(lists) \in Nat /\ DOMAIN lists = 1 .. Len(lists)
<1>1. tasks \in [Graphs -> Seq(Tasks)] /\ lists \in Seq(Contents)
    BY DEF DeclareTyped
<1>2. ASSUME NEW g \in Graphs, NEW i \in DOMAIN tasks[g]
      PROVE  tasks[g][i].name \in Names /\ tasks[g][i].args \in Nat /\ tasks[g][i].after \in Contents
    <2>1. tasks[g] \in Seq(Tasks)
        BY <1>1
    <2>2. tasks[g][i] \in Tasks
        BY <1>2, <2>1
    <2> QED
        BY <2>2 DEF Tasks
<1>3. \A g \in Graphs : tasks[g] \in Seq(Tasks)
    BY <1>1
<1>4. /\ \A list \in DOMAIN lists : lists[list] \in Contents
      /\ Len(lists) \in Nat /\ DOMAIN lists = 1 .. Len(lists)
    BY <1>1
<1> QED
    BY <1>2, <1>3, <1>4

\* What the program passes is checked to be declared, and stays declared.
LEMMA DeclaredStays ==
    ASSUME Keeps, NEW g \in Graphs, NEW name \in Declared(g)
    PROVE  name \in Declared(g)'
<1>1. PICK i \in DOMAIN tasks[g] : name = tasks[g][i].name
    BY DEF Declared
<1>2. i \in DOMAIN tasks'[g] /\ tasks'[g][i].name = name
    BY <1>1 DEF Keeps
<1> QED
    BY <1>2 DEF Declared

LEMMA ChangeKeeps == DeclareInv /\ Change => Keeps /\ DeclareTyped'
<1> SUFFICES ASSUME DeclareInv, Change PROVE Keeps /\ DeclareTyped'
    OBVIOUS
<1> USE DEF DeclareInv, DeclareTyped
<1>1. PICK list \in held, content \in RefLists : lists' = [lists EXCEPT ![list] = content]
    BY DEF Change
<1>2. UNCHANGED <<tasks, held, plans>>
    BY DEF Change
<1>3. content \in Contents
    BY DEF RefLists, Returned, Contents
<1>4. lists' \in Seq(Contents) /\ DOMAIN lists' = DOMAIN lists
    BY <1>1, <1>3
<1>5. \A l : Owned(l) => Owned(l)' /\ lists'[l] = lists[l]
    BY <1>1, <1>2, <1>4 DEF Owned
<1> QED
    BY <1>2, <1>4, <1>5 DEF Keeps

\* A list that is copied is a new one.
LEMMA CopyKeeps ==
    ASSUME DeclareTyped, NEW list \in DOMAIN lists, lists' = Copied(list),
           held' \subseteq held \cup {Len(lists) + 1}
    PROVE  /\ \A l : Owned(l) => Owned(l)' /\ lists'[l] = lists[l]
           /\ lists' \in Seq(Contents) /\ held' \subseteq DOMAIN lists'
           /\ DOMAIN lists' = DOMAIN lists \cup {Len(lists) + 1} /\ Len(lists) + 1 \notin DOMAIN lists
           /\ lists'[Len(lists) + 1] = lists[list]
<1>1. lists[list] \in Contents /\ lists \in Seq(Contents) /\ held \subseteq DOMAIN lists
    BY DeclaredFields DEF DeclareTyped
<1>2. /\ lists' \in Seq(Contents)
      /\ DOMAIN lists' = DOMAIN lists \cup {Len(lists) + 1} /\ Len(lists) + 1 \notin DOMAIN lists
      /\ lists'[Len(lists) + 1] = lists[list]
      /\ \A l \in DOMAIN lists : lists'[l] = lists[l]
    BY <1>1, Appended DEF Copied
<1> QED
    BY <1>1, <1>2 DEF Owned

LEMMA AddKeeps ==
    ASSUME DeclareInv, NEW g \in Graphs, NEW name \in Names, NEW list \in held, NEW after \in RefLists,
           Add(g, name, list, after)
    PROVE  Keeps /\ DeclareTyped' /\ TasksOwn'
<1> DEFINE task == [name |-> name, args |-> Len(lists) + 1, after |-> after]
<1> USE DEF DeclareInv
<1>1. /\ \A ref \in lists[list] \cup after : Checks(g, ref)
      /\ lists' = Copied(list) /\ tasks' = [tasks EXCEPT ![g] = Append(@, task)]
      /\ UNCHANGED <<held, plans>>
    BY DEF Add
<1>2. /\ \A l : Owned(l) => Owned(l)' /\ lists'[l] = lists[l]
      /\ lists' \in Seq(Contents) /\ held' \subseteq DOMAIN lists'
      /\ DOMAIN lists' = DOMAIN lists \cup {Len(lists) + 1} /\ Len(lists) + 1 \notin DOMAIN lists
      /\ lists'[Len(lists) + 1] = lists[list]
    BY <1>1, CopyKeeps DEF DeclareTyped
<1>3. task \in Tasks
    BY DeclaredFields DEF Tasks, RefLists, Returned, Contents
<1>4. tasks \in [Graphs -> Seq(Tasks)]
    BY DEF DeclareTyped
<1> HIDE DEF task
<1>5. /\ tasks' \in [Graphs -> Seq(Tasks)]
      /\ DOMAIN tasks'[g] = DOMAIN tasks[g] \cup {Len(tasks[g]) + 1}
      /\ tasks'[g][Len(tasks[g]) + 1] = task
      /\ \A i \in DOMAIN tasks[g] : tasks'[g][i] = tasks[g][i]
      /\ \A h \in Graphs : h # g => tasks'[h] = tasks[h]
    <2>1. tasks'[g] = Append(tasks[g], task) /\ tasks[g] \in Seq(Tasks)
        BY <1>1, <1>4
    <2>2. /\ Append(tasks[g], task) \in Seq(Tasks)
          /\ DOMAIN Append(tasks[g], task) = DOMAIN tasks[g] \cup {Len(tasks[g]) + 1}
          /\ Append(tasks[g], task)[Len(tasks[g]) + 1] = task
          /\ \A i \in DOMAIN tasks[g] : Append(tasks[g], task)[i] = tasks[g][i]
        BY <1>3, <2>1, Appended
    <2> QED
        BY <1>1, <1>4, <2>1, <2>2
<1>6. Keeps
    <2>1. ASSUME NEW h \in Graphs, NEW i \in DOMAIN tasks[h]
          PROVE  i \in DOMAIN tasks'[h] /\ tasks'[h][i] = tasks[h][i]
        BY <1>5, <2>1
    <2> QED
        BY <1>1, <1>2, <2>1 DEF Keeps
<1>7. DeclareTyped'
    BY <1>1, <1>2, <1>5 DEF DeclareTyped
<1>8. ASSUME NEW h \in Graphs, NEW i \in DOMAIN tasks'[h]
      PROVE  /\ tasks'[h][i].args \in DOMAIN lists' \ held'
             /\ \A ref \in lists'[tasks'[h][i].args] \cup tasks'[h][i].after :
                    ref.owner = h /\ ref.name \in Declared(h)'
    <2>1. CASE i \in DOMAIN tasks[h]
        <3>1. tasks'[h][i] = tasks[h][i]
            BY <1>5, <2>1
        <3>2. /\ Owned(tasks[h][i].args)
              /\ \A ref \in lists[tasks[h][i].args] \cup tasks[h][i].after :
                     ref.owner = h /\ ref.name \in Declared(h)
            BY <2>1 DEF TasksOwn
        <3>3. /\ tasks[h][i].args \in DOMAIN lists' \ held'
              /\ lists'[tasks[h][i].args] = lists[tasks[h][i].args]
            BY <1>2, <3>2 DEF Owned
        <3>4. \A ref \in lists[tasks[h][i].args] \cup tasks[h][i].after :
                  ref.owner = h /\ ref.name \in Declared(h)'
            BY <1>6, <3>2, DeclaredStays
        <3> QED
            BY <3>1, <3>3, <3>4
    <2>2. CASE i \notin DOMAIN tasks[h]
        <3>1. h = g /\ tasks'[h][i] = task
            BY <1>5, <1>8, <2>2
        <3>2. task.args = Len(lists) + 1 /\ task.after = after
            BY DEF task
        <3>3. Len(lists) + 1 \in DOMAIN lists' \ held'
            BY <1>1, <1>2 DEF DeclareTyped
        <3>4. \A ref \in lists[list] \cup after : ref.owner = g /\ ref.name \in Declared(g)
            BY <1>1 DEF Checks
        <3>5. task.args \in DOMAIN lists' \ held'
            BY <3>2, <3>3
        <3>6. \A ref \in lists[list] \cup after : ref.owner = g /\ ref.name \in Declared(g)'
            BY <1>6, <3>4, DeclaredStays
        <3> QED
            BY <1>2, <3>1, <3>2, <3>5, <3>6
    <2> QED
        BY <2>1, <2>2
<1>9. TasksOwn'
    BY <1>8 DEF TasksOwn, Owned
<1> QED
    BY <1>6, <1>7, <1>9

LEMMA DependsOnKeeps ==
    ASSUME DeclareInv, NEW g \in Graphs, NEW i \in DOMAIN tasks[g], NEW refs \in RefLists,
           DependsOn(g, i, refs)
    PROVE  Keeps /\ DeclareTyped' /\ TasksOwn'
<1> USE DEF DeclareInv
<1>1. /\ \A ref \in refs : Checks(g, ref)
      /\ tasks' = [tasks EXCEPT ![g][i].after = @ \cup refs]
      /\ UNCHANGED <<lists, held, plans>>
    BY DEF DependsOn
<1> DEFINE task == [tasks[g][i] EXCEPT !.after = @ \cup refs]
<1>2. tasks \in [Graphs -> Seq(Tasks)] /\ tasks[g] \in Seq(Tasks)
    BY DeclaredFields DEF DeclareTyped
<1>3. tasks[g][i] \in Tasks /\ refs \in Contents
    BY <1>2 DEF RefLists, Returned, Contents
<1>4. task \in Tasks
    BY <1>3 DEF Tasks, Contents
<1>5. /\ task.name = tasks[g][i].name /\ task.args = tasks[g][i].args
      /\ task.after = tasks[g][i].after \cup refs
    BY <1>3 DEF Tasks
<1>a. tasks' = [tasks EXCEPT ![g] = [tasks[g] EXCEPT ![i] = task]]
    BY <1>1, <1>2
<1> HIDE DEF task
<1>6. /\ tasks' \in [Graphs -> Seq(Tasks)] /\ tasks'[g][i] = task
      /\ \A h \in Graphs : DOMAIN tasks'[h] = DOMAIN tasks[h]
      /\ \A h \in Graphs : \A j \in DOMAIN tasks[h] : (h # g \/ j # i) => tasks'[h][j] = tasks[h][j]
    <2>1. /\ [tasks[g] EXCEPT ![i] = task] \in Seq(Tasks)
          /\ DOMAIN [tasks[g] EXCEPT ![i] = task] = DOMAIN tasks[g]
        BY <1>2, <1>4
    <2>2. tasks'[g] = [tasks[g] EXCEPT ![i] = task] /\ \A h \in Graphs : h # g => tasks'[h] = tasks[h]
        BY <1>a, <1>2
    <2>3. tasks' \in [Graphs -> Seq(Tasks)]
        BY <1>a, <1>2, <2>1
    <2> QED
        BY <2>1, <2>2, <2>3
<1>7. ASSUME NEW h \in Graphs, NEW j \in DOMAIN tasks[h]
      PROVE  /\ tasks'[h][j].name = tasks[h][j].name /\ tasks'[h][j].args = tasks[h][j].args
             /\ tasks[h][j].after \subseteq tasks'[h][j].after
             /\ tasks'[h][j].after \subseteq tasks[h][j].after \cup {ref \in refs : h = g}
    BY <1>5, <1>6, <1>7
<1>8. Keeps
    BY <1>1, <1>6, <1>7 DEF Keeps, Owned
<1>9. DeclareTyped'
    BY <1>1, <1>6 DEF DeclareTyped
<1>10. ASSUME NEW h \in Graphs, NEW j \in DOMAIN tasks'[h]
       PROVE  /\ tasks'[h][j].args \in DOMAIN lists' \ held'
              /\ \A ref \in lists'[tasks'[h][j].args] \cup tasks'[h][j].after :
                     ref.owner = h /\ ref.name \in Declared(h)'
    <2>1. j \in DOMAIN tasks[h]
        BY <1>6, <1>10
    <2>2. /\ Owned(tasks[h][j].args)
          /\ \A ref \in lists[tasks[h][j].args] \cup tasks[h][j].after :
                 ref.owner = h /\ ref.name \in Declared(h)
        BY <2>1 DEF TasksOwn
    <2>3. \A ref \in refs : ref.owner = g /\ ref.name \in Declared(g)
        BY <1>1 DEF Checks
    <2>4. \A ref \in lists'[tasks'[h][j].args] \cup tasks'[h][j].after :
              ref.owner = h /\ ref.name \in Declared(h)
        BY <1>1, <1>7, <2>1, <2>2, <2>3
    <2>5. tasks'[h][j].args \in DOMAIN lists' \ held'
        BY <1>1, <1>7, <2>1, <2>2 DEF Owned
    <2>6. \A ref \in lists'[tasks'[h][j].args] \cup tasks'[h][j].after :
              ref.owner = h /\ ref.name \in Declared(h)'
        BY <1>8, <2>4, DeclaredStays
    <2> QED
        BY <2>5, <2>6
<1>11. TasksOwn'
    BY <1>10 DEF TasksOwn, Owned
<1> QED
    BY <1>8, <1>9, <1>11

\* A plan whose lists are its own, and whose bindings are scheduled.
PlanSound(p) ==
    /\ plans[p].selected \subseteq DOMAIN plans[p].names
    /\ \A i \in DOMAIN plans[p].names : plans[p].args[i] \in DOMAIN lists \ held
    /\ \A i \in plans[p].selected : \A ref \in lists[plans[p].args[i]] \cup plans[p].after[i] :
           /\ ref.owner = plans[p].graph
           /\ \E d \in plans[p].dependencies[i] \cap plans[p].selected : plans[p].names[d] = ref.name

LEMMA PlansSound == (PlansOwn /\ BindingsScheduled) <=> \A p \in DOMAIN plans : PlanSound(p)
BY DEF PlansOwn, BindingsScheduled, PlanSound, Owned, Bound

\* Steps that keep off what is owned leave the plans as they are.
LEMMA PlanStays ==
    ASSUME DeclareInv, Keeps, NEW p \in DOMAIN plans
    PROVE  /\ PlanSound(p)' /\ plans'[p] = plans[p]
           /\ \A i \in DOMAIN plans[p].names : lists'[plans[p].args[i]] = lists[plans[p].args[i]]
<1>1. PlanSound(p)
    BY PlansSound DEF DeclareInv
<1>2. plans'[p] = plans[p]
    BY DEF Keeps
<1>3. \A i \in DOMAIN plans[p].names :
          /\ lists'[plans[p].args[i]] = lists[plans[p].args[i]]
          /\ plans[p].args[i] \in DOMAIN lists' \ held'
    BY <1>1 DEF Keeps, Owned, PlanSound
<1> QED
    BY <1>1, <1>2, <1>3 DEF PlanSound

\* They leave the tasks as they are, too.
LEMMA TasksStay ==
    ASSUME DeclareInv, Keeps, tasks' = tasks
    PROVE  TasksOwn'
<1>1. ASSUME NEW g \in Graphs, NEW i \in DOMAIN tasks[g]
      PROVE  /\ tasks[g][i].args \in DOMAIN lists' \ held'
             /\ \A ref \in lists'[tasks[g][i].args] \cup tasks[g][i].after :
                    ref.owner = g /\ ref.name \in Declared(g)'
    <2>1. /\ Owned(tasks[g][i].args)
          /\ \A ref \in lists[tasks[g][i].args] \cup tasks[g][i].after :
                 ref.owner = g /\ ref.name \in Declared(g)
        BY <1>1 DEF DeclareInv, TasksOwn
    <2>2. /\ lists'[tasks[g][i].args] = lists[tasks[g][i].args]
          /\ tasks[g][i].args \in DOMAIN lists' \ held'
        BY <2>1 DEF Keeps, Owned
    <2> QED
        BY <2>1, <2>2, DeclaredStays
<1> QED
    BY <1>1 DEF TasksOwn, Owned

\* A callable is given lists of its own.
LEMMA InvokeKeeps ==
    ASSUME DeclareInv, NEW p \in DOMAIN plans, NEW i \in DOMAIN plans[p].names, Invoke(p, i)
    PROVE  Keeps /\ DeclareTyped'
<1>1. /\ lists' = Copied(plans[p].args[i]) /\ held' = held \cup {Len(lists) + 1}
      /\ UNCHANGED <<tasks, plans>>
    BY DEF Invoke
<1>2. DeclareTyped /\ plans[p].args[i] \in DOMAIN lists
    BY DEF DeclareInv, PlansOwn, Owned
<1>3. /\ \A l : Owned(l) => Owned(l)' /\ lists'[l] = lists[l]
      /\ lists' \in Seq(Contents) /\ held' \subseteq DOMAIN lists'
    BY <1>1, <1>2, CopyKeeps
<1>4. DeclareTyped'
    BY <1>1, <1>2, <1>3 DEF DeclareTyped
<1> QED
    BY <1>1, <1>3, <1>4 DEF Keeps

\* What a selected node depends on is selected.
LEMMA AboveClosed ==
    ASSUME NEW dependencies, NEW targets, \A j \in DOMAIN dependencies : dependencies[j] \subseteq DOMAIN dependencies,
           NEW i \in Above(dependencies, targets), NEW d \in dependencies[i]
    PROVE  d \in Above(dependencies, targets)
<1>1. i \in DOMAIN dependencies /\ d \in DOMAIN dependencies
    BY DEF Above
<1>2. ASSUME NEW C \in SUBSET DOMAIN dependencies, targets \subseteq C, \A j \in C : dependencies[j] \subseteq C
      PROVE  d \in C
    <2>1. i \in C
        BY <1>2 DEF Above
    <2> QED
        BY <1>2, <2>1
<1> QED
    BY <1>1, <1>2 DEF Above

\* What a task refers to is among the dependencies that a plan collects for it.
LEMMA ReferredIsDependency ==
    ASSUME DeclareInv, NEW g \in Graphs, NEW i \in DOMAIN tasks[g],
           NEW ref \in lists[tasks[g][i].args] \cup tasks[g][i].after
    PROVE  ref.owner = g /\ \E d \in Dependencies(g)[i] : d \in DOMAIN tasks[g] /\ tasks[g][d].name = ref.name
<1>1. ref.owner = g /\ ref.name \in Declared(g)
    BY DEF DeclareInv, TasksOwn
<1>2. PICK d \in DOMAIN tasks[g] : tasks[g][d].name = ref.name
    BY <1>1 DEF Declared
<1>3. d \in Dependencies(g)[i]
    BY <1>2 DEF Dependencies, Indices
<1> QED
    BY <1>1, <1>2, <1>3

\* A plan is compiled over new lists, and what its nodes refer to is selected
\* with them.
LEMMA CompileKeeps ==
    ASSUME DeclareInv, NEW g \in Graphs, NEW targets \in SUBSET Names, Compile(g, targets)
    PROVE  /\ Keeps /\ DeclareTyped'
           /\ \A p \in DOMAIN plans' \ DOMAIN plans : PlanSound(p)'
<1> DEFINE count == Len(tasks[g])
           copies == [i \in 1 .. count |-> lists[tasks[g][i].args]]
           selected == Above(Dependencies(g), Indices(g, targets))
           plan == [graph |-> g,
                    names |-> [i \in 1 .. count |-> tasks[g][i].name],
                    args |-> [i \in 1 .. count |-> Len(lists) + i],
                    after |-> [i \in 1 .. count |-> tasks[g][i].after],
                    dependencies |-> Dependencies(g),
                    selected |-> selected]
<1>1. lists' = lists \o copies /\ plans' = Append(plans, plan) /\ UNCHANGED <<tasks, held>>
    BY DEF Compile
<1>2. /\ DeclareTyped /\ tasks[g] \in Seq(Tasks) /\ count \in Nat /\ DOMAIN tasks[g] = 1 .. count
      /\ \A i \in 1 .. count :
             tasks[g][i].name \in Names /\ tasks[g][i].args \in DOMAIN lists /\ tasks[g][i].after \in Contents
      /\ \A list \in DOMAIN lists : lists[list] \in Contents
      /\ lists \in Seq(Contents) /\ Len(lists) \in Nat /\ DOMAIN lists = 1 .. Len(lists)
    <2>1. DeclareTyped
        BY DEF DeclareInv
    <2>2. tasks[g] \in Seq(Tasks)
        BY <2>1, DeclaredFields
    <2>3. \A i \in DOMAIN tasks[g] : tasks[g][i].args \in DOMAIN lists
        BY DEF DeclareInv, TasksOwn, Owned
    <2> QED
        BY <2>1, <2>2, <2>3, DeclaredFields DEF DeclareTyped
<1>3. copies \in Seq(Contents) /\ DOMAIN copies = 1 .. count /\ \A i \in 1 .. count : copies[i] = lists[tasks[g][i].args]
    BY <1>2
<1> HIDE DEF copies
<1>4. /\ lists' \in Seq(Contents) /\ DOMAIN lists \subseteq DOMAIN lists'
      /\ \A l \in DOMAIN lists : lists'[l] = lists[l]
      /\ \A i \in 1 .. count : /\ Len(lists) + i \in DOMAIN lists' \ DOMAIN lists
                               /\ lists'[Len(lists) + i] = lists[tasks[g][i].args]
    BY <1>1, <1>2, <1>3, Appended
<1>5. /\ Dependencies(g) \in Seq(SUBSET Nat) /\ DOMAIN Dependencies(g) = 1 .. count
      /\ \A j \in 1 .. count : Dependencies(g)[j] \subseteq 1 .. count
    BY <1>2 DEF Dependencies, Indices
<1>6. selected \subseteq 1 .. count
    BY <1>5 DEF Above
<1>7. /\ plan.graph = g /\ plan.dependencies = Dependencies(g) /\ plan.selected = selected
      /\ plan.names \in Seq(Names) /\ DOMAIN plan.names = 1 .. count
      /\ plan.args \in Seq(Nat) /\ plan.after \in Seq(Contents)
      /\ \A i \in 1 .. count : /\ plan.names[i] = tasks[g][i].name
                               /\ plan.args[i] = Len(lists) + i /\ plan.after[i] = tasks[g][i].after
    BY <1>2
<1>8. plan \in Compiled
    <2>1. selected \in SUBSET Nat
        BY <1>6
    <2> HIDE DEF selected
    <2> QED
        BY <1>2, <1>5, <2>1 DEF Compiled
<1> HIDE DEF plan
<1>9. /\ plans' \in Seq(Compiled)
      /\ DOMAIN plans' = DOMAIN plans \cup {Len(plans) + 1} /\ plans'[Len(plans) + 1] = plan
      /\ \A p \in DOMAIN plans : plans'[p] = plans[p]
    <2>1. plans \in Seq(Compiled)
        BY <1>2 DEF DeclareTyped
    <2> QED
        BY <1>1, <1>8, <2>1, Appended
<1>10. held \subseteq DOMAIN lists
    BY <1>2 DEF DeclareTyped
<1>11. DeclareTyped'
    <2>1. held' \subseteq DOMAIN lists' /\ tasks' \in [Graphs -> Seq(Tasks)]
        BY <1>1, <1>2, <1>4, <1>10 DEF DeclareTyped
    <2> QED
        BY <1>4, <1>9, <2>1 DEF DeclareTyped
<1>12. Keeps
    <2>1. \A l : Owned(l) => Owned(l)' /\ lists'[l] = lists[l]
        BY <1>1, <1>4 DEF Owned
    <2> QED
        BY <1>1, <1>9, <2>1 DEF Keeps
<1>13. ASSUME NEW i \in 1 .. count
       PROVE  /\ plan.args[i] \in DOMAIN lists' \ held'
              /\ lists'[plan.args[i]] = lists[tasks[g][i].args]
    <2>1. plan.args[i] = Len(lists) + i
        BY <1>7
    <2>2. /\ Len(lists) + i \in DOMAIN lists' \ DOMAIN lists
          /\ lists'[Len(lists) + i] = lists[tasks[g][i].args]
        BY <1>4
    <2>3. held' = held
        BY <1>1
    <2> QED
        BY <1>10, <2>1, <2>2, <2>3
<1>14. ASSUME NEW i \in selected, NEW ref \in lists'[plan.args[i]] \cup plan.after[i]
       PROVE  /\ ref.owner = plan.graph
              /\ \E d \in plan.dependencies[i] \cap plan.selected : plan.names[d] = ref.name
    <2>1. i \in DOMAIN tasks[g] /\ ref \in lists[tasks[g][i].args] \cup tasks[g][i].after
        BY <1>2, <1>6, <1>7, <1>13, <1>14
    <2>2. PICK d \in Dependencies(g)[i] : d \in DOMAIN tasks[g] /\ tasks[g][d].name = ref.name
        BY <2>1, ReferredIsDependency
    <2>3. d \in selected
        BY <1>5, <1>14, <2>2, AboveClosed
    <2>4. plan.names[d] = ref.name
        BY <1>2, <1>7, <2>2
    <2> QED
        BY <1>7, <2>1, <2>2, <2>3, <2>4, ReferredIsDependency
<1>15. ASSUME NEW p \in DOMAIN plans' \ DOMAIN plans
       PROVE  PlanSound(p)'
    <2>1. plans'[p] = plan
        BY <1>9, <1>15
    <2>2. plan.selected \subseteq DOMAIN plan.names /\ plan.selected = selected
        BY <1>6, <1>7
    <2>3. \A i \in DOMAIN plan.names : plan.args[i] \in DOMAIN lists' \ held'
        BY <1>7, <1>13
    <2>4. \A i \in plan.selected : \A ref \in lists'[plan.args[i]] \cup plan.after[i] :
              /\ ref.owner = plan.graph
              /\ \E d \in plan.dependencies[i] \cap plan.selected : plan.names[d] = ref.name
        BY <1>14, <2>2
    <2> HIDE DEF selected
    <2> QED
        BY <2>1, <2>2, <2>3, <2>4 DEF PlanSound
<1> QED
    BY <1>11, <1>12, <1>15

LEMMA DeclareInitially == DeclareInit => DeclareInv
<1> SUFFICES ASSUME DeclareInit PROVE DeclareInv
    OBVIOUS
<1>1. /\ tasks \in [Graphs -> Seq(Tasks)] /\ lists \in Seq(Contents) /\ held \subseteq DOMAIN lists
      /\ plans = <<>> /\ \A g \in Graphs : tasks[g] = <<>>
    BY DEF DeclareInit, Contents
<1>2. DeclareTyped
    BY <1>1 DEF DeclareTyped
<1>3. TasksOwn
    BY <1>1 DEF TasksOwn
<1>4. PlansOwn /\ BindingsScheduled
    BY <1>1 DEF PlansOwn, BindingsScheduled
<1> QED
    BY <1>2, <1>3, <1>4 DEF DeclareInv

\* Every step keeps off what is owned; the tasks it leaves and the plan it
\* makes, if any, are sound.
LEMMA DeclareStep ==
    ASSUME DeclareInv, [DeclareNext]_declareVars
    PROVE  /\ Keeps /\ DeclareTyped' /\ TasksOwn'
           /\ \A p \in DOMAIN plans' \ DOMAIN plans : PlanSound(p)'
<1>1. CASE Change
    <2>1. Keeps /\ DeclareTyped' /\ tasks' = tasks /\ plans' = plans
        BY <1>1, ChangeKeeps DEF Change
    <2> QED
        BY <2>1, TasksStay
<1>2. ASSUME NEW g \in Graphs, NEW name \in Names, NEW list \in held, NEW after \in RefLists, Add(g, name, list, after)
      PROVE  Keeps /\ DeclareTyped' /\ TasksOwn' /\ plans' = plans
    BY <1>2, AddKeeps DEF Add
<1>3. ASSUME NEW g \in Graphs, NEW i \in DOMAIN tasks[g], NEW refs \in RefLists, DependsOn(g, i, refs)
      PROVE  Keeps /\ DeclareTyped' /\ TasksOwn' /\ plans' = plans
    BY <1>3, DependsOnKeeps DEF DependsOn
<1>4. ASSUME NEW g \in Graphs, NEW targets \in SUBSET Names, Compile(g, targets)
      PROVE  /\ Keeps /\ DeclareTyped' /\ TasksOwn'
             /\ \A p \in DOMAIN plans' \ DOMAIN plans : PlanSound(p)'
    <2>1. tasks' = tasks
        BY <1>4 DEF Compile
    <2>2. /\ Keeps /\ DeclareTyped'
          /\ \A p \in DOMAIN plans' \ DOMAIN plans : PlanSound(p)'
        BY <1>4, CompileKeeps
    <2> QED
        BY <2>1, <2>2, TasksStay
<1>5. ASSUME NEW p \in DOMAIN plans, NEW i \in DOMAIN plans[p].names, Invoke(p, i)
      PROVE  Keeps /\ DeclareTyped' /\ TasksOwn' /\ plans' = plans
    <2>1. Keeps /\ DeclareTyped' /\ tasks' = tasks /\ plans' = plans
        BY <1>5, InvokeKeeps DEF Invoke
    <2> QED
        BY <2>1, TasksStay
<1>6. CASE UNCHANGED declareVars
    <2>1. Keeps /\ tasks' = tasks /\ plans' = plans
        BY <1>6 DEF declareVars, Keeps, Owned
    <2>2. DeclareTyped'
        BY <1>6 DEF DeclareInv, declareVars, DeclareTyped
    <2> QED
        BY <2>1, <2>2, TasksStay
<1> QED
    BY <1>1, <1>2, <1>3, <1>4, <1>5, <1>6 DEF DeclareNext

\* What is declared and what is compiled stays sound.
LEMMA DeclareKept == DeclareInv /\ [DeclareNext]_declareVars => DeclareInv'
<1> SUFFICES ASSUME DeclareInv, [DeclareNext]_declareVars PROVE DeclareInv'
    OBVIOUS
<1>1. /\ Keeps /\ DeclareTyped' /\ TasksOwn'
      /\ \A p \in DOMAIN plans' \ DOMAIN plans : PlanSound(p)'
    BY DeclareStep
<1>2. \A p \in DOMAIN plans' : PlanSound(p)'
    BY <1>1, PlanStays
<1>3. (\A p \in DOMAIN plans : PlanSound(p))'
    BY <1>2
<1>4. PlansOwn' /\ BindingsScheduled'
    BY <1>3, PlansSound, PTL
<1> QED
    BY <1>1, <1>4 DEF DeclareInv

THEOREM DeclareInvariant == DeclareSpec => []DeclareInv
BY DeclareInitially, DeclareKept, PTL DEF DeclareSpec

\* Whatever the order of declarations, compilations and calls: what a node of a
\* plan takes results from is of its own graph and scheduled before it.
THEOREM BindingsAreScheduled == DeclareSpec => []BindingsScheduled
<1>1. DeclareInv => BindingsScheduled
    BY DEF DeclareInv
<1> QED
    BY <1>1, DeclareInvariant, PTL

\* What a plan binds and what a graph has been told never changes again, though
\* the program and its callables go on changing the lists they have.
THEOREM BindingsAreFrozen == DeclareSpec => BindingsFrozen
<1> DEFINE Frozen ==
        /\ \A p \in DOMAIN plans :
              /\ plans'[p] = plans[p]
              /\ \A i \in DOMAIN plans[p].names : lists'[plans[p].args[i]] = lists[plans[p].args[i]]
        /\ \A g \in Graphs : \A i \in DOMAIN tasks[g] :
              /\ tasks'[g][i].name = tasks[g][i].name
              /\ lists'[tasks'[g][i].args] = lists[tasks[g][i].args]
              /\ tasks[g][i].after \subseteq tasks'[g][i].after
<1>1. DeclareInv /\ [DeclareNext]_declareVars => Frozen
    <2> SUFFICES ASSUME DeclareInv, [DeclareNext]_declareVars PROVE Frozen
        OBVIOUS
    <2>1. Keeps
        BY DeclareStep
    <2>2. \A g \in Graphs : \A i \in DOMAIN tasks[g] : Owned(tasks[g][i].args)
        BY DEF DeclareInv, TasksOwn
    <2> QED
        BY <2>1, <2>2, PlanStays DEF Keeps
<1> QED
    BY <1>1, DeclareInvariant, PTL DEF DeclareSpec, BindingsFrozen

-----------------------------------------------------------------------------
Frames == [container : Objects \cup {NoContainer}, rest : Seq(Objects)]

Heaps == [Objects -> {Leaf, Foreign} \cup Containers]

\* What the loop of a frame looks at: the root, or the items of its container.
Below(frame) == IF frame.container = NoContainer THEN {Root} ELSE Items(frame.container)

Rest(frame) == {frame.rest[i] : i \in DOMAIN frame.rest}

\* Only the outermost frame is in no container, no two are in the same one, and
\* check carries the identities of those it is in.
FramesDistinct(frames, ids) ==
    /\ \A k \in DOMAIN frames : (k = 1) <=> (frames[k].container = NoContainer)
    /\ \A k \in DOMAIN frames \ {1} : heap[frames[k].container].kind = "container"
    /\ \A j, k \in DOMAIN frames : frames[j].container = frames[k].container => j = k
    /\ ids = {frames[k].container : k \in DOMAIN frames \ {1}}

\* What a frame has still to look at is in its container, and what it has looked
\* at can be written down, but for the container that the next frame is in.
FramesCover(frames) ==
    \A k \in DOMAIN frames :
        /\ Rest(frames[k]) \subseteq Below(frames[k])
        /\ \A o \in Below(frames[k]) \ Rest(frames[k]) :
               Writable(o) \/ (k + 1 \in DOMAIN frames /\ o = frames[k + 1].container)

\* Every frame is in a container that the frames before it hold.
FramesNested(frames) ==
    \A j, k \in DOMAIN frames : j < k => frames[k].container \in Held(Below(frames[j]))

FramesSound(frames, ids) ==
    /\ heap \in Heaps /\ frames \in Seq(Frames) /\ frames # <<>>
    /\ FramesDistinct(frames, ids) /\ FramesCover(frames) /\ FramesNested(frames)

EncodeInv == FramesSound(stack, seen) /\ VerdictRight

-----------------------------------------------------------------------------
LEMMA ItemsAreObjects ==
    ASSUME heap \in Heaps, NEW o \in Objects
    PROVE  /\ heap[o].items \in Seq(Objects) /\ Items(o) \subseteq Objects
           /\ heap[o].kind # "container" => Items(o) = {}
<1>1. heap[o] \in {Leaf, Foreign} \cup Containers
    BY DEF Heaps
<1>2. CASE heap[o] \in {Leaf, Foreign}
    <2>1. heap[o].items = <<>>
        BY <1>2 DEF Leaf, Foreign
    <2>2. <<>> \in Seq(Objects) /\ DOMAIN <<>> = {}
        OBVIOUS
    <2>3. Items(o) = {}
        BY <2>1, <2>2 DEF Items
    <2> QED
        BY <2>1, <2>2, <2>3
<1>3. CASE heap[o] \in Containers
    <2>1. PICK s \in BoundedSeq(Objects, MaxItems) : heap[o] = [kind |-> "container", items |-> s]
        BY <1>3 DEF Containers
    <2>2. PICK m \in 0 .. MaxItems : s \in [1 .. m -> Objects]
        BY DEF BoundedSeq, SeqOf
    <2>3. m \in Nat /\ s \in Seq(Objects)
        BY <2>2, EncodeAssumption DEF EncodeAssumption
    <2>4. heap[o].items = s /\ heap[o].kind = "container"
        BY <2>1
    <2> QED
        BY <2>3, <2>4 DEF Items
<1> QED
    BY <1>1, <1>2, <1>3

\* A set of objects that includes these and what its own members hold includes
\* whatever these hold.
LEMMA HeldLeast ==
    ASSUME NEW S, NEW C \in SUBSET Objects, S \subseteq C, \A o \in C : Items(o) \subseteq C
    PROVE  Held(S) \subseteq C
BY DEF Held

\* Held is such a set.
LEMMA HeldClosed ==
    ASSUME heap \in Heaps, NEW S \in SUBSET Objects
    PROVE  S \subseteq Held(S) /\ Held(S) \subseteq Objects /\ \A o \in Held(S) : Items(o) \subseteq Held(S)
<1>1. S \subseteq Held(S) /\ Held(S) \subseteq Objects
    BY DEF Held
<1>2. ASSUME NEW o \in Held(S), NEW item \in Items(o)
      PROVE  item \in Held(S)
    <2>1. item \in Objects /\ o \in Objects
        BY <1>1, ItemsAreObjects
    <2>2. ASSUME NEW C \in SUBSET Objects, S \subseteq C, \A x \in C : Items(x) \subseteq C
          PROVE  item \in C
        <3>1. o \in C
            BY <2>2, HeldLeast
        <3> QED
            BY <2>2, <3>1
    <2> QED
        BY <2>1, <2>2 DEF Held
<1> QED
    BY <1>1, <1>2

\* What an object holds that is held.
LEMMA HeldThrough ==
    ASSUME heap \in Heaps, NEW S \in SUBSET Objects, NEW o \in Held(S)
    PROVE  Held({o}) \subseteq Held(S) /\ Held(Items(o)) \subseteq Held(S)
BY HeldClosed, HeldLeast

\* What a container holds is an item of it, or held by one.
LEMMA HeldByAnItem ==
    ASSUME heap \in Heaps, NEW c \in Objects, NEW o \in Held(Items(c))
    PROVE  \E item \in Items(c) : o \in Held({item})
<1> DEFINE C == {x \in Objects : \E item \in Items(c) : x \in Held({item})}
<1>1. Items(c) \subseteq Objects
    BY ItemsAreObjects
<1>2. Items(c) \subseteq C
    BY <1>1, HeldClosed
<1>3. ASSUME NEW x \in C, NEW y \in Items(x)
      PROVE  y \in C
    <2>1. PICK item \in Items(c) : x \in Held({item})
        OBVIOUS
    <2>2. y \in Held({item}) /\ y \in Objects
        BY <1>1, <2>1, HeldClosed, ItemsAreObjects
    <2> QED
        BY <2>2
<1>4. Held(Items(c)) \subseteq C
    BY <1>2, <1>3, HeldLeast
<1> QED
    BY <1>4

\* An object alone is held by itself; a container holds what its items hold.
LEMMA HeldAlone ==
    ASSUME heap \in Heaps, NEW c \in Objects, NEW o \in Held({c})
    PROVE  o = c \/ o \in Held(Items(c))
<1> DEFINE C == {c} \cup Held(Items(c))
<1>1. /\ Items(c) \subseteq Held(Items(c)) /\ Held(Items(c)) \subseteq Objects
      /\ \A x \in Held(Items(c)) : Items(x) \subseteq Held(Items(c))
    BY ItemsAreObjects, HeldClosed
<1>2. C \in SUBSET Objects /\ {c} \subseteq C /\ \A x \in C : Items(x) \subseteq C
    BY <1>1
<1> HIDE DEF C
<1>3. Held({c}) \subseteq C
    BY <1>2, HeldLeast
<1> QED
    BY <1>3 DEF C

LEMMA LeafWritable ==
    ASSUME heap \in Heaps, NEW o \in Objects, heap[o].kind = "leaf"
    PROVE  Writable(o)
<1>1. Items(o) = {}
    BY ItemsAreObjects
<1>2. Held(Items(o)) = {}
    BY <1>1, HeldLeast
<1>3. \A x \in Held({o}) : x = o
    BY <1>2, HeldAlone
<1> QED
    BY <1>2, <1>3 DEF Writable

\* A container of items that can be written down can be written down: it cannot
\* be in itself, or it would be in one of them.
LEMMA ContainerWritable ==
    ASSUME heap \in Heaps, NEW c \in Objects, heap[c].kind = "container", \A item \in Items(c) : Writable(item)
    PROVE  Writable(c)
<1>1. ASSUME NEW o \in Held(Items(c))
      PROVE  heap[o].kind # "foreign" /\ o \notin Held(Items(o))
    <2>1. PICK item \in Items(c) : o \in Held({item})
        BY HeldByAnItem
    <2> QED
        BY <2>1 DEF Writable
<1>2. c \notin Held(Items(c))
    BY <1>1
<1>3. \A o \in Held({c}) : o = c \/ o \in Held(Items(c))
    BY HeldAlone
<1> QED
    BY <1>1, <1>2, <1>3 DEF Writable

\* A frame: its container, what it looks at and what it has still to look at.
LEMMA FrameFields ==
    ASSUME FramesSound(stack, seen), NEW k \in DOMAIN stack
    PROVE  /\ Len(stack) \in Nat /\ Len(stack) \in DOMAIN stack /\ DOMAIN stack = 1 .. Len(stack)
           /\ stack[k] \in Frames /\ Below(stack[k]) \in SUBSET Objects
           /\ Rest(stack[k]) \subseteq Below(stack[k])
           /\ k = 1 => Below(stack[k]) = {Root}
           /\ k # 1 => /\ stack[k].container \in Objects
                       /\ Below(stack[k]) = Items(stack[k].container)
<1>1. /\ heap \in Heaps /\ stack \in Seq(Frames) /\ stack # <<>>
      /\ FramesDistinct(stack, seen) /\ FramesCover(stack)
    BY DEF FramesSound
<1>2. Len(stack) \in Nat /\ Len(stack) \in DOMAIN stack /\ DOMAIN stack = 1 .. Len(stack) /\ stack[k] \in Frames
    BY <1>1
<1>3. stack[k].container \in Objects \cup {NoContainer} /\ ((k = 1) <=> (stack[k].container = NoContainer))
    BY <1>1, <1>2 DEF Frames, FramesDistinct
<1>4. Root \in Objects
    BY EncodeAssumption DEF EncodeAssumption, Root, Objects
<1>5. /\ Below(stack[k]) \in SUBSET Objects
      /\ k = 1 => Below(stack[k]) = {Root}
      /\ k # 1 => Below(stack[k]) = Items(stack[k].container)
    BY <1>1, <1>3, <1>4, ItemsAreObjects DEF Below
<1> QED
    BY <1>1, <1>2, <1>3, <1>5 DEF FramesCover

\* What the innermost frame looks at is held by all that the others look at.
LEMMA MetIsHeld ==
    ASSUME FramesSound(stack, seen), NEW j \in DOMAIN stack, NEW o \in Below(stack[Len(stack)])
    PROVE  o \in Held(Below(stack[j]))
<1> DEFINE n == Len(stack)
<1>1. heap \in Heaps /\ FramesNested(stack) /\ n \in DOMAIN stack /\ n \in Nat /\ j \in 1 .. n
    BY FrameFields DEF FramesSound
<1>2. Below(stack[j]) \in SUBSET Objects
    BY FrameFields
<1>3. CASE j = n
    BY <1>1, <1>2, <1>3, HeldClosed
<1>4. CASE j # n
    <2>1. j < n /\ n # 1
        BY <1>1, <1>4
    <2>2. stack[n].container \in Held(Below(stack[j]))
        BY <1>1, <2>1 DEF FramesNested
    <2>3. o \in Items(stack[n].container)
        BY <1>1, <2>1, FrameFields
    <2> QED
        BY <1>1, <1>2, <2>2, <2>3, HeldClosed
<1> QED
    BY <1>3, <1>4

\* The loop of the innermost frame goes on: one object less to look at.
LEMMA AdvancedFields ==
    ASSUME FramesSound(stack, seen), NEW object, Looking(object)
    PROVE  LET n == Len(stack)
           IN  /\ Advanced \in Seq(Frames) /\ DOMAIN Advanced = 1 .. n /\ Len(Advanced) = n /\ n \in Nat \ {0}
               /\ \A k \in 1 .. n : Advanced[k].container = stack[k].container
               /\ \A k \in 1 .. n : k # n => Advanced[k] = stack[k]
               /\ Rest(Advanced[n]) \subseteq Rest(stack[n])
               /\ Rest(stack[n]) = Rest(Advanced[n]) \cup {object}
<1> DEFINE n == Len(stack)
           frame == [stack[n] EXCEPT !.rest = Tail(@)]
<1>1. /\ stack \in Seq(Frames) /\ n \in Nat \ {0} /\ n \in DOMAIN stack /\ DOMAIN stack = 1 .. n
      /\ stack[n] \in Frames
    BY DEF FramesSound
<1>2. stack[n].rest \in Seq(Objects) /\ stack[n].rest # <<>> /\ object = Head(stack[n].rest)
    BY <1>1 DEF Looking, Top, Frames
<1>3. Tail(stack[n].rest) \in Seq(Objects)
    BY <1>2
<1>4. /\ frame \in Frames /\ frame.container = stack[n].container
      /\ frame.rest = Tail(stack[n].rest)
    BY <1>1, <1>3 DEF Frames
<1>5. Advanced = [stack EXCEPT ![n] = frame]
    BY <1>1 DEF Advanced
<1> HIDE DEF frame
<1>6. /\ Advanced \in Seq(Frames) /\ DOMAIN Advanced = 1 .. n /\ Len(Advanced) = n
      /\ \A k \in 1 .. n : k # n => Advanced[k] = stack[k]
      /\ Advanced[n] = frame
    BY <1>1, <1>4, <1>5
<1>7. Rest(stack[n]) = Rest(frame) \cup {object}
    <2> DEFINE r == stack[n].rest
    <2>1. r \in Seq(Objects) /\ r # <<>> /\ object = r[1] /\ Len(r) \in Nat /\ DOMAIN r = 1 .. Len(r)
        BY <1>2
    <2>2. DOMAIN Tail(r) = 1 .. (Len(r) - 1) /\ \A i \in 1 .. (Len(r) - 1) : Tail(r)[i] = r[i + 1]
        BY <2>1
    <2>3. ASSUME NEW i \in DOMAIN r
          PROVE  r[i] = object \/ r[i] \in Rest(frame)
        <3>1. CASE i = 1
            BY <2>1, <3>1
        <3>2. CASE i # 1
            <4>1. i - 1 \in DOMAIN Tail(r) /\ Tail(r)[i - 1] = r[i]
                BY <2>1, <2>2, <2>3, <3>2
            <4> QED
                BY <1>4, <4>1 DEF Rest
        <3> QED
            BY <3>1, <3>2
    <2>4. ASSUME NEW i \in DOMAIN Tail(r)
          PROVE  Tail(r)[i] \in Rest(stack[n])
        <3>1. i + 1 \in DOMAIN r /\ Tail(r)[i] = r[i + 1]
            BY <2>1, <2>2, <2>4
        <3> QED
            BY <3>1 DEF Rest
    <2>5. object \in Rest(stack[n])
        BY <2>1 DEF Rest
    <2>6. Rest(frame) \subseteq Rest(stack[n])
        BY <1>4, <2>4 DEF Rest
    <2>7. Rest(stack[n]) \subseteq Rest(frame) \cup {object}
        BY <2>3 DEF Rest
    <2> QED
        BY <2>5, <2>6, <2>7
<1>8. \A k \in 1 .. n : Advanced[k].container = stack[k].container
    BY <1>4, <1>6
<1> QED
    BY <1>1, <1>6, <1>7, <1>8

LEMMA PassLeafSound ==
    ASSUME FramesSound(stack, seen), NEW object \in Objects, PassLeaf(object)
    PROVE  FramesSound(stack', seen')
<1> DEFINE n == Len(stack)
<1>1. Looking(object) /\ stack' = Advanced /\ seen' = seen /\ heap[object].kind = "leaf"
    BY DEF PassLeaf
<1>2. /\ stack' \in Seq(Frames) /\ DOMAIN stack' = 1 .. n /\ n \in Nat \ {0}
      /\ \A k \in 1 .. n : stack'[k].container = stack[k].container
      /\ \A k \in 1 .. n : k # n => stack'[k] = stack[k]
      /\ Rest(stack'[n]) \subseteq Rest(stack[n])
      /\ Rest(stack[n]) = Rest(stack'[n]) \cup {object}
    BY <1>1, AdvancedFields
<1>3. /\ DOMAIN stack = 1 .. n /\ n \in DOMAIN stack /\ heap \in Heaps
      /\ stack' # <<>>
    BY <1>2 DEF FramesSound
<1>a. n \in Nat \ {0}
    BY <1>2
<1> HIDE DEF n
<1>4. \A k \in 1 .. n : Below(stack'[k]) = Below(stack[k])
    BY <1>2 DEF Below
<1>5. Writable(object)
    BY <1>1, <1>3, LeafWritable
<1>6. FramesCover(stack) /\ FramesDistinct(stack, seen) /\ FramesNested(stack)
    BY DEF FramesSound
<1>7. FramesCover(stack')
    <2>1. ASSUME NEW k \in 1 .. n
          PROVE  /\ Rest(stack'[k]) \subseteq Below(stack[k])
                 /\ \A o \in Below(stack[k]) \ Rest(stack'[k]) :
                        Writable(o) \/ (k + 1 \in 1 .. n /\ o = stack'[k + 1].container)
        <3>1. /\ Rest(stack[k]) \subseteq Below(stack[k])
              /\ \A o \in Below(stack[k]) \ Rest(stack[k]) :
                     Writable(o) \/ (k + 1 \in 1 .. n /\ o = stack[k + 1].container)
            BY <1>3, <1>6, <2>1 DEF FramesCover
        <3>2. CASE k = n
            BY <1>2, <1>5, <3>1, <3>2
        <3>3. CASE k # n
            BY <1>2, <3>1, <3>3
        <3> QED
            BY <3>2, <3>3
    <2> QED
        BY <1>2, <1>4, <2>1 DEF FramesCover
<1>8. FramesDistinct(stack', seen')
    BY <1>1, <1>2, <1>3, <1>6 DEF FramesDistinct
<1>9. FramesNested(stack')
    BY <1>2, <1>3, <1>4, <1>6 DEF FramesNested
<1> QED
    BY <1>2, <1>3, <1>7, <1>8, <1>9 DEF FramesSound

LEMMA EnterSound ==
    ASSUME FramesSound(stack, seen), NEW object \in Objects, Enter(object)
    PROVE  FramesSound(stack', seen')
<1> DEFINE n == Len(stack)
           frame == [container |-> object, rest |-> heap[object].items]
<1>1. /\ Looking(object) /\ stack' = Append(Advanced, frame) /\ seen' = seen \cup {object}
      /\ heap[object].kind = "container" /\ object \notin seen
    BY DEF Enter
<1>2. /\ Advanced \in Seq(Frames) /\ DOMAIN Advanced = 1 .. n /\ Len(Advanced) = n /\ n \in Nat \ {0}
      /\ \A k \in 1 .. n : Advanced[k].container = stack[k].container
      /\ \A k \in 1 .. n : k # n => Advanced[k] = stack[k]
      /\ Rest(Advanced[n]) \subseteq Rest(stack[n])
      /\ Rest(stack[n]) = Rest(Advanced[n]) \cup {object}
    BY <1>1, AdvancedFields
<1>3. DOMAIN stack = 1 .. n /\ n \in DOMAIN stack /\ heap \in Heaps
    BY DEF FramesSound
<1>a. n \in Nat \ {0}
    BY <1>2
<1>b. /\ \A k \in 1 .. n + 1 : k \in 1 .. n \/ k = n + 1
      /\ (1 .. n + 1) \ {1} = ((1 .. n) \ {1}) \cup {n + 1}
      /\ \A k \in 1 .. n : k \in 1 .. n + 1 /\ k # n + 1 /\ (k # n => k + 1 \in 1 .. n)
      /\ n + 1 \in 1 .. n + 1 /\ n + 1 # 1 /\ n \in 1 .. n
    <2> HIDE DEF n
    <2> QED
        BY <1>a
<1>4. FramesCover(stack) /\ FramesDistinct(stack, seen) /\ FramesNested(stack)
    BY DEF FramesSound
<1>5. frame \in Frames /\ frame.container = object /\ object # NoContainer /\ Below(frame) = Rest(frame)
    <2>1. heap[object].items \in Seq(Objects)
        BY <1>3, ItemsAreObjects
    <2>2. frame \in Frames /\ object # NoContainer
        BY <2>1, EncodeAssumption DEF Frames, Objects, NoContainer, EncodeAssumption
    <2> QED
        BY <2>2 DEF Below, Rest, Items
<1> HIDE DEF frame
<1>6. /\ stack' \in Seq(Frames) /\ stack' # <<>> /\ DOMAIN stack' = 1 .. n + 1 /\ stack'[n + 1] = frame
      /\ \A k \in 1 .. n : stack'[k] = Advanced[k]
    <2> HIDE DEF n
    <2>1. Advanced \in Seq(Frames) /\ Len(Advanced) = n /\ DOMAIN Advanced = 1 .. n
        BY <1>2
    <2>2. stack' \in Seq(Frames) /\ DOMAIN stack' = (1 .. n) \cup {n + 1} /\ stack'[n + 1] = frame
        BY <1>1, <1>5, <2>1, Appended
    <2>3. \A k \in 1 .. n : stack'[k] = Advanced[k]
        BY <1>1, <1>5, <2>1, Appended
    <2> QED
        BY <1>a, <2>2, <2>3
<1> HIDE DEF n
<1>7. \A k \in 1 .. n : Below(stack'[k]) = Below(stack[k]) /\ stack'[k].container = stack[k].container
    BY <1>2, <1>6 DEF Below
<1>8. object \in Below(stack[n]) /\ \A k \in 1 .. n : object \in Held(Below(stack[k]))
    <2> USE DEF n
    <2>1. object \in Below(stack[n])
        BY <1>2, <1>3, FrameFields
    <2> QED
        BY <1>3, <2>1, MetIsHeld
<1>9. FramesCover(stack')
    <2>1. ASSUME NEW k \in 1 .. n
          PROVE  /\ Rest(stack'[k]) \subseteq Below(stack[k])
                 /\ \A o \in Below(stack[k]) \ Rest(stack'[k]) :
                        Writable(o) \/ (k + 1 \in 1 .. n + 1 /\ o = stack'[k + 1].container)
        <3>1. /\ Rest(stack[k]) \subseteq Below(stack[k])
              /\ \A o \in Below(stack[k]) \ Rest(stack[k]) :
                     Writable(o) \/ (k + 1 \in 1 .. n /\ o = stack[k + 1].container)
            BY <1>3, <1>4, <2>1 DEF FramesCover
        <3>2. CASE k = n
            BY <1>2, <1>5, <1>6, <1>b, <2>1, <3>1, <3>2
        <3>3. CASE k # n
            BY <1>2, <1>6, <1>7, <1>b, <2>1, <3>1, <3>3
        <3> QED
            BY <3>2, <3>3
    <2> QED
        BY <1>5, <1>6, <1>7, <1>b, <2>1 DEF FramesCover
<1>10. FramesDistinct(stack', seen')
    <2>2. \A k \in 1 .. n + 1 : (k = 1) <=> (stack'[k].container = NoContainer)
        BY <1>3, <1>4, <1>5, <1>6, <1>7, <1>b DEF FramesDistinct
    <2>3. \A k \in (1 .. n + 1) \ {1} : heap[stack'[k].container].kind = "container"
        BY <1>1, <1>3, <1>4, <1>5, <1>6, <1>7, <1>b DEF FramesDistinct
    <2>4. \A k \in 1 .. n : stack[k].container # object
        BY <1>1, <1>3, <1>4, <1>5 DEF FramesDistinct
    <2>5. \A j, k \in 1 .. n + 1 : stack'[j].container = stack'[k].container => j = k
        BY <1>3, <1>4, <1>5, <1>6, <1>7, <1>b, <2>4 DEF FramesDistinct
    <2>6. seen' = {stack'[k].container : k \in (1 .. n + 1) \ {1}}
        <3>2. seen = {stack[k].container : k \in (1 .. n) \ {1}}
            BY <1>3, <1>4 DEF FramesDistinct
        <3> QED
            BY <1>1, <1>5, <1>6, <1>7, <1>b, <3>2
    <2> QED
        BY <1>6, <2>2, <2>3, <2>5, <2>6 DEF FramesDistinct
<1>11. FramesNested(stack')
    <2>1. ASSUME NEW j \in 1 .. n + 1, NEW k \in 1 .. n + 1, j < k
          PROVE  stack'[k].container \in Held(Below(stack'[j]))
        <3>1. j \in 1 .. n
            BY <1>a, <2>1
        <3>2. CASE k = n + 1
            BY <1>5, <1>6, <1>7, <1>8, <3>1, <3>2
        <3>3. CASE k \in 1 .. n
            BY <1>3, <1>4, <1>7, <2>1, <3>1, <3>3 DEF FramesNested
        <3> QED
            BY <1>b, <3>2, <3>3
    <2> QED
        BY <1>6, <2>1 DEF FramesNested
<1> QED
    BY <1>3, <1>6, <1>9, <1>10, <1>11 DEF FramesSound

\* Shortening a sequence.
LEMMA Shortened ==
    ASSUME NEW S, NEW s \in Seq(S), NEW n \in Nat, Len(s) = n, n > 1
    PROVE  LET t == SubSeq(s, 1, n - 1)
           IN  t \in Seq(S) /\ Len(t) = n - 1 /\ \A k \in 1 .. n - 1 : t[k] = s[k]
OBVIOUS

LEMMA LeaveSound ==
    ASSUME FramesSound(stack, seen), Leave
    PROVE  FramesSound(stack', seen')
<1> DEFINE n == Len(stack)
           c == stack[n].container
<1>1. Top = stack[n] /\ Top.rest = <<>> /\ n > 1 /\ seen' = seen \ {c} /\ stack' = Front(stack)
    BY DEF Leave, Top
<1>2. /\ heap \in Heaps /\ stack \in Seq(Frames) /\ n \in Nat /\ DOMAIN stack = 1 .. n
      /\ FramesCover(stack) /\ FramesDistinct(stack, seen) /\ FramesNested(stack)
    BY FrameFields DEF FramesSound
<1>3. /\ stack' \in Seq(Frames) /\ stack' # <<>> /\ DOMAIN stack' = 1 .. n - 1
      /\ \A k \in 1 .. n - 1 : stack'[k] = stack[k]
    <2>1. stack' = SubSeq(stack, 1, n - 1) /\ stack \in Seq(Frames) /\ n = Len(stack) /\ n \in Nat /\ n > 1
        BY <1>1, <1>2 DEF Front
    <2> HIDE DEF n, c
    <2>2. stack' \in Seq(Frames) /\ Len(stack') = n - 1 /\ \A k \in 1 .. n - 1 : stack'[k] = stack[k]
        BY <2>1, Shortened
    <2>3. 1 \in 1 .. n - 1
        BY <2>1
    <2>4. DOMAIN stack' = 1 .. n - 1
        BY <2>2
    <2> QED
        BY <2>2, <2>3, <2>4
<1>4. Writable(c)
    <2>1. n \in DOMAIN stack /\ n # 1 /\ n + 1 \notin DOMAIN stack
        BY <1>1, <1>2
    <2>2. c \in Objects /\ Below(stack[n]) = Items(c)
        BY <2>1, FrameFields
    <2>3. Rest(stack[n]) = {}
        BY <1>1 DEF Rest
    <2>4. \A item \in Items(c) : Writable(item)
        BY <1>2, <2>1, <2>2, <2>3 DEF FramesCover
    <2>5. heap[c].kind = "container"
        BY <1>2, <2>1 DEF FramesDistinct
    <2> QED
        BY <1>2, <2>2, <2>4, <2>5, ContainerWritable
<1>a. n \in Nat /\ n > 1
    BY <1>1, <1>2
<1>b. c = stack[n].container
    OBVIOUS
<1> HIDE DEF c, n
<1>c. /\ (1 .. n) \ {1} = ((1 .. n - 1) \ {1}) \cup {n} /\ n \in 1 .. n
      /\ \A k \in 1 .. n - 1 : k \in 1 .. n /\ k # n /\ (k + 1 \in 1 .. n - 1 \/ k + 1 = n)
      /\ 1 \in 1 .. n - 1
    BY <1>a
<1>5. FramesCover(stack')
    <2>1. ASSUME NEW k \in 1 .. n - 1
          PROVE  /\ Rest(stack[k]) \subseteq Below(stack[k])
                 /\ \A o \in Below(stack[k]) \ Rest(stack[k]) :
                        Writable(o) \/ (k + 1 \in 1 .. n - 1 /\ o = stack[k + 1].container)
        <3>1. /\ Rest(stack[k]) \subseteq Below(stack[k])
              /\ \A o \in Below(stack[k]) \ Rest(stack[k]) :
                     Writable(o) \/ (k + 1 \in 1 .. n /\ o = stack[k + 1].container)
            BY <1>2, <1>c, <2>1 DEF FramesCover
        <3>2. k + 1 \in 1 .. n - 1 \/ (k + 1 = n /\ stack[k + 1].container = c)
            BY <1>b, <1>c, <2>1
        <3> QED
            BY <1>4, <3>1, <3>2
    <2> QED
        BY <1>3, <2>1 DEF FramesCover
<1>6. FramesDistinct(stack', seen')
    <2>1. seen' = {stack[k].container : k \in (1 .. n - 1) \ {1}}
        <3>1. seen = {stack[k].container : k \in (1 .. n) \ {1}}
            BY <1>2 DEF FramesDistinct
        <3>2. \A k \in 1 .. n - 1 : stack[k].container # c
            BY <1>2, <1>b, <1>c DEF FramesDistinct
        <3> QED
            BY <1>1, <1>b, <1>c, <3>1, <3>2
    <2> QED
        BY <1>2, <1>3, <1>c, <2>1 DEF FramesDistinct
<1>7. FramesNested(stack')
    BY <1>2, <1>3, <1>c DEF FramesNested
<1> QED
    BY <1>2, <1>3, <1>5, <1>6, <1>7 DEF FramesSound

\* A value is refused for what the root holds: something foreign, or a container
\* that is in itself.
LEMMA RefusedRightly ==
    ASSUME FramesSound(stack, seen), NEW object \in Objects, Refuse(object)
    PROVE  ~ Writable(Root)
<1> DEFINE n == Len(stack)
<1>1. /\ Looking(object)
      /\ heap[object].kind = "foreign" \/ (heap[object].kind = "container" /\ object \in seen)
    BY DEF Refuse
<1>2. object \in Below(stack[n])
    <2>1. object \in Rest(stack[n])
        BY <1>1, AdvancedFields
    <2> QED
        BY <2>1, FrameFields DEF FramesSound
<1>3. 1 \in DOMAIN stack /\ Below(stack[1]) = {Root}
    <2>1. 1 \in DOMAIN stack
        BY DEF FramesSound
    <2> QED
        BY <2>1, FrameFields
<1>4. object \in Held({Root})
    BY <1>2, <1>3, MetIsHeld
<1>5. ASSUME object \in seen
      PROVE  object \in Held(Items(object))
    <2>1. PICK k \in DOMAIN stack \ {1} : object = stack[k].container
        BY <1>5 DEF FramesSound, FramesDistinct
    <2>2. Below(stack[k]) = Items(object)
        BY <2>1, FrameFields
    <2> QED
        BY <1>2, <2>1, <2>2, MetIsHeld
<1> QED
    BY <1>1, <1>4, <1>5 DEF Writable

\* Nothing is left to look at in the outermost frame: the root can be written.
LEMMA AcceptedRightly ==
    ASSUME FramesSound(stack, seen), Dump
    PROVE  Writable(Root)
<1>1. Len(stack) = 1 /\ stack[1].rest = <<>>
    BY DEF Dump, Top
<1>2. DOMAIN stack = {1} /\ FramesCover(stack)
    BY <1>1 DEF FramesSound
<1>3. Rest(stack[1]) = {} /\ 1 + 1 \notin DOMAIN stack
    BY <1>1, <1>2 DEF Rest
<1>4. Below(stack[1]) = {Root} /\ 1 \in DOMAIN stack
    BY <1>2, FrameFields
<1> QED
    BY <1>2, <1>3, <1>4 DEF FramesCover

LEMMA EncodeInitially == EncodeInit => EncodeInv
<1> SUFFICES ASSUME EncodeInit PROVE EncodeInv
    OBVIOUS
<1> DEFINE frame == [container |-> NoContainer, rest |-> <<Root>>]
<1>1. heap \in Heaps /\ stack = <<frame>> /\ seen = {} /\ verdict = "none"
    BY DEF EncodeInit, Heaps
<1>2. frame \in Frames /\ frame.container = NoContainer
    BY EncodeAssumption DEF EncodeAssumption, Frames, Root, Objects
<1>3. Rest(frame) = {Root} /\ Below(frame) = {Root}
    BY DEF Rest, Below
<1> HIDE DEF frame
<1>4. stack \in Seq(Frames) /\ stack # <<>> /\ DOMAIN stack = {1} /\ stack[1] = frame
    BY <1>1, <1>2
<1>5. FramesDistinct(stack, seen)
    BY <1>1, <1>2, <1>4 DEF FramesDistinct
<1>6. FramesCover(stack)
    BY <1>3, <1>4 DEF FramesCover
<1>7. FramesNested(stack)
    BY <1>4 DEF FramesNested
<1>8. VerdictRight
    BY <1>1 DEF VerdictRight
<1> QED
    BY <1>1, <1>4, <1>5, <1>6, <1>7, <1>8 DEF EncodeInv, FramesSound

\* The heap stays as it is, and with it whatever is said of it.
LEMMA SaidOfTheHeap ==
    ASSUME heap' = heap, FramesSound(stack', seen')
    PROVE  FramesSound(stack, seen)'
<1>1. FramesDistinct(stack', seen') => FramesDistinct(stack, seen)'
    BY DEF FramesDistinct
<1>2. FramesCover(stack') => FramesCover(stack)'
    <2>1. \A o : Writable(o)' <=> Writable(o)
        BY DEF Writable, Held, Items
    <2>2. \A k : Below(stack[k])' = Below(stack'[k])
        BY DEF Below, Items
    <2>3. \A k : Rest(stack[k])' = Rest(stack'[k])
        BY DEF Rest
    <2> QED
        BY <2>1, <2>2, <2>3 DEF FramesCover
<1>3. FramesNested(stack') => FramesNested(stack)'
    BY DEF FramesNested, Below, Held, Items
<1> QED
    BY <1>1, <1>2, <1>3 DEF FramesSound, Heaps

LEMMA EncodeKept == EncodeInv /\ [EncodeNext]_encodeVars => EncodeInv'
<1> SUFFICES ASSUME EncodeInv, [EncodeNext]_encodeVars PROVE EncodeInv'
    OBVIOUS
<1>1. FramesSound(stack, seen)
    BY DEF EncodeInv
<1>2. heap' = heap
    BY DEF EncodeNext, PassLeaf, Refuse, Enter, Leave, Dump, encodeVars
<1>3. Writable(Root)' <=> Writable(Root)
    BY <1>2 DEF Writable, Held, Items, Root
<1>4. ASSUME NEW object \in Objects, PassLeaf(object)
      PROVE  FramesSound(stack', seen') /\ VerdictRight'
    <2>1. verdict' = "none"
        BY <1>4 DEF PassLeaf, Looking
    <2> QED
        BY <1>1, <1>4, <2>1, PassLeafSound DEF VerdictRight
<1>5. ASSUME NEW object \in Objects, Enter(object)
      PROVE  FramesSound(stack', seen') /\ VerdictRight'
    <2>1. verdict' = "none"
        BY <1>5 DEF Enter, Looking
    <2> QED
        BY <1>1, <1>5, <2>1, EnterSound DEF VerdictRight
<1>6. ASSUME NEW object \in Objects, Refuse(object)
      PROVE  FramesSound(stack', seen') /\ VerdictRight'
    <2>1. verdict' = "refused" /\ stack' = stack /\ seen' = seen
        BY <1>6 DEF Refuse
    <2>2. ~ Writable(Root)
        BY <1>1, <1>6, RefusedRightly
    <2> QED
        BY <1>1, <1>3, <2>1, <2>2 DEF VerdictRight
<1>7. CASE Leave
    <2>1. verdict' = "none"
        BY <1>7 DEF Leave
    <2> QED
        BY <1>1, <1>2, <1>7, <2>1, LeaveSound, SaidOfTheHeap DEF VerdictRight, EncodeInv
<1>8. CASE Dump
    <2>1. verdict' \in {"accepted", "too large"} /\ stack' = stack /\ seen' = seen
        BY <1>8 DEF Dump
    <2>2. Writable(Root)
        BY <1>1, <1>8, AcceptedRightly
    <2>3. VerdictRight'
        BY <1>3, <2>1, <2>2 DEF VerdictRight
    <2> QED
        BY <1>1, <1>2, <2>1, <2>3, SaidOfTheHeap DEF EncodeInv
<1>9. CASE UNCHANGED encodeVars
    <2>1. stack' = stack /\ seen' = seen /\ verdict' = verdict
        BY <1>9 DEF encodeVars
    <2>2. VerdictRight'
        BY <1>3, <2>1 DEF EncodeInv, VerdictRight
    <2> QED
        BY <1>1, <1>2, <2>1, <2>2, SaidOfTheHeap DEF EncodeInv
<1> QED
    BY <1>2, <1>4, <1>5, <1>6, <1>7, <1>8, <1>9, SaidOfTheHeap DEF EncodeNext, EncodeInv

THEOREM EncodeInvariant == EncodeSpec => []EncodeInv
BY EncodeInitially, EncodeKept, PTL DEF EncodeSpec

\* However the lists and dicts of a value are shared and nested: it is refused
\* if and only if it cannot be written down.
THEOREM VerdictIsRight == EncodeSpec => []VerdictRight
<1>1. EncodeInv => VerdictRight
    BY DEF EncodeInv
<1> QED
    BY <1>1, EncodeInvariant, PTL

=============================================================================
