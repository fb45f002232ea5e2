---------------------------- MODULE GitStatusProofs ----------------------------
(* Invariance proofs for GitStatus: a valid bit the next answer leaves alone is *)
(* the truth, a status hides no edit but where add or an early answer lets it,  *)
(* and skip bits wait for their commit.                                         *)
EXTENDS GitStatus, TLAPS

\* Callbacks in flight name paths; no record is newer than the journal.
Calls ==
  /\ \A w \in Workers : /\ call[w].op # "idle" => call[w].path \in Paths
                        /\ call[w].op = "rename" => call[w].to \in Paths
                        /\ call[w].left # {} => call[w].to \in Paths
  /\ \A p \in Paths : last[p] <= seq

\* What an index says with its token: every edit still to come was recorded after
\* the token or is counted as lost, and so is every difference under a valid bit.
Pending(p) ==
  p \in open \/ \E w \in Workers : call[w].path = p \/ (call[w].left = {} /\ call[w].to = p)

Told(i) ==
  /\ i.token <= seq
  /\ \A p \in Paths : Pending(p) /\ last[p] <= i.token => p \in lost
  /\ \A p \in i.valid : content[p] # i.entry[p] /\ last[p] <= i.token => p \in lost

\* Skip bits are set on tracked paths, from git add's hook to commit-msg.
Skips ==
  /\ \A p \in index.skip : index.entry[p] # Absent
  /\ SkippedUntilCommit
  /\ git.pc \in {"msg", "unskipped", "revalidated"} => active
  /\ git.pc \in {"unskipped", "revalidated"} => index.skip = {}

\* What a running status still owes, and where it has it.
Owed ==
  git.pc = "status" =>
    /\ git.idx.entry = index.entry /\ git.idx.skip = index.skip
    /\ \A p \in git.due : content[p] # git.idx.entry[p]
    /\ git.due \subseteq git.todo \union git.shown \union git.excused \union git.idx.skip

GitInv == TypeOK /\ Calls /\ Told(index) /\ Told(git.idx) /\ Skips /\ Owed

-----------------------------------------------------------------------------
Calling == [op : OpKinds \union {"idle"}, path : Paths \union {NoPath},
            to : Paths \union {NoPath}, value : Contents \union {Absent}, left : SUBSET Paths]

\* Between callbacks.
LEMMA IdleLemma ==
  /\ Idle \in Calling /\ Idle.path = NoPath /\ Idle.to = NoPath /\ Idle.op = "idle"
  /\ Idle.left = {}
BY DEF Idle, Calling, Callback

LEMMA NoIndexTold ==
  ASSUME TypeOK
  PROVE  NoIndex \in Indexes /\ Told(NoIndex)
BY DEF NoIndex, Indexes, Told, NoToken, TypeOK, EditType

LEMMA GitInit == Init => GitInv
<1> SUFFICES ASSUME Init PROVE GitInv
  OBVIOUS
<1> USE EditAssumption DEF Init, InitEdits, InitGit
<1>1. EditType /\ Calls
  BY IdleLemma DEF EditType, Calls, Calling
<1>2. PICK seeded \in SUBSET Paths :
         index = [entry |-> content, valid |-> seeded, skip |-> {}, token |-> 0]
  OBVIOUS
<1>3. index \in Indexes
  BY <1>2 DEF Indexes
<1>4. TypeOK
  BY <1>1, <1>3 DEF TypeOK, NoGit, NoIndex, Indexes, NoToken
<1>5. Told(index)
  BY <1>2, IdleLemma DEF Told, Pending
<1>6. Told(git.idx)
  BY <1>4, NoIndexTold DEF NoGit
<1>7. Skips /\ Owed
  BY <1>2 DEF Skips, SkippedUntilCommit, Owed, NoGit
<1> QED  BY <1>1, <1>4, <1>5, <1>6, <1>7 DEF GitInv

\* What a step of the mount does to content, records and callbacks: only what is
\* pending changes, and only what is recorded becomes pending.
Edited ==
  /\ EditType' /\ Calls' /\ seq <= seq'
  /\ \A p \in Paths : last'[p] = last[p] \/ last'[p] = seq + 1
  /\ \A p \in Paths : Pending(p)' => Pending(p) \/ last'[p] = seq + 1
  /\ \A p \in Paths : content'[p] # content[p] => Pending(p) /\ last'[p] = last[p]

LEMMA RecordLemma ==
  ASSUME EditType, Calls, NEW p \in Paths, Record(p)
  PROVE  /\ last' \in [Paths -> Nat] /\ seq' \in Nat /\ pruned' \in Nat
         /\ pruned' # 0 => pruned' + KEEP_MIN <= seq'
         /\ seq <= seq' /\ last'[p] = seq + 1
         /\ \A q \in Paths : last'[q] <= seq' /\ last'[q] \in {last[q], seq + 1}
<1>1. /\ last \in [Paths -> Nat] /\ seq \in Nat /\ pruned \in Nat
      /\ pruned # 0 => pruned + KEEP_MIN <= seq
      /\ \A q \in Paths : last[q] <= seq
  BY DEF EditType, Calls
<1>2. seq' = seq + 1 /\ last' = [last EXCEPT ![p] = seq + 1] /\ pruned' = Pruned
  BY DEF Record
<1>3. pruned' \in Nat /\ (pruned' # 0 => pruned' + KEEP_MIN <= seq')
  BY <1>1, <1>2, WindowAssumption DEF Pruned
<1> QED  BY <1>1, <1>2, <1>3

\* A callback as it arrives.
LEMMA Arrives ==
  ASSUME NEW w \in Workers, Begin(w)
  PROVE  \E p \in Paths, c \in Calling :
           /\ call' = [call EXCEPT ![w] = c] /\ Record(p) /\ c.path = p
           /\ c.op = "rename" \/ c.left # {} => c.to \in Paths
           /\ c.to = NoPath \/ (c.left # {} /\ c.to \in Paths)
<1>1. PICK op \in Ops, p \in Paths :
        /\ \/ /\ op = "modify"
              /\ \E x \in (Contents \union {Absent}) \ {content[p]} :
                   call' = [call EXCEPT ![w] = Callback(op, p, NoPath, x)]
           \/ /\ op = "open" /\ content[p] # Absent
              /\ call' = [call EXCEPT ![w] = Callback(op, p, NoPath, Absent)]
           \/ /\ op = "rename" /\ content[p] # Absent
              /\ \E q \in Paths \ {p} : call' = [call EXCEPT ![w] = Callback(op, p, q, Absent)]
        /\ Record(p)
  BY DEF Begin
<1>2. PICK q \in Paths \union {NoPath}, x \in Contents \union {Absent} :
        /\ call' = [call EXCEPT ![w] = Callback(op, p, q, x)]
        /\ op = "rename" => q \in Paths
  BY <1>1
<1> DEFINE c == Callback(op, p, q, x)
<1>3. c \in Calling /\ c.path = p /\ c.op = op /\ c.to = q /\ c.left = {q} \ {NoPath}
  BY EditAssumption DEF Callback, Calling
<1>4. /\ c.op = "rename" \/ c.left # {} => c.to \in Paths
      /\ c.to = NoPath \/ (c.left # {} /\ c.to \in Paths)
  BY <1>2, <1>3
<1> HIDE DEF c
<1> QED  BY <1>1, <1>2, <1>3, <1>4 DEF c

\* A callback that has its effect was pending where it has it.
LEMMA Applies ==
  ASSUME EditType, Calls, NEW w \in Workers, Apply(w)
  PROVE  /\ content' \in [Paths -> Contents \union {Absent}] /\ open' \subseteq Paths
         /\ \A p \in Paths : content'[p] # content[p] => Pending(p)
         /\ \A p \in open' : Pending(p)
<1> DEFINE c == call[w]
<1>1. c \in Calling /\ c.op # "idle" /\ c.left = {} /\ c.path \in Paths
      /\ (c.op = "rename" => c.to \in Paths)
  BY DEF EditType, Calls, Calling, Apply
<1>2. Pending(c.path) /\ Pending(c.to)
  BY <1>1 DEF Pending
<1> HIDE DEF c
<1>3. \A p \in open : Pending(p)
  BY DEF Pending
<1>4. CASE /\ c.op = "modify" /\ content' = [content EXCEPT ![c.path] = c.value]
           /\ open' \in IF c.value = Absent THEN {open \ {c.path}} ELSE {open, open \union {c.path}}
  BY <1>1, <1>2, <1>3, <1>4 DEF EditType, Calling
<1>5. CASE open' = open \union {c.path} /\ UNCHANGED content
  BY <1>1, <1>2, <1>3, <1>5 DEF EditType
<1>6. CASE /\ c.op = "rename"
           /\ content' = [content EXCEPT ![c.to] = content[c.path], ![c.path] = Absent]
           /\ open' = (open \ {c.path, c.to}) \union (IF c.path \in open THEN {c.to} ELSE {})
  BY <1>1, <1>2, <1>3, <1>6 DEF EditType
<1> QED  BY <1>4, <1>5, <1>6 DEF Apply, c

LEMMA EditLemma ==
  ASSUME EditType, Calls, Edit
  PROVE  Edited
<1>1. ASSUME NEW w \in Workers, Begin(w)
      PROVE  Edited
  <2>1. PICK p \in Paths, c \in Calling :
           /\ call' = [call EXCEPT ![w] = c] /\ Record(p) /\ c.path = p
           /\ c.op = "rename" \/ c.left # {} => c.to \in Paths
           /\ c.to = NoPath \/ (c.left # {} /\ c.to \in Paths)
    BY <1>1, Arrives
  <2>2. /\ last' \in [Paths -> Nat] /\ seq' \in Nat /\ pruned' \in Nat
        /\ pruned' # 0 => pruned' + KEEP_MIN <= seq'
        /\ seq <= seq' /\ last'[p] = seq + 1
        /\ \A q \in Paths : last'[q] <= seq' /\ last'[q] \in {last[q], seq + 1}
    BY <2>1, RecordLemma
  <2>3. call' \in [Workers -> Calling] /\ call'[w] = c /\ UNCHANGED <<content, open>>
        /\ \A v \in Workers \ {w} : call'[v] = call[v]
    BY <1>1, <2>1 DEF EditType, Calling, Begin
  <2>4. EditType' /\ Calls'
    BY <2>1, <2>2, <2>3 DEF EditType, Calls, Calling
  <2>5. \A q \in Paths : Pending(q)' => Pending(q) \/ q = p
    BY <2>1, <2>3, EditAssumption DEF Pending
  <2> QED  BY <2>2, <2>3, <2>4, <2>5 DEF Edited
<1>2. ASSUME NEW w \in Workers, RecordTo(w)
      PROVE  Edited
  <2> DEFINE p == call[w].to
  <2>1. p \in Paths /\ Record(p) /\ call' = [call EXCEPT ![w].left = {}]
        /\ UNCHANGED <<content, open>>
    BY <1>2 DEF RecordTo, Calls
  <2>2. /\ last' \in [Paths -> Nat] /\ seq' \in Nat /\ pruned' \in Nat
        /\ pruned' # 0 => pruned' + KEEP_MIN <= seq'
        /\ seq <= seq' /\ last'[p] = seq + 1
        /\ \A q \in Paths : last'[q] <= seq' /\ last'[q] \in {last[q], seq + 1}
    BY <2>1, RecordLemma
  <2>3. EditType' /\ Calls'
    BY <2>1, <2>2 DEF EditType, Calls
  <2>4. \A q \in Paths : Pending(q)' => Pending(q) \/ q = p
    BY <2>1 DEF Pending, EditType
  <2> QED  BY <2>1, <2>2, <2>3, <2>4 DEF Edited
<1>3. ASSUME NEW w \in Workers, Apply(w)
      PROVE  Edited
  <2>1. /\ content' \in [Paths -> Contents \union {Absent}] /\ open' \subseteq Paths
        /\ \A p \in Paths : content'[p] # content[p] => Pending(p)
        /\ \A p \in open' : Pending(p)
    BY <1>3, Applies
  <2>2. call' = [call EXCEPT ![w] = Idle] /\ UNCHANGED <<last, seq, pruned>>
    BY <1>3 DEF Apply
  <2>3. Idle \in Calling /\ call'[w] = Idle /\ \A v \in Workers \ {w} : call'[v] = call[v]
    BY <2>2, IdleLemma DEF EditType
  <2>4. EditType' /\ Calls'
    BY <2>1, <2>2, <2>3, IdleLemma DEF EditType, Calls, Calling
  <2>5. \A q \in Paths : Pending(q)' => Pending(q)
    BY <2>1, <2>2, <2>3, IdleLemma, EditAssumption DEF Pending
  <2> QED  BY <2>1, <2>2, <2>4, <2>5 DEF Edited, EditType
<1>4. ASSUME NEW w \in Workers, Fail(w)
      PROVE  Edited
  <2>1. call' = [call EXCEPT ![w] = Idle] /\ UNCHANGED <<content, open, last, seq, pruned>>
    BY <1>4 DEF Fail
  <2>2. Idle \in Calling /\ call'[w] = Idle /\ \A v \in Workers \ {w} : call'[v] = call[v]
    BY <2>1, IdleLemma DEF EditType
  <2>3. EditType' /\ Calls'
    BY <2>1, <2>2, IdleLemma DEF EditType, Calls, Calling
  <2>4. \A q \in Paths : Pending(q)' => Pending(q)
    BY <2>1, <2>2, IdleLemma, EditAssumption DEF Pending
  <2> QED  BY <2>1, <2>3, <2>4 DEF Edited, EditType
<1>5. ASSUME NEW p \in Paths, Write(p)
      PROVE  Edited
  <2>1. PICK c \in Contents : content' = [content EXCEPT ![p] = c]
    BY <1>5 DEF Write
  <2>2. UNCHANGED <<open, last, seq, pruned, call>> /\ Pending(p)
    BY <1>5 DEF Write, Pending
  <2> QED  BY <2>1, <2>2 DEF Edited, EditType, Calls, Pending
<1>6. ASSUME NEW p \in Paths, Release(p)
      PROVE  Edited
  BY <1>6 DEF Release, Edited, EditType, Calls, Pending
<1> QED  BY <1>1, <1>2, <1>3, <1>4, <1>5, <1>6 DEF Edit

-----------------------------------------------------------------------------
\* A step of the mount leaves what an index says true, as the ghost follows.
LEMMA EditKeepsTold ==
  ASSUME GitInv, Edited, lost' = {p \in lost : last'[p] = last[p]}
  PROVE  \A i \in Indexes : Told(i) => Told(i)'
<1> SUFFICES ASSUME NEW i \in Indexes, Told(i)
             PROVE  Told(i)'
  OBVIOUS
<1>1. i.token <= seq /\ i.token \in Int /\ seq \in Int /\ seq' \in Int /\ seq <= seq'
      /\ i.valid \subseteq Paths
  BY DEF Told, Indexes, NoToken, GitInv, TypeOK, EditType, Edited
<1>2. ASSUME NEW p \in Paths, last'[p] <= i.token
      PROVE  last'[p] = last[p] /\ (p \in lost => p \in lost')
  <2>1. last'[p] # seq + 1
    BY <1>1, <1>2
  <2> QED  BY <2>1 DEF Edited
<1>3. ASSUME NEW p \in Paths, Pending(p)', last'[p] <= i.token
      PROVE  p \in lost'
  <2>1. last'[p] = last[p] /\ (p \in lost => p \in lost') /\ last'[p] # seq + 1
    BY <1>1, <1>2, <1>3
  <2> QED  BY <1>3, <2>1 DEF Edited, Told
<1>4. ASSUME NEW p \in i.valid, content'[p] # i.entry[p], last'[p] <= i.token
      PROVE  p \in lost'
  <2>1. p \in Paths /\ last'[p] = last[p] /\ (p \in lost => p \in lost')
    BY <1>1, <1>2, <1>4
  <2>2. CASE content'[p] = content[p]
    BY <1>4, <2>1, <2>2 DEF Told
  <2>3. CASE content'[p] # content[p]
    BY <1>4, <2>1, <2>3 DEF Edited, Told
  <2> QED  BY <2>2, <2>3
<1> QED  BY <1>1, <1>3, <1>4 DEF Told

LEMMA EditStepLemma ==
  ASSUME GitInv, EditStep
  PROVE  GitInv'
<1>1. Edited /\ lost' = {p \in lost : last'[p] = last[p]} /\ UNCHANGED <<index, hookVars>>
      /\ git' = [git EXCEPT !.due = {p \in @ : content'[p] = content[p]}]
  BY EditLemma DEF GitInv, TypeOK, EditStep
<1>2. /\ git'.idx = git.idx /\ git'.pc = git.pc /\ git'.todo = git.todo
      /\ git'.shown = git.shown /\ git'.excused = git.excused
      /\ git'.due = {p \in git.due : content'[p] = content[p]}
  BY <1>1 DEF GitInv, TypeOK
<1>3. TypeOK' /\ Calls'
  BY <1>1 DEF GitInv, TypeOK, Edited, hookVars
<1>4. \A i \in Indexes : Told(i) => Told(i)'
  BY <1>1, EditKeepsTold
<1>5. index \in Indexes /\ git.idx \in Indexes /\ Told(index) /\ Told(git.idx)
  BY DEF GitInv, TypeOK
<1>6. Told(index)' /\ Told(git.idx)'
  BY <1>1, <1>2, <1>4, <1>5 DEF Told, Pending
<1>7. Skips' /\ Owed'
  BY <1>1, <1>2 DEF GitInv, Skips, SkippedUntilCommit, Owed, hookVars
<1> QED  BY <1>3, <1>6, <1>7 DEF GitInv

\* An answer of the hook, taken with the ghost's update.
LEMMA AnswerLemma ==
  ASSUME GitInv, NEW i \in Answers(index)
  PROVE  /\ i \in Indexes /\ i.entry = index.entry /\ i.skip = index.skip
         /\ i.token <= seq
         /\ \A p \in Paths : Pending(p) /\ last[p] <= i.token => p \in Overtaken(i)
         /\ \A p \in i.valid : content[p] # i.entry[p] => p \in lost
<1>1. /\ index \in Indexes /\ seq \in Nat /\ pruned \in Nat /\ last \in [Paths -> Nat]
      /\ \A p \in Paths : last[p] <= seq
  BY DEF GitInv, TypeOK, EditType, Calls
<1>2. CASE i = Placed(index)
  <2> DEFINE kept == IF index.token < pruned THEN {} ELSE index.valid \ RecordedSince(index.token)
  <2>1. i = [entry |-> index.entry, valid |-> kept, skip |-> index.skip, token |-> seq]
    BY <1>1, <1>2 DEF Placed, Indexes
  <2>2. \A p \in kept : p \in Paths /\ p \in index.valid /\ last[p] <= index.token
    BY <1>1 DEF Indexes, RecordedSince, NoToken
  <2>3. i.token # NoToken
    BY <1>1, <2>1 DEF NoToken
  <2>4. \A p \in Paths : Pending(p) => p \in Overtaken(i)
    BY <2>3 DEF Overtaken, ToCome, Pending
  <2>5. \A p \in kept : content[p] # index.entry[p] => p \in lost
    BY <2>2 DEF GitInv, Told
  <2>6. kept \subseteq Paths
    BY <2>2
  <2> HIDE DEF kept
  <2> QED  BY <1>1, <2>1, <2>4, <2>5, <2>6 DEF Indexes
<1>3. CASE i = Invalidated(index)
  <2>1. i = [entry |-> index.entry, valid |-> {}, skip |-> index.skip, token |-> NoToken]
    BY <1>1, <1>3 DEF Invalidated, Indexes
  <2> QED  BY <1>1, <2>1 DEF Indexes, NoToken
<1> QED  BY <1>2, <1>3 DEF Answers

\* An index with the token of an answer, whose valid bits are the truth or lost.
LEMMA Asked ==
  ASSUME GitInv, NEW i \in Answers(index), UNCHANGED editVars,
         lost \union Overtaken(i) \subseteq lost'
  PROVE  \A j \in Indexes :
           j.token = i.token /\ (\A p \in j.valid : content[p] # j.entry[p] => p \in lost')
             => Told(j)'
BY AnswerLemma DEF Told, Pending, editVars

\* Indexes nobody touches stay true while the mount rests and lost only grows.
LEMMA Rests ==
  ASSUME GitInv, UNCHANGED editVars, lost \subseteq lost'
  PROVE  \A j \in Indexes : Told(j) => Told(j)'
BY DEF Told, Pending, editVars

LEMMA OvertakenType == \A i \in Indexes : Overtaken(i) \subseteq Paths
BY DEF Overtaken

LEMMA MountRests == TypeOK /\ Calls /\ UNCHANGED editVars => EditType' /\ Calls'
BY DEF TypeOK, EditType, Calls, editVars

GitType == [pc : {"idle", "status", "added"} \union GuardedPcs, idx : Indexes,
            todo : SUBSET Paths, shown : SUBSET Paths, due : SUBSET Paths,
            excused : SUBSET Paths]

LEMMA NoGitType ==
  /\ NoGit \in GitType /\ NoGit.idx = NoIndex /\ NoGit.pc = "idle" /\ NoIndex \in Indexes
  /\ \A pc \in {"added", "msg"} :
       /\ [NoGit EXCEPT !.pc = pc] \in GitType /\ [NoGit EXCEPT !.pc = pc].idx = NoIndex
       /\ [NoGit EXCEPT !.pc = pc].pc = pc
<1>1. NoIndex \in Indexes
  BY DEF NoIndex, Indexes
<1> QED  BY <1>1 DEF NoGit, GitType, GuardedPcs

\* A command that writes an index with an answer's token.
LEMMA Writes ==
  ASSUME GitInv, NEW i \in Answers(index), UNCHANGED editVars,
         lost \union Overtaken(i) \subseteq lost', lost' \subseteq Paths,
         NEW valid \in SUBSET Paths, NEW skip \in SUBSET Paths,
         NEW entry \in [Paths -> Contents \union {Absent}],
         index' = [entry |-> entry, valid |-> valid, skip |-> skip, token |-> i.token],
         \A p \in valid : content[p] # entry[p] => p \in lost',
         git'.idx \in {git.idx, NoIndex}, git' \in GitType, UNCHANGED hookVars
  PROVE  TypeOK' /\ Calls' /\ Told(index)' /\ Told(git.idx)'
<1>1. EditType' /\ Calls'
  BY MountRests DEF GitInv
<1>2. index' \in Indexes /\ index'.token = i.token /\ index'.valid = valid /\ index'.entry = entry
  BY AnswerLemma DEF Indexes
<1>3. TypeOK'
  BY <1>1, <1>2 DEF GitInv, TypeOK, GitType, hookVars
<1>4. Told(index)'
  <2>1. \A j \in Indexes :
           j.token = i.token /\ (\A p \in j.valid : content[p] # j.entry[p] => p \in lost')
             => Told(j)'
    BY Asked
  <2> QED  BY <1>2, <2>1 DEF Told, Pending
<1>5. Told(git.idx)'
  <2>1. \A j \in Indexes : Told(j) => Told(j)'
    BY Rests
  <2>2. Told(NoIndex) /\ NoIndex \in Indexes /\ Told(git.idx) /\ git.idx \in Indexes
    BY NoIndexTold DEF GitInv, TypeOK
  <2> QED  BY <2>1, <2>2 DEF Told, Pending
<1> QED  BY <1>1, <1>3, <1>4, <1>5

\* The status command.
LEMMA StatusStep ==
  ASSUME GitInv, StatusBegin \/ StatusEnd \/ GitExit \/ \E p \in Paths : StatusCheck(p)
  PROVE  GitInv'
<1> USE DEF GitInv
<1>1. EditType' /\ Calls' /\ UNCHANGED <<editVars, active>> /\ lost \subseteq lost' /\ lost' \subseteq Paths
      /\ {active', guard', cutShort'} \subseteq BOOLEAN
  <2>1. UNCHANGED <<editVars, active>> /\ {active', guard', cutShort'} \subseteq BOOLEAN
    BY DEF StatusBegin, StatusEnd, GitExit, StatusCheck, hookVars, TypeOK
  <2>2. lost \subseteq lost' /\ lost' \subseteq Paths
    BY DEF StatusBegin, StatusEnd, GitExit, StatusCheck, Overtaken, TypeOK
  <2> QED  BY <2>1, <2>2, MountRests
<1>2. \A j \in Indexes : Told(j) => Told(j)'
  BY <1>1, Rests
<1>3. index \in Indexes /\ git.idx \in Indexes /\ git \in GitType
  BY DEF TypeOK, GitType
<1>4. content' = content
  BY <1>1 DEF editVars
<1>5. CASE StatusBegin
  <2>1. PICK i \in Answers(index) :
          /\ git' = [pc |-> "status", idx |-> i, todo |-> Paths \ (i.valid \union i.skip),
                     shown |-> {}, due |-> Differs(i), excused |-> i.valid \cap lost]
          /\ lost' = lost \union Overtaken(i)
    BY <1>5 DEF StatusBegin
  <2>2. i \in Indexes /\ i.entry = index.entry /\ i.skip = index.skip
        /\ \A p \in i.valid : content[p] # i.entry[p] => p \in lost
    BY AnswerLemma
  <2>3. git.pc = "idle" /\ UNCHANGED <<index, hookVars>>
    BY <1>5 DEF StatusBegin
  <2>4. git' \in GitType /\ TypeOK'
    <3>1. Differs(i) \subseteq Paths /\ i.valid \subseteq Paths /\ i.skip \subseteq Paths
      BY <2>2 DEF Differs, Indexes
    <3>2. git' \in GitType
      BY <2>1, <2>2, <3>1 DEF GitType
    <3> QED  BY <1>1, <1>3, <2>3, <3>2 DEF TypeOK, GitType
  <2>5. Told(index)'
    BY <1>2, <1>3, <2>3 DEF Told, Pending
  <2>6. Told(git.idx)'
    <3>1. \A j \in Indexes :
             j.token = i.token /\ (\A p \in j.valid : content[p] # j.entry[p] => p \in lost')
               => Told(j)'
      BY <1>1, <2>1, Asked
    <3> QED  BY <1>1, <2>1, <2>2, <3>1 DEF Told, Pending
  <2>7. Skips'
    BY <1>1, <2>1, <2>3 DEF Skips, SkippedUntilCommit, hookVars
  <2>8. Owed'
    BY <1>4, <2>1, <2>2, <2>3 DEF Owed, Differs
  <2> QED  BY <1>1, <2>4, <2>5, <2>6, <2>7, <2>8
<1>6. ASSUME NEW p \in Paths, StatusCheck(p)
      PROVE  GitInv'
  <2>1. /\ git.pc = "status" /\ git'.pc = "status" /\ git'.due = git.due
        /\ git'.excused = git.excused /\ git'.todo = git.todo \ {p}
        /\ git'.idx = [git.idx EXCEPT !.valid = IF p \in Differs(git.idx) THEN @ ELSE @ \union {p}]
        /\ git'.shown = IF p \in Differs(git.idx) THEN git.shown \union {p} ELSE git.shown
        /\ git' \in GitType
    <3> DEFINE j == [git.idx EXCEPT !.valid = @ \union {p}]
    <3>1. j \in Indexes
      BY <1>3 DEF Indexes
    <3>2. git.pc = "status" /\ p \in git.todo
          /\ git' = IF p \in Differs(git.idx)
                      THEN [git EXCEPT !.todo = @ \ {p}, !.shown = @ \union {p}]
                      ELSE [git EXCEPT !.todo = @ \ {p}, !.idx = j]
      BY <1>6 DEF StatusCheck
    <3>3. git.idx = [git.idx EXCEPT !.valid = @]
      BY <1>3 DEF Indexes
    <3> HIDE DEF j
    <3>4. CASE p \in Differs(git.idx)
      BY <1>3, <3>2, <3>3, <3>4 DEF GitType
    <3>5. CASE p \notin Differs(git.idx)
      <4>1. git' \in GitType /\ git'.idx = j
        BY <1>3, <3>1, <3>2, <3>5 DEF GitType
      <4> QED  BY <1>3, <3>2, <3>5, <4>1 DEF GitType, j
    <3> QED  BY <3>4, <3>5
  <2>2. UNCHANGED <<index, hookVars, lost>>
    BY <1>6 DEF StatusCheck
  <2>3. TypeOK'
    BY <1>1, <1>3, <2>1, <2>2 DEF TypeOK, GitType
  <2>4. Told(index)'
    BY <1>2, <1>3, <2>2 DEF Told, Pending
  <2>5. Told(git.idx)'
    BY <1>1, <1>3, <2>1, <2>2 DEF Told, Pending, editVars, Differs, Indexes
  <2>6. Skips'
    BY <1>1, <2>1, <2>2 DEF Skips, SkippedUntilCommit, hookVars
  <2>7. Owed'
    BY <1>3, <1>4, <2>1, <2>2 DEF Owed, Differs, Indexes
  <2> QED  BY <1>1, <2>3, <2>4, <2>5, <2>6, <2>7
<1>7. CASE StatusEnd \/ GitExit
  <2>1. git' = NoGit /\ index' \in {index, git.idx} /\ UNCHANGED lost
        /\ (index' # index => git.pc = "status") /\ git.pc # "idle"
        /\ cutShort' = (cutShort \/ git.pc = "marked")
    BY <1>7 DEF StatusEnd, GitExit, hookVars, TypeOK
  <2>2. TypeOK'
    BY <1>1, <1>3, <2>1, NoGitType DEF TypeOK, GitType
  <2>3. Told(index)'
    BY <1>2, <1>3, <2>1 DEF Told, Pending
  <2>4. Told(git.idx)'
    <3>1. Told(NoIndex)
      BY NoIndexTold
    <3> QED  BY <1>2, <2>1, <3>1, NoGitType DEF Told, Pending
  <2>5. Skips' /\ Owed'
    BY <1>1, <2>1, NoGitType DEF Skips, SkippedUntilCommit, Owed
  <2> QED  BY <1>1, <2>2, <2>3, <2>4, <2>5
<1> QED  BY <1>5, <1>6, <1>7

\* git add and the hook it triggers.
LEMMA AddStep ==
  ASSUME GitInv, MarkSkipped \/ \E p \in Paths : Add(p)
  PROVE  GitInv'
<1>1. TypeOK /\ index \in Indexes /\ lost \subseteq Paths
  BY DEF GitInv, TypeOK
<1>2. ASSUME NEW p \in Paths, Add(p)
      PROVE  GitInv'
  <2>1. PICK i \in Answers(index) :
          /\ p \notin i.skip /\ lost' = lost \union Overtaken(i)
          /\ index' = [i EXCEPT !.entry[p] = content[p], !.valid = @ \ {p}]
    BY <1>2 DEF Add
  <2>2. /\ i \in Indexes /\ i.entry = index.entry /\ i.skip = index.skip
        /\ \A q \in i.valid : content[q] # i.entry[q] => q \in lost
    BY AnswerLemma
  <2> DEFINE entry == [i.entry EXCEPT ![p] = content[p]]
             valid == i.valid \ {p}
  <2>3. /\ valid \in SUBSET Paths /\ i.skip \in SUBSET Paths
        /\ entry \in [Paths -> Contents \union {Absent}]
        /\ \A q \in Paths \ {p} : entry[q] = index.entry[q]
    BY <1>1, <2>2 DEF Indexes, TypeOK, EditType
  <2>4. index' = [entry |-> entry, valid |-> valid, skip |-> i.skip, token |-> i.token]
    BY <2>1, <2>2 DEF Indexes
  <2>5. git.pc = "idle" /\ UNCHANGED <<editVars, hookVars>>
        /\ git' \in {git, [NoGit EXCEPT !.pc = "added"]}
    BY <1>2 DEF Add
  <2>6. git' \in GitType /\ git'.idx \in {git.idx, NoIndex} /\ git'.pc \in {"idle", "added"}
    BY <1>1, <2>5, NoGitType DEF TypeOK, GitType
  <2>7. /\ UNCHANGED editVars /\ lost \union Overtaken(i) \subseteq lost' /\ lost' \subseteq Paths
        /\ \A q \in valid : content[q] # entry[q] => q \in lost'
    BY <1>1, <2>1, <2>2, <2>3, <2>5 DEF Overtaken
  <2> HIDE DEF entry, valid
  <2>8. TypeOK' /\ Calls' /\ Told(index)' /\ Told(git.idx)'
    BY <2>3, <2>4, <2>5, <2>6, <2>7, Writes
  <2>9. Skips' /\ Owed'
    BY <2>1, <2>2, <2>3, <2>4, <2>5, <2>6 DEF GitInv, Skips, SkippedUntilCommit, Owed, hookVars
  <2> QED  BY <2>8, <2>9 DEF GitInv
<1>3. CASE MarkSkipped
  <2>1. PICK i \in Answers(index) :
          /\ index' = [i EXCEPT !.skip = @ \union Tracked(i), !.valid = @ \ Tracked(i)]
          /\ lost' = lost \union Overtaken(i)
    BY <1>3 DEF MarkSkipped
  <2>2. /\ i \in Indexes /\ i.entry = index.entry /\ i.skip = index.skip
        /\ \A q \in i.valid : content[q] # i.entry[q] => q \in lost
    BY AnswerLemma
  <2> DEFINE skip == i.skip \union Tracked(i)
             valid == i.valid \ Tracked(i)
  <2>3. /\ valid \in SUBSET Paths /\ skip \in SUBSET Paths
        /\ i.entry \in [Paths -> Contents \union {Absent}]
    BY <2>2 DEF Indexes, Tracked
  <2>4. index' = [entry |-> i.entry, valid |-> valid, skip |-> skip, token |-> i.token]
    BY <2>1, <2>2 DEF Indexes
  <2>5. /\ git' \in GitType /\ git'.idx = git.idx /\ git'.pc = "marked"
        /\ UNCHANGED <<editVars, hookVars>>
    BY <1>1, <1>3 DEF MarkSkipped, TypeOK, GitType, GuardedPcs
  <2>6. /\ lost \union Overtaken(i) \subseteq lost' /\ lost' \subseteq Paths
        /\ \A q \in valid : content[q] # i.entry[q] => q \in lost'
    BY <1>1, <2>1, <2>2 DEF Overtaken
  <2>7. \A q \in skip : i.entry[q] # Absent
    BY <2>2 DEF GitInv, Skips, Tracked
  <2> HIDE DEF skip, valid
  <2>8. TypeOK' /\ Calls' /\ Told(index)' /\ Told(git.idx)'
    BY <2>3, <2>4, <2>5, <2>6, Writes
  <2>9. Skips' /\ Owed'
    BY <2>4, <2>5, <2>7 DEF Skips, SkippedUntilCommit, Owed
  <2> QED  BY <2>8, <2>9 DEF GitInv
<1> QED  BY <1>2, <1>3

\* The steps of the hooks and of commit that leave the index alone.
LEMMA HookStep ==
  ASSUME GitInv, PostIndexChange \/ LeaveSentinel \/ Commit \/ RemoveSentinel
  PROVE  GitInv'
<1>1. TypeOK /\ index \in Indexes /\ git.idx \in Indexes /\ git \in GitType
  BY DEF GitInv, TypeOK, GitType
<1>2. UNCHANGED <<editVars, index, lost>> /\ {active', guard', cutShort'} \subseteq BOOLEAN
  BY <1>1 DEF PostIndexChange, LeaveSentinel, Commit, RemoveSentinel, TypeOK
<1>3. /\ git' \in GitType /\ git'.idx \in {git.idx, NoIndex} /\ git'.pc # "status"
      /\ \/ git.pc = "added" /\ git'.pc \in {"idle", "guarded"} /\ UNCHANGED <<active, cutShort>>
         \/ git.pc = "marked" /\ git'.pc = "idle" /\ active'
         \/ git.pc = "idle" /\ git'.pc = "msg" /\ active /\ UNCHANGED <<active, cutShort>>
         \/ git.pc = "revalidated" /\ git'.pc = "idle"
  <2>1. CASE PostIndexChange
    <3>1. [git EXCEPT !.pc = "guarded"] \in GitType
      BY <1>1 DEF GitType, GuardedPcs
    <3> QED  BY <1>1, <2>1, <3>1, NoGitType DEF PostIndexChange, GitType
  <2>2. CASE LeaveSentinel
    BY <2>2, NoGitType DEF LeaveSentinel
  <2>3. CASE Commit
    BY <2>3, NoGitType DEF Commit
  <2>4. CASE RemoveSentinel
    BY <2>4, NoGitType DEF RemoveSentinel
  <2> QED  BY <2>1, <2>2, <2>3, <2>4
<1>4. TypeOK' /\ Calls'
  BY <1>1, <1>2, <1>3, MountRests DEF GitInv, TypeOK, GitType
<1>5. Told(index)' /\ Told(git.idx)'
  <2>1. \A j \in Indexes : Told(j) => Told(j)'
    BY <1>2, Rests
  <2>2. Told(NoIndex) /\ NoIndex \in Indexes /\ Told(index) /\ Told(git.idx)
    BY NoIndexTold DEF GitInv
  <2> QED  BY <1>1, <1>2, <1>3, <2>1, <2>2 DEF Told, Pending
<1>6. Skips' /\ Owed'
  BY <1>2, <1>3 DEF GitInv, Skips, SkippedUntilCommit, Owed
<1> QED  BY <1>4, <1>5, <1>6 DEF GitInv

\* commit-msg's two commands on the index, which undo what add's hook left.
LEMMA CommitStep ==
  ASSUME GitInv, Unskip \/ Revalidate
  PROVE  GitInv'
<1>1. TypeOK /\ index \in Indexes /\ lost \subseteq Paths
  BY DEF GitInv, TypeOK
<1>3. CASE Unskip
  <2>1. PICK i \in Answers(index) :
          /\ index' = [i EXCEPT !.skip = @ \ Tracked(i), !.valid = @ \ Tracked(i)]
          /\ lost' = lost \union Overtaken(i)
    BY <1>3 DEF Unskip
  <2>2. /\ i \in Indexes /\ i.entry = index.entry /\ i.skip = index.skip
        /\ \A q \in i.valid : content[q] # i.entry[q] => q \in lost
    BY AnswerLemma
  <2> DEFINE skip == i.skip \ Tracked(i)
             valid == i.valid \ Tracked(i)
  <2>3. /\ valid \in SUBSET Paths /\ skip \in SUBSET Paths
        /\ i.entry \in [Paths -> Contents \union {Absent}]
    BY <2>2 DEF Indexes
  <2>4. index' = [entry |-> i.entry, valid |-> valid, skip |-> skip, token |-> i.token]
    BY <2>1, <2>2 DEF Indexes
  <2>5. /\ git' \in GitType /\ git'.idx = git.idx /\ git.pc = "msg" /\ git'.pc = "unskipped"
        /\ UNCHANGED <<editVars, hookVars>>
    BY <1>1, <1>3 DEF Unskip, TypeOK, GitType, GuardedPcs
  <2>6. /\ lost \union Overtaken(i) \subseteq lost' /\ lost' \subseteq Paths
        /\ \A q \in valid : content[q] # i.entry[q] => q \in lost'
    BY <1>1, <2>1, <2>2 DEF Overtaken
  <2>7. skip = {}
    <3>1. i.skip \subseteq Paths
      BY <2>2 DEF Indexes
    <3> QED  BY <2>2, <3>1 DEF GitInv, Skips, Tracked
  <2> HIDE DEF skip, valid
  <2>9. TypeOK' /\ Calls' /\ Told(index)' /\ Told(git.idx)'
    BY <2>3, <2>4, <2>5, <2>6, Writes
  <2>10. Skips' /\ Owed'
    BY <2>4, <2>5, <2>7 DEF GitInv, Skips, SkippedUntilCommit, Owed, hookVars
  <2> QED  BY <2>9, <2>10 DEF GitInv
<1>4. CASE Revalidate
  <2>1. PICK i \in Answers(index) :
          /\ index' = [i EXCEPT !.valid = @ \union Tracked(i)]
          /\ lost' = lost \union Overtaken(i) \union (Tracked(i) \cap Differs(i))
    BY <1>4 DEF Revalidate
  <2>2. /\ i \in Indexes /\ i.entry = index.entry /\ i.skip = index.skip
        /\ \A q \in i.valid : content[q] # i.entry[q] => q \in lost
    BY AnswerLemma
  <2> DEFINE valid == i.valid \union Tracked(i)
  <2>3. /\ valid \in SUBSET Paths /\ i.skip \in SUBSET Paths
        /\ i.entry \in [Paths -> Contents \union {Absent}]
    BY <2>2 DEF Indexes, Tracked
  <2>4. index' = [entry |-> i.entry, valid |-> valid, skip |-> i.skip, token |-> i.token]
    BY <2>1, <2>2 DEF Indexes
  <2>5. /\ git' \in GitType /\ git'.idx = git.idx /\ git.pc = "unskipped"
        /\ git'.pc = "revalidated" /\ UNCHANGED <<editVars, hookVars>>
    BY <1>1, <1>4 DEF Revalidate, TypeOK, GitType, GuardedPcs
  <2>6. /\ lost \union Overtaken(i) \subseteq lost' /\ lost' \subseteq Paths
        /\ \A q \in valid : content[q] # i.entry[q] => q \in lost'
    BY <1>1, <2>1, <2>2 DEF Overtaken, Tracked, Differs
  <2>7. i.skip = {}
    BY <2>2, <2>5 DEF GitInv, Skips
  <2> HIDE DEF valid
  <2>8. TypeOK' /\ Calls' /\ Told(index)' /\ Told(git.idx)'
    BY <2>3, <2>4, <2>5, <2>6, Writes
  <2>9. Skips' /\ Owed'
    BY <2>4, <2>5, <2>7 DEF GitInv, Skips, SkippedUntilCommit, Owed, hookVars
  <2> QED  BY <2>8, <2>9 DEF GitInv
<1> QED  BY <1>3, <1>4

LEMMA GitInvStep == GitInv /\ [Next]_vars => GitInv'
<1> SUFFICES ASSUME GitInv, [Next]_vars
             PROVE  GitInv'
  OBVIOUS
<1>1. CASE UNCHANGED vars
  BY <1>1 DEF vars, editVars, gitVars, GitInv, TypeOK, EditType, Calls, Told, Pending, Skips,
     SkippedUntilCommit, Owed, hookVars
<1> QED  BY <1>1, EditStepLemma, StatusStep, AddStep, HookStep, CommitStep DEF Next, GitStep

-----------------------------------------------------------------------------
\* A valid bit that the hook's next answer leaves alone is the truth, for any
\* number of paths, callbacks in flight, records and prunes, unless the hook
\* answered between the path's record and its effect or commit-msg set the bit
\* (journal.rs query, fsmonitor_hook.rs, git-repo lib.rs seed_fsmonitor_valid).
THEOREM ValidStaysClean == Spec => []ValidIsClean
<1>1. GitInv => ValidIsClean
  <2> SUFFICES ASSUME GitInv
               PROVE  ValidIsClean
    OBVIOUS
  <2>1. Placed(index) \in Answers(index)
    BY DEF Answers
  <2>2. /\ \A p \in Placed(index).valid : content[p] # Placed(index).entry[p] => p \in lost
        /\ Placed(index).entry = index.entry
    BY <2>1, AnswerLemma
  <2> QED  BY <2>2 DEF ValidIsClean, Differs
<1> QED  BY <1>1, GitInit, GitInvStep, PTL DEF Spec

\* Status shows every path that differs when it begins and keeps its content,
\* however callbacks, prunes, failing hooks and other commands lie around it,
\* except the paths git add's hook has marked skip-worktree and those whose valid
\* bit an early answer or commit-msg left (worktree lib.rs record_change before
\* every effect, journal.rs query, cli main.rs POST_INDEX_CHANGE_HOOK).
THEOREM NoEditStaysHidden == Spec => []NoEditHidden
<1>1. GitInv => NoEditHidden
  BY DEF GitInv, Owed, NoEditHidden, Reporting
<1> QED  BY <1>1, GitInit, GitInvStep, PTL DEF Spec

\* A path hidden by skip-worktree has the sentinel that makes the next commit-msg
\* take the bit away, wherever commands and hooks are interrupted, but for a hook
\* that dies between its marks and its sentinel (cli main.rs
\* POST_INDEX_CHANGE_HOOK, COMMIT_MSG_HOOK).
THEOREM SkipWaitsForCommit == Spec => []SkippedUntilCommit
<1>1. GitInv => SkippedUntilCommit
  BY DEF GitInv, Skips
<1> QED  BY <1>1, GitInit, GitInvStep, PTL DEF Spec
=============================================================================
