--------------------------- MODULE AgentKeyProofs ---------------------------
(***************************************************************************)
(* Agents keep their blocks apart, and the key of a predictive search is   *)
(* in the agent's own buffer, for every set of agents, texts and blocks.   *)
(***************************************************************************)
EXTENDS AgentKey, TLAPS

AgentRecords ==
  [query : Texts \cup {"none"}, key : [at : Places, str : Texts \cup {"none"}], state : States]

AgentsTyped == agent \in [Agents -> AgentRecords]

ContentTyped == content \in [Blocks -> Texts \cup {Freed}]

OneOwner ==
  \A a, b \in Agents :
    HasState(a) /\ HasState(b) /\ a # b => agent[a].state.block # agent[b].state.block

\* A block holds something just while an agent's State owns it.
OwnedFilled == 
  /\ \A a \in Agents : HasState(a) => content[agent[a].state.block] # Freed
  /\ \A b \in Blocks : content[b] # Freed => \E a \in Agents : HasState(a) /\ agent[a].state.block = b

AgentInv == AgentsTyped /\ ContentTyped /\ OneOwner /\ OwnedFilled /\ PredictiveKeysRead

\* The first parts of the invariant are TypeOK.
LEMMA InvIsTypeOK == AgentsTyped /\ ContentTyped /\ OneOwner /\ OwnedFilled <=> TypeOK
  BY DEF AgentsTyped, AgentRecords, ContentTyped, OneOwner, OwnedFilled, TypeOK, Owned, HasState,
         States, NoState

\* Agents begin without States, so nothing is owned.
LEMMA InitInv == Init => AgentInv
  BY DEF Init, AgentInv, AgentsTyped, AgentRecords, ContentTyped, OneOwner, OwnedFilled,
         PredictiveKeysRead, NewAgent, HasState, NoState, States, Places

\* The key that goes with a new state of an agent.
KeyFits(x, b, text) == x.state.status = "predictive" => x.key.at = b /\ x.key.str = text

\* An agent that keeps its block, or stays without one.
LEMMA KeepsBlock ==
  ASSUME AgentInv, NEW a \in Agents, NEW x \in AgentRecords,
         x.state = NoState <=> agent[a].state = NoState,
         x.state.block = agent[a].state.block,
         x.state.status = "predictive" =>
           agent[a].state.status = "predictive" /\ x.key = agent[a].key,
         agent' = [agent EXCEPT ![a] = x], content' = content
  PROVE  AgentInv'
<1>1. AgentsTyped' /\ ContentTyped'
  BY DEF AgentInv, AgentsTyped, ContentTyped
<1>2. \A c \in Agents : /\ agent'[c].state.block = agent[c].state.block
                        /\ HasState(c)' <=> HasState(c)
  BY DEF AgentInv, AgentsTyped, HasState
<1>3. OneOwner'
  BY <1>2 DEF AgentInv, OneOwner
<1>4. OwnedFilled'
  BY <1>2 DEF AgentInv, OwnedFilled
<1>5. PredictiveKeysRead'
  BY DEF AgentInv, AgentsTyped, PredictiveKeysRead
<1> QED BY <1>1, <1>3, <1>4, <1>5 DEF AgentInv

\* An agent whose buffer is text, in the block where it was or in a spare one.
LEMMA WritesBlock ==
  ASSUME AgentInv, NEW a \in Agents, NEW x \in AgentRecords, NEW text \in Texts,
         x.state # NoState, x.state.block \in WorkBlock(a),
         KeyFits(x, x.state.block, text),
         agent' = [agent EXCEPT ![a] = x], content' = Written(a, x.state.block, text)
  PROVE  AgentInv'
<1> DEFINE b == x.state.block
<1>0. b \in Blocks /\ (\A c \in Agents : c # a /\ HasState(c) => agent[c].state.block # b)
  BY DEF WorkBlock, AgentInv, AgentsTyped, AgentRecords, OneOwner, Spare, Owned, HasState, States, NoState
<1>2. /\ agent'[a] = x
      /\ HasState(a)'
      /\ \A c \in Agents : c # a => agent'[c] = agent[c] /\ (HasState(c)' <=> HasState(c))
  BY DEF AgentInv, AgentsTyped, HasState
<1>3. /\ content'[b] = text
      /\ \A c \in Agents : c # a /\ HasState(c) =>
           content'[agent[c].state.block] = content[agent[c].state.block]
  BY <1>0 DEF AgentInv, AgentsTyped, AgentRecords, States, NoState, HasState, OneOwner, Written
<1>1. AgentsTyped' /\ ContentTyped'
  BY DEF AgentInv, AgentsTyped, ContentTyped, Written
<1>4. OneOwner'
  BY <1>0, <1>2 DEF AgentInv, OneOwner
<1>5. OwnedFilled'
  <2>1. \A c \in Agents : HasState(c)' => (content[agent[c].state.block])' # Freed
    BY <1>2, <1>3, FreedAssumption DEF AgentInv, OwnedFilled
  <2>2. ASSUME NEW d \in Blocks, content'[d] # Freed
        PROVE  \E c \in Agents : HasState(c)' /\ agent'[c].state.block = d
    <3>1. CASE d = b
      BY <1>2, <3>1
    <3>2. CASE d # b
      <4>1. content[d] # Freed /\ ~(HasState(a) /\ d = agent[a].state.block)
        BY <2>2, <3>2 DEF Written
      <4>2. PICK c \in Agents : HasState(c) /\ agent[c].state.block = d
        BY <4>1 DEF AgentInv, OwnedFilled
      <4> QED BY <4>1, <4>2, <1>2
    <3> QED BY <3>1, <3>2
  <2> QED BY <2>1, <2>2 DEF OwnedFilled
<1>6. PredictiveKeysRead'
  BY <1>2, <1>3 DEF AgentInv, PredictiveKeysRead, KeyFits, HasState, NoState
<1> QED BY <1>1, <1>4, <1>5, <1>6 DEF AgentInv

\* The memory when a State goes with its buffer.
Given(a) ==
  IF HasState(a) THEN [content EXCEPT ![agent[a].state.block] = Freed] ELSE content

\* An agent that is left without a State.
LEMMA LosesBlock ==
  ASSUME AgentInv, NEW a \in Agents, NEW x \in AgentRecords, x.state = NoState,
         agent' = [agent EXCEPT ![a] = x], content' = Given(a)
  PROVE  AgentInv'
<1>1. AgentsTyped' /\ ContentTyped'
  BY DEF AgentInv, AgentsTyped, ContentTyped, Given
<1>2. /\ agent'[a] = x
      /\ ~HasState(a)'
      /\ \A c \in Agents : c # a => agent'[c] = agent[c] /\ (HasState(c)' <=> HasState(c))
  BY DEF AgentInv, AgentsTyped, HasState
<1>3. \A c \in Agents : c # a /\ HasState(c) =>
        content'[agent[c].state.block] = content[agent[c].state.block]
  BY DEF AgentInv, AgentsTyped, AgentRecords, States, NoState, HasState, OneOwner, Given, ContentTyped
<1>4. OneOwner'
  BY <1>2 DEF AgentInv, OneOwner
<1>5. OwnedFilled'
  <2>1. \A c \in Agents : HasState(c)' => (content[agent[c].state.block])' # Freed
    BY <1>2, <1>3 DEF AgentInv, OwnedFilled
  <2>2. ASSUME NEW d \in Blocks, content'[d] # Freed
        PROVE  \E c \in Agents : HasState(c)' /\ agent'[c].state.block = d
    <3>1. content[d] # Freed /\ ~(HasState(a) /\ d = agent[a].state.block)
      BY <2>2 DEF Given, AgentInv, ContentTyped
    <3>2. PICK c \in Agents : HasState(c) /\ agent[c].state.block = d
      BY <3>1 DEF AgentInv, OwnedFilled
    <3> QED BY <3>1, <3>2, <1>2
  <2> QED BY <2>1, <2>2 DEF OwnedFilled
<1>6. PredictiveKeysRead'
  BY <1>2, <1>3 DEF AgentInv, PredictiveKeysRead, HasState, NoState
<1> QED BY <1>1, <1>4, <1>5, <1>6 DEF AgentInv

\* A new query preserves the invariant.
LEMMA SetQueryInv ==
  ASSUME AgentInv, NEW a \in Agents, SetQuery(a) PROVE AgentInv'
<1>1. PICK text \in Texts :
        agent' = [agent EXCEPT ![a].query = text, ![a].state = Reset(@)]
  BY DEF SetQuery
<1> DEFINE x == [query |-> text, key |-> agent[a].key, state |-> Reset(agent[a].state)]
<1>2. agent[a] \in AgentRecords
  BY DEF AgentInv, AgentsTyped
<1>3. x \in AgentRecords /\ x.state.status # "predictive"
      /\ (x.state = NoState <=> agent[a].state = NoState) /\ x.state.block = agent[a].state.block
  BY <1>2 DEF AgentRecords, Reset, NoState, States, Statuses
<1>4. agent' = [agent EXCEPT ![a] = x]
  <2>1. PICK q, k, s : agent[a] = [query |-> q, key |-> k, state |-> s]
    BY <1>2 DEF AgentRecords
  <2> DEFINE y == [agent[a] EXCEPT !.query = text]
             z == [y EXCEPT !.state = Reset(@)]
  <2>2. y = [query |-> text, key |-> k, state |-> s]
    BY <2>1
  <2> HIDE DEF y
  <2>3. z = x
    BY <2>1, <2>2
  <2>4. agent' = [[agent EXCEPT ![a] = y] EXCEPT
                    ![a] = [[agent EXCEPT ![a] = y][a] EXCEPT !.state = Reset(@)]]
    BY <1>1 DEF y
  <2> HIDE DEF x
  <2>5. agent' = [agent EXCEPT ![a] = z]
    BY <2>4 DEF AgentInv, AgentsTyped
  <2> QED BY <2>3, <2>5
<1> HIDE DEF x
<1> QED BY <1>1, <1>3, <1>4, KeepsBlock DEF SetQuery

\* A search is one of these two: the State stays where it is, or it is made
\* or moved in a block of which nobody else knows.
Record(a, status, b, key) ==
  [query |-> agent[a].query, key |-> key, state |-> [status |-> status, block |-> b]]

\* What a search leaves in its agent is an agent.
LEMMA SearchedRecord ==
  ASSUME AgentInv, NEW a \in Agents, NEW b \in Blocks, NEW status \in Statuses,
         NEW key \in [at : Places, str : Texts \cup {"none"}], Searched(a, status, b, key)
  PROVE  /\ Record(a, status, b, key) \in AgentRecords
         /\ Record(a, status, b, key).state # NoState
         /\ agent' = [agent EXCEPT ![a] = Record(a, status, b, key)]
<1>1. Record(a, status, b, key) \in AgentRecords /\ Record(a, status, b, key).state # NoState
  BY DEF AgentInv, AgentsTyped, AgentRecords, Record, NoState, States, Statuses
<1>2. agent[a] \in AgentRecords
  BY DEF AgentInv, AgentsTyped
<1>3. PICK q, k, s : agent[a] = [query |-> q, key |-> k, state |-> s]
  BY <1>2 DEF AgentRecords
<1> DEFINE y == [agent[a] EXCEPT !.state = [status |-> status, block |-> b]]
           z == [y EXCEPT !.key = key]
<1>4. y = [query |-> q, key |-> k, state |-> [status |-> status, block |-> b]]
  BY <1>3
<1> HIDE DEF y
<1>5. z = Record(a, status, b, key)
  BY <1>3, <1>4 DEF Record
<1>6. agent' = [[agent EXCEPT ![a] = y] EXCEPT ![a] = [[agent EXCEPT ![a] = y][a] EXCEPT !.key = key]]
  BY DEF Searched, y
<1>7. agent' = [agent EXCEPT ![a] = z]
  BY <1>6 DEF AgentInv, AgentsTyped
<1>8. agent' = [agent EXCEPT ![a] = Record(a, status, b, key)]
  BY <1>5, <1>7
<1> QED BY <1>1, <1>8

\* A search that keeps its buffer preserves the invariant.
LEMMA KeepsBufferInv ==
  ASSUME AgentInv, NEW a \in Agents, NEW b \in Blocks, NEW status \in Statuses,
         NEW key \in [at : Places, str : Texts \cup {"none"}],
         KeepsBuffer(a, b), Searched(a, status, b, key),
         status = "predictive" => agent[a].state.status = "predictive" /\ key = agent[a].key
  PROVE  AgentInv'
<1> DEFINE x == Record(a, status, b, key)
<1>1. /\ x \in AgentRecords /\ x.state # NoState /\ x.key = key
      /\ x.state.status = status /\ x.state.block = b
      /\ agent' = [agent EXCEPT ![a] = x]
  BY SearchedRecord DEF Record
<1>2. CASE HasState(a)
  BY <1>1, <1>2, KeepsBlock DEF KeepsBuffer, HasState
<1>3. CASE ~HasState(a)
  <2>1. PICK text \in Texts : content' = [content EXCEPT ![b] = text]
    BY <1>3 DEF KeepsBuffer
  <2>2. b \in WorkBlock(a) /\ content' = Written(a, b, text)
    BY <1>3, <2>1 DEF KeepsBuffer, WorkBlock, Written, AgentInv, ContentTyped
  <2>3. status # "predictive"
    BY <1>3 DEF HasState, NoState
  <2> HIDE DEF x
  <2> QED BY <1>1, <2>2, <2>3, WritesBlock DEF KeyFits
<1> QED BY <1>2, <1>3

\* A search that writes its own buffer preserves the invariant.
LEMMA WritesBufferInv ==
  ASSUME AgentInv, NEW a \in Agents, NEW b \in WorkBlock(a), NEW text \in Texts,
         NEW status \in Statuses, NEW key \in [at : Places, str : Texts \cup {"none"}],
         content' = Written(a, b, text), Searched(a, status, b, key),
         status = "predictive" => key = InBuffer(b, text)
  PROVE  AgentInv'
<1> DEFINE x == Record(a, status, b, key)
<1>0. b \in Blocks
  BY DEF WorkBlock, Spare, AgentInv, AgentsTyped, AgentRecords, HasState, States, NoState
<1>1. /\ x \in AgentRecords /\ x.state # NoState /\ x.key = key
      /\ x.state.status = status /\ x.state.block = b
      /\ agent' = [agent EXCEPT ![a] = x]
  BY <1>0, SearchedRecord DEF Record
<1>2. KeyFits(x, b, text)
  BY <1>1 DEF KeyFits, InBuffer
<1> HIDE DEF x
<1> QED BY <1>1, <1>2, WritesBlock

\* The keys that searches leave behind.
LEMMA KeysTyped ==
  ASSUME AgentInv, NEW a \in Agents
  PROVE  /\ agent[a].key \in [at : Places, str : Texts \cup {"none"}]
         /\ Asked(a) => InQuery(agent[a].query) \in [at : Places, str : Texts \cup {"none"}]
         /\ \A text \in Texts : InQuery(text) \in [at : Places, str : Texts \cup {"none"}]
         /\ \A b \in Blocks, text \in Texts :
              InBuffer(b, text) \in [at : Places, str : Texts \cup {"none"}]
  BY DEF AgentInv, AgentsTyped, AgentRecords, InQuery, InBuffer, Places, Asked

\* A search works in blocks of the memory.
LEMMA WorkBlocks == ASSUME AgentInv, NEW a \in Agents PROVE WorkBlock(a) \subseteq Blocks
  BY DEF WorkBlock, Spare, AgentInv, AgentsTyped, AgentRecords, HasState, States, NoState

\* lookup preserves the invariant.
LEMMA LookupInv ==
  ASSUME AgentInv, NEW a \in Agents, Lookup(a) PROVE AgentInv'
  BY KeysTyped, KeepsBufferInv DEF Lookup, Statuses

\* common_prefix_search preserves the invariant.
LEMMA CommonPrefixSearchInv ==
  ASSUME AgentInv, NEW a \in Agents, CommonPrefixSearch(a) PROVE AgentInv'
  BY KeysTyped, KeepsBufferInv DEF CommonPrefixSearch, Statuses

\* reverse_lookup preserves the invariant: it writes its own buffer.
LEMMA ReverseLookupInv ==
  ASSUME AgentInv, NEW a \in Agents, ReverseLookup(a) PROVE AgentInv'
<1>1. ASSUME NEW b \in WorkBlock(a), NEW text \in Texts, content' = Written(a, b, text),
             Searched(a, "all", b, InBuffer(b, text))
      PROVE  AgentInv'
  BY <1>1, KeysTyped, WorkBlocks, WritesBufferInv DEF Statuses
<1>2. ASSUME NEW b \in Blocks, KeepsBuffer(a, b),
             Searched(a, IF HasState(a) THEN agent[a].state.status ELSE "all", b, agent[a].key)
      PROVE  AgentInv'
  <2> DEFINE status == IF HasState(a) THEN agent[a].state.status ELSE "all"
  <2>1. status \in Statuses /\ (status = "predictive" => agent[a].state.status = "predictive")
    BY DEF AgentInv, AgentsTyped, AgentRecords, HasState, States, NoState, Statuses
  <2> QED BY <1>2, <2>1, KeysTyped, KeepsBufferInv
<1> QED BY <1>1, <1>2 DEF ReverseLookup

\* predictive_search preserves the invariant: its key is in its own buffer.
LEMMA PredictiveSearchInv ==
  ASSUME AgentInv, NEW a \in Agents, PredictiveSearch(a) PROVE AgentInv'
<1>1. PICK b \in WorkBlock(a), text \in Texts :
        /\ content' = Written(a, b, text)
        /\ \/ Searched(a, "predictive", b, InBuffer(b, text))
           \/ Searched(a, "predictive_end", b, agent[a].key)
  BY DEF PredictiveSearch
<1> QED BY <1>1, KeysTyped, WorkBlocks, WritesBufferInv DEF Statuses

\* Clearing an agent frees the block of its State.
LEMMA ClearInv ==
  ASSUME AgentInv, NEW a \in Agents, Clear(a) PROVE AgentInv'
<1>1. NewAgent \in AgentRecords /\ NewAgent.state = NoState
  BY DEF NewAgent, AgentRecords, Places, States
<1> QED BY <1>1, LosesBlock DEF Clear, Given

\* The key of a copy points into the copied buffer, or where the key of the
\* agent points that is copied.
LEMMA CopyInv ==
  ASSUME AgentInv, NEW a \in Agents, NEW b \in Agents, Copy(a, b) PROVE AgentInv'
<1>1. agent[b] \in AgentRecords
  BY DEF AgentInv, AgentsTyped
<1>2. CASE HasState(b)
  <2> DEFINE text == content[agent[b].state.block]
             x(block) == [query |-> agent[b].query, key |-> RepointedKey(agent[b], block),
                          state |-> [agent[b].state EXCEPT !.block = block]]
  <2>1. PICK block \in Spare :
          agent' = [agent EXCEPT ![a] = x(block)] /\ content' = Written(a, block, text)
    BY <1>2 DEF Copy
  <2>2. text \in Texts
    BY <1>1, <1>2 DEF AgentInv, ContentTyped, OwnedFilled, HasState, AgentRecords, States, NoState
  <2>3. block \in Blocks /\ block \in WorkBlock(a)
    BY DEF Spare, WorkBlock
  <2>4. agent[b].state \in [status : Statuses, block : Blocks]
    BY <1>1, <1>2 DEF AgentRecords, States, HasState
  <2>5. RepointedKey(agent[b], block) \in [at : Places, str : Texts \cup {"none"}]
    BY <1>1, <2>2, <2>3 DEF RepointedKey, InBuffer, AgentRecords, Places
  <2>6. x(block) \in AgentRecords /\ x(block).state # NoState /\ x(block).state.block = block
    BY <1>1, <2>3, <2>4, <2>5 DEF AgentRecords, States, NoState, Statuses
  <2>7. KeyFits(x(block), block, text)
    BY <2>4 DEF KeyFits, RepointedKey, InBuffer
  <2> HIDE DEF x, text
  <2> QED BY <2>1, <2>2, <2>3, <2>6, <2>7, WritesBlock
<1>3. CASE ~HasState(b)
  BY <1>1, <1>3, LosesBlock DEF Copy, Given, HasState
<1> QED BY <1>2, <1>3

\* Moving an agent passes its State on, with the block.
LEMMA MoveInv ==
  ASSUME AgentInv, NEW a \in Agents, NEW b \in Agents, Move(a, b) PROVE AgentInv'
<1>1. /\ a # b
      /\ agent'[a] = agent[b]
      /\ agent'[b] = [agent[b] EXCEPT !.state = NoState]
      /\ \A c \in Agents : c # a /\ c # b => agent'[c] = agent[c]
  BY DEF Move, AgentInv, AgentsTyped
<1>2. content' = Given(a)
  BY DEF Move, Given
<1>3. /\ HasState(a)' <=> HasState(b)
      /\ ~HasState(b)' /\ agent'[b].state.status # "predictive"
      /\ \A c \in Agents : c # a /\ c # b => (HasState(c)' <=> HasState(c))
  BY <1>1 DEF HasState, AgentInv, AgentsTyped, AgentRecords, NoState
<1>4. AgentsTyped'
  BY SMTT(30) DEF Move, AgentInv, AgentsTyped, AgentRecords, States
<1>5. ContentTyped'
  BY <1>2 DEF Given, AgentInv, ContentTyped
<1>6. OneOwner'
  BY <1>1, <1>3 DEF AgentInv, OneOwner
<1>7. \A c \in Agents : c # a /\ HasState(c) =>
        content'[agent[c].state.block] = content[agent[c].state.block]
  BY <1>2 DEF AgentInv, AgentsTyped, AgentRecords, States, NoState, HasState, OneOwner, Given,
              ContentTyped
<1>8. OwnedFilled'
  <2>1. \A c \in Agents : HasState(c)' => content'[agent'[c].state.block] # Freed
    BY <1>1, <1>3, <1>7 DEF AgentInv, OwnedFilled
  <2>2. ASSUME NEW d \in Blocks, content'[d] # Freed
        PROVE  \E c \in Agents : HasState(c)' /\ agent'[c].state.block = d
    <3>1. content[d] # Freed /\ ~(HasState(a) /\ d = agent[a].state.block)
      BY <2>2, <1>2 DEF Given, AgentInv, ContentTyped
    <3>2. PICK c \in Agents : HasState(c) /\ agent[c].state.block = d
      BY <3>1 DEF AgentInv, OwnedFilled
    <3> QED BY <3>1, <3>2, <1>1, <1>3
  <2> QED BY <2>1, <2>2 DEF OwnedFilled
<1>9. PredictiveKeysRead'
  <2>1. ASSUME NEW c \in Agents, agent'[c].state.status = "predictive"
        PROVE  /\ agent'[c].key.at = agent'[c].state.block
               /\ content'[agent'[c].state.block] = agent'[c].key.str
    <3> DEFINE from == IF c = a THEN b ELSE c
    <3>1. c # b /\ agent'[c] = agent[from] /\ from # a /\ from \in Agents
      BY <1>1, <1>3, <2>1
    <3>2. HasState(from)
      BY <2>1, <3>1 DEF HasState, NoState
    <3> QED BY <2>1, <3>1, <3>2, <1>7 DEF AgentInv, PredictiveKeysRead
  <2> QED BY <2>1 DEF PredictiveKeysRead
<1> QED BY <1>4, <1>5, <1>6, <1>8, <1>9 DEF AgentInv

\* Swapping agents exchanges their States and keys.
LEMMA SwapInv ==
  ASSUME AgentInv, NEW a \in Agents, NEW b \in Agents, Swap(a, b) PROVE AgentInv'
<1> DEFINE from(c) == IF c = a THEN b ELSE IF c = b THEN a ELSE c
<1>1. /\ \A c \in Agents : /\ from(c) \in Agents /\ from(from(c)) = c
                           /\ agent'[c] = agent[from(c)] /\ (HasState(c)' <=> HasState(from(c)))
      /\ \A c, d \in Agents : from(c) = from(d) => c = d
  BY DEF Swap, AgentInv, AgentsTyped, HasState
<1>2. content' = content
  BY DEF Swap
<1>3. AgentsTyped' /\ ContentTyped'
  BY <1>2 DEF Swap, AgentInv, AgentsTyped, ContentTyped
<1> HIDE DEF from
<1>4. OneOwner'
  BY <1>1 DEF AgentInv, OneOwner
<1>5. OwnedFilled'
  <2>1. \A c \in Agents : HasState(c)' => content'[agent'[c].state.block] # Freed
    BY <1>1, <1>2 DEF AgentInv, OwnedFilled
  <2>2. ASSUME NEW d \in Blocks, content'[d] # Freed
        PROVE  \E c \in Agents : HasState(c)' /\ agent'[c].state.block = d
    <3>1. PICK c \in Agents : HasState(c) /\ agent[c].state.block = d
      BY <1>2, <2>2 DEF AgentInv, OwnedFilled
    <3>2. HasState(from(c))' /\ agent'[from(c)].state.block = d
      BY <1>1, <3>1
    <3> QED BY <1>1, <3>2
  <2> QED BY <2>1, <2>2 DEF OwnedFilled
<1>6. PredictiveKeysRead'
  BY <1>1, <1>2 DEF AgentInv, PredictiveKeysRead
<1> QED BY <1>3, <1>4, <1>5, <1>6 DEF AgentInv

\* Every step preserves the invariant.
LEMMA StepInv == AgentInv /\ [Next]_agentKeyVars => AgentInv'
<1> SUFFICES ASSUME AgentInv, [Next]_agentKeyVars PROVE AgentInv'
  OBVIOUS
<1>1. CASE UNCHANGED agentKeyVars
  BY <1>1 DEF agentKeyVars, AgentInv, AgentsTyped, ContentTyped, OneOwner, OwnedFilled,
              PredictiveKeysRead, HasState
<1>2. ASSUME NEW a \in Agents,
             SetQuery(a) \/ Lookup(a) \/ CommonPrefixSearch(a)
             \/ ReverseLookup(a) \/ PredictiveSearch(a) \/ Clear(a)
      PROVE  AgentInv'
  BY <1>2, SetQueryInv, LookupInv, CommonPrefixSearchInv, ReverseLookupInv,
     PredictiveSearchInv, ClearInv
<1>3. ASSUME NEW a \in Agents, NEW b \in Agents, Copy(a, b) \/ Move(a, b) \/ Swap(a, b)
      PROVE  AgentInv'
  BY <1>3, CopyInv, MoveInv, SwapInv
<1> QED BY <1>1, <1>2, <1>3 DEF Next

---------------------------------------------------------------------------
\* No block of memory has two owners, is lost, or is used after it was given
\* back, for every set of agents, texts and blocks.
THEOREM BlocksKept == Spec => []TypeOK
<1>1. AgentInv => TypeOK
  BY InvIsTypeOK DEF AgentInv
<1> QED BY <1>1, InitInv, StepInv, PTL DEF Spec

\* While a predictive search goes on, the key of its agent reads in the agent's
\* own buffer as what the search returned.
THEOREM PredictiveKeysAlwaysRead == Spec => []PredictiveKeysRead
<1>1. AgentInv => PredictiveKeysRead
  BY DEF AgentInv
<1> QED BY <1>1, InitInv, StepInv, PTL DEF Spec

=============================================================================
