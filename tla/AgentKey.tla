------------------------------ MODULE AgentKey ------------------------------
(***************************************************************************)
(* Agent: where its key points, as agents are searched with, copied, moved *)
(* and swapped.  A key owns no characters: it points into the client's     *)
(* query or into the key buffer of the agent's State.  Copying an agent    *)
(* copies its State, and with it the buffer, so the key has to follow.     *)
(*                                                                         *)
(* The buffer is a block of memory; a State that appends to its buffer may *)
(* move it to another block.  What a search finds is left open: TrieSearch *)
(* is about that.                                                          *)
(***************************************************************************)
EXTENDS FiniteSets

CONSTANTS
  Agents,
  Texts,       \* the strings that queries and keys may be
  Blocks,      \* memory for key buffers
  Freed        \* what a block holds that no State owns

ASSUME FreedAssumption == Freed \notin Texts
ASSUME MemoryAssumption == IsFiniteSet(Blocks) /\ IsFiniteSet(Agents)

VARIABLES
  agent,       \* query_, key_ and state_ of each agent
  content      \* what each block of memory holds

agentKeyVars == <<agent, content>>

\* Where a key points: nowhere, into a text of the client, or into a block.
Places == {"null", "query"} \cup Blocks

Statuses == {"all", "prefix", "predictive", "prefix_end", "predictive_end"}

\* No agent has the empty buffer's address as its key, so a State without a
\* buffer is one whose block nobody reads.
NoState == [status |-> "none", block |-> "none"]
States == [status : Statuses, block : Blocks] \cup {NoState}

HasState(a) == agent[a].state # NoState
Owned == {agent[a].state.block : a \in {b \in Agents : HasState(b)}}
Spare == Blocks \ Owned

NewAgent == [query |-> "none", key |-> [at |-> "null", str |-> "none"], state |-> NoState]

Init ==
  /\ agent = [a \in Agents |-> NewAgent]
  /\ content = [b \in Blocks |-> Freed]

---------------------------------------------------------------------------
\* set_query: a State is reset; the key stays what it was.
Reset(state) == IF state = NoState THEN NoState ELSE [state EXCEPT !.status = "all"]

SetQuery(a) ==
  /\ \E text \in Texts :
       agent' = [agent EXCEPT ![a].query = text, ![a].state = Reset(@)]
  /\ UNCHANGED content

\* init_state at the first search, or the State there is, whose buffer the
\* search may move: the block that the search works on.
WorkBlock(a) == IF HasState(a) THEN {agent[a].state.block} \cup Spare ELSE Spare

\* Mutant: the block of the buffer that is replaced is not given back.
WrittenLeaking(a, b, text) == [content EXCEPT ![b] = text]

\* The memory when a's buffer is text in block b, and not where it was.
Written(a, b, text) ==
  [c \in Blocks |-> IF c = b THEN text
                    ELSE IF HasState(a) /\ c = agent[a].state.block THEN Freed
                    ELSE content[c]]

InQuery(text) == [at |-> "query", str |-> text]
InBuffer(b, text) == [at |-> b, str |-> text]

Searched(a, status, b, key) ==
  agent' = [agent EXCEPT ![a].state = [status |-> status, block |-> b], ![a].key = key]

\* A search that leaves the buffer where and what it is.
KeepsBuffer(a, b) ==
  /\ IF HasState(a) THEN b = agent[a].state.block ELSE b \in Spare
  /\ \E text \in Texts :
       content' = IF HasState(a) THEN content ELSE [content EXCEPT ![b] = text]

Asked(a) == agent[a].query \in Texts

Lookup(a) ==
  /\ Asked(a)
  /\ \E b \in Blocks :
       /\ KeepsBuffer(a, b)
       /\ \/ Searched(a, "all", b, InQuery(agent[a].query))
          \/ Searched(a, "all", b, agent[a].key)

\* A prefix of the query is found, or the search ends, for good.
CommonPrefixSearch(a) ==
  /\ Asked(a)
  /\ \E b \in Blocks :
       /\ KeepsBuffer(a, b)
       /\ \/ /\ agent[a].state.status # "prefix_end"
             /\ \E text \in Texts : Searched(a, "prefix", b, InQuery(text))
          \/ Searched(a, "prefix_end", b, agent[a].key)

\* The key is restored in the buffer; an id out of range only makes a State.
ReverseLookup(a) ==
  /\ Asked(a)
  /\ \/ \E b \in WorkBlock(a), text \in Texts :
          /\ content' = Written(a, b, text)
          /\ Searched(a, "all", b, InBuffer(b, text))
     \/ \E b \in Blocks :
          /\ KeepsBuffer(a, b)
          /\ Searched(a, IF HasState(a) THEN agent[a].state.status ELSE "all",
                      b, agent[a].key)

\* The next key is in the buffer, or the search ends with what is left there.
PredictiveSearch(a) ==
  /\ Asked(a) /\ agent[a].state.status # "predictive_end"
  /\ \E b \in WorkBlock(a), text \in Texts :
       /\ content' = Written(a, b, text)
       /\ \/ Searched(a, "predictive", b, InBuffer(b, text))
          \/ Searched(a, "predictive_end", b, agent[a].key)

---------------------------------------------------------------------------
\* Mutant: only a search that goes on is repointed where its key was.
RepointedKeyAsIs(source, b) == source.key

\* UpdateAgentAfterCopyingState: the key of a copy.
RepointedKey(source, b) ==
  IF source.state.status \in {"predictive", "predictive_end"}
  THEN InBuffer(b, content[source.state.block])
  ELSE source.key

\* a = b, or a copy-constructed from b when a is new: the State is copied
\* before the old one goes.
Copy(a, b) ==
  IF HasState(b)
  THEN \E block \in Spare :
         /\ agent' = [agent EXCEPT
                        ![a] = [query |-> agent[b].query, key |-> RepointedKey(agent[b], block),
                                state |-> [agent[b].state EXCEPT !.block = block]]]
         /\ content' = Written(a, block, content[agent[b].state.block])
  ELSE /\ agent' = [agent EXCEPT ![a] = agent[b]]
       /\ content' = IF HasState(a) THEN [content EXCEPT ![agent[a].state.block] = Freed]
                     ELSE content

\* a = std::move(b): the State goes, with its buffer; query and key stay.
Move(a, b) ==
  /\ a # b
  /\ agent' = [agent EXCEPT ![a] = agent[b], ![b].state = NoState]
  /\ content' = IF HasState(a) THEN [content EXCEPT ![agent[a].state.block] = Freed]
                ELSE content

Swap(a, b) ==
  /\ a # b
  /\ agent' = [agent EXCEPT ![a] = agent[b], ![b] = agent[a]]
  /\ UNCHANGED content

\* clear, and the end of an agent.
Clear(a) ==
  /\ agent' = [agent EXCEPT ![a] = NewAgent]
  /\ content' = IF HasState(a) THEN [content EXCEPT ![agent[a].state.block] = Freed]
                ELSE content

Next ==
  \/ \E a \in Agents :
       \/ SetQuery(a) \/ Lookup(a) \/ CommonPrefixSearch(a)
       \/ ReverseLookup(a) \/ PredictiveSearch(a) \/ Clear(a)
  \/ \E a, b \in Agents : Copy(a, b) \/ Move(a, b) \/ Swap(a, b)

Spec == Init /\ [][Next]_agentKeyVars

---------------------------------------------------------------------------
\* Types, and that blocks have one owner and hold something while owned.
TypeOK ==
  /\ agent \in [Agents -> [query : Texts \cup {"none"},
                           key : [at : Places, str : Texts \cup {"none"}], state : States]]
  /\ content \in [Blocks -> Texts \cup {Freed}]
  /\ \A a, b \in Agents :
       HasState(a) /\ HasState(b) /\ a # b => agent[a].state.block # agent[b].state.block
  /\ \A b \in Blocks : content[b] # Freed <=> b \in Owned

\* While a predictive search goes on, its agent's key is in the agent's own
\* buffer and reads as what the search returned: through copies in the middle
\* of a search, assignments over an agent that searches, moves, swaps and
\* whatever other agents do with theirs.
PredictiveKeysRead ==
  \A a \in Agents :
    agent[a].state.status = "predictive" =>
      /\ agent[a].key.at = agent[a].state.block
      /\ content[agent[a].state.block] = agent[a].key.str

\* "In other states, they key is either null, or points to the query, so we do
\* not need to repoint it": outside predictive searches, no agent with a State
\* has a key in a buffer that is not its own.  But reverse_lookup also
\* puts its key in the buffer, and leaves the status "all".
OtherKeysNeedNoRepointing ==
  \A a \in Agents :
    HasState(a) /\ agent[a].state.status \notin {"predictive", "predictive_end"} =>
      agent[a].key.at \in {"null", "query", agent[a].state.block}

===========================================================================
