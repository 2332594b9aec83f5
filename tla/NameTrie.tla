------------------------------ MODULE NameTrie ------------------------------
(***************************************************************************)
(* The name trie of the client engine (std/engine/basic/simple_trie.go):   *)
(* nodes that point to each other.  A trie is the sequence of all nodes    *)
(* ever made, the first of them the root; a node that was deleted is still *)
(* there for who holds it, and still points to its parent.                 *)
(***************************************************************************)
EXTENDS Naturals, Sequences, SequencesExt

Root == 1
NoNode == 0

\* newTrieNode.  A child is known by the last component of its name.
NewNode(name, par, val) == [name |-> name, par |-> par, chd |-> {}, val |-> val]

NewNameTrie(val) == <<NewNode(<<>>, NoNode, val)>>

\* The nodes that are found from the root.
Found(t) ==
    LET found[n \in DOMAIN t] == n = Root \/ (n \in t[t[n].par].chd /\ found[t[n].par])
    IN  {n \in DOMAIN t : found[n]}

ExactMatch(t, name) ==
    LET match == {n \in Found(t) : t[n].name = name}
    IN  IF match = {} THEN NoNode ELSE CHOOSE n \in match : TRUE

\* The nodes for the prefixes of a name: PrefixMatch and its ancestors.
OnPath(t, name) == {n \in Found(t) : IsPrefix(t[n].name, name)}

PrefixMatch(t, name) ==
    CHOOSE n \in OnPath(t, name) : \A m \in OnPath(t, name) : Len(t[m].name) <= Len(t[n].name)

\* MatchAlways: the trie with a node for every prefix of the name.
WithNode(t, name, val) ==
    LET add(u, i) ==
            LET prefix == SubSeq(name, 1, i)
                par    == ExactMatch(u, Front(prefix))
            IN  IF ExactMatch(u, prefix) # NoNode THEN u
                ELSE [Append(u, NewNode(prefix, par, val)) EXCEPT ![par].chd = @ \cup {Len(u) + 1}]
    IN  FoldLeft(add, t, [i \in 1 .. Len(name) |-> i])

\* n and its ancestors below the root, from n upwards.
Upwards(t, n) ==
    LET up[i \in 1 .. Len(t[n].name)] == IF i = 1 THEN n ELSE t[up[i - 1]].par
    IN  up

\* The child under this key is gone, whichever node it is.
DeleteKey(t, n) ==
    [t EXCEPT ![n].chd = {},
              ![t[n].par].chd = {c \in @ : Last(t[c].name) # Last(t[n].name)}]

PruneIf(t, n, pred(_)) ==
    LET prune(acc, m) ==
            IF acc.stop \/ acc.t[m].chd # {} \/ ~pred(acc.t[m].val)
            THEN [acc EXCEPT !.stop = TRUE]
            ELSE [acc EXCEPT !.t = DeleteKey(@, m)]
    IN  FoldLeft(prune, [t |-> t, stop |-> FALSE], Upwards(t, n)).t

\* Prune calls PruneIf with a predicate that is true of every value.
Prune(t, n) == PruneIf(t, n, LAMBDA v : TRUE)
=============================================================================
