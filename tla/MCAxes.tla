------------------------------- MODULE MCAxes -------------------------------
(* Values for checking Axes with TLC: a source with two functions, a test    *)
(* file, two external tests, two manifests, and a store with two copies of   *)
(* one package.                                                              *)
EXTENDS Axes, TLC
CONSTANTS a, b, t, man, sub, lock, virtual, u, x, y, f, g, root, p1, p2, q1, n1, n2

MCPath == {a, b, t, man, sub, lock}
MCUnit == {u, x, y}
MCTestOf == u :> t @@ x :> virtual @@ y :> virtual
MCNameOf == p1 :> "p" @@ p2 :> "p" @@ q1 :> "q" @@ n1 :> "native" @@ n2 :> "native"

Base == [p \in Part |-> 0]
Edited(p) == [Base EXCEPT ![p] = 1]
Tree(direct, indirect) ==
  {Link(root, "p", direct), Link(root, "q", q1), Link(q1, "p", indirect)}
WithNative(n) == Tree(p1, p1) \cup {Link(root, "native", n)}
Package(deps, rest, layout) == [deps |-> deps, rest |-> rest, layout |-> layout]

MCContents == a :> {Base, Edited(f), Edited(g)} @@ b :> {Base, Edited("load")} @@ t :> {Base, Absent}
              @@ man :> {Package(i, j, k) : i \in {0}, j \in {0, 1}, k \in {0}} \cup {Package(1, 0, 0), Absent}
              @@ sub :> {Package(0, 0, 0), Package(1, 0, 0), Package(1, 1, 0)}
              @@ lock :> {Tree(p1, p2), Tree(p2, p1), Tree(p1, p1), Tree(p1, p2) \ {Link(root, "q", q1)}, Absent}
NativeContents == a :> {Base} @@ b :> {Base} @@ t :> {Base} @@ man :> {Package(0, 0, 0)}
                  @@ sub :> {Package(0, 0, 0)}
                  @@ lock :> {WithNative(n1), WithNative(n2)}

MCCommitted == a :> Base @@ b :> Base @@ t :> Base @@ man :> Package(0, 0, 0)
               @@ sub :> Package(0, 0, 0) @@ lock :> Tree(p1, p2)
\* A name that a test resolves only in one of two trees that both have it.
LateContents == [MCContents EXCEPT ![lock] = {Tree(p1, p2), Tree(p1, p2) \ {Link(root, "p", p1)}}]
LateCommitted == [MCCommitted EXCEPT ![lock] = Tree(p1, p2) \ {Link(root, "p", p1)}]
NativeCommitted == [MCCommitted EXCEPT ![lock] = WithNative(n1)]

MCUses == u :> {"p"} @@ x :> {"p", "q"} @@ y :> {}
NativeUses == u :> {"p", "native"} @@ x :> {} @@ y :> {}

Nothing == [h \in {} |-> {}]
MCBehaviours == u :> {<<b :> {f}, Nothing>>, <<a :> {}, a :> {g}>>}
                @@ x :> {<<a :> {g}, Nothing>>} @@ y :> {<<a :> {}, Nothing>>}
\* A test whose second isolate may have no blocks of what only it loads.
MixedBehaviours == u :> {<<b :> {f}, a :> {h}>> : h \in {f, g}} @@ x :> {<<a :> {g}, Nothing>>}
                   @@ y :> {<<a :> {}, Nothing>>}

W(blocks, observes) == [blocks |-> blocks, observes |-> observes]
Full == [windows |-> <<W(TRUE, MCPath), W(TRUE, MCPath)>>, packages |-> TRUE, blind |-> {}]
MCRecorders == {Full, [Full EXCEPT !.windows[2].blocks = FALSE], [Full EXCEPT !.packages = FALSE],
                [Full EXCEPT !.blind = {u}],
                [Full EXCEPT !.windows[1].observes = {a, b, t}, !.windows[2].observes = {a}]}
OneRecorder == {Full}
MCSplits == {{u, x, y}, {u}}

Answers(ok, source, versions) == [ok |-> ok, source |-> source, version |-> versions]
MCSuites == {Answers(TRUE, 1, x :> 1), Answers(TRUE, 1, x :> 1 @@ y :> Unversioned),
             Answers(TRUE, 1, x :> 2), Answers(TRUE, 2, x :> 1), Answers(FALSE, 1, x :> 2 @@ y :> 1)}
NoSuite == {Answers(TRUE, 1, Nothing)}

MCConfig == [sourceGlobs |-> {a, b}, testGlobs |-> {t}, testIgnore |-> {}, granularity |-> "block",
             alwaysRun |-> {}, sentinels |-> {man, sub, lock}]
=============================================================================
