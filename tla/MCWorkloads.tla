---------------------------- MODULE MCWorkloads ----------------------------
(* Instance of Workloads for TLC: workloads called web, seen from every side. *)
EXTENDS Workloads, TLC

Web == [ns |-> "shop", name |-> <<"web">>]
WebDeployments == {Web}

Owned(ns, kind, name, root) ==
    [ns |-> ns, refs |-> <<[kind |-> kind, name |-> name]>>, labels |-> [app |-> <<"web">>], root |-> root]

SomeTemplates ==
    { Owned("shop", "ReplicaSet", <<"web", "5b5d9c5f7">>, <<"web">>),
      \* a hash that is too short for the pattern
      Owned("shop", "ReplicaSet", <<"web", "5b5d9">>, <<"web">>),
      \* a namesake in another namespace
      Owned("crm", "StatefulSet", <<"web">>, <<"web">>),
      \* a mirror pod: its owner is a node, its labels name it; and one without labels
      Owned("shop", "Node", <<"n1">>, <<"web">>),
      [ns |-> "shop", refs |-> <<[kind |-> "Node", name |-> <<"n1">>]>>, labels |-> <<>>, root |-> <<>>] }

PodSymmetry == Permutations(Pods)
=============================================================================
