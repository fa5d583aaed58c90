---------------------------- MODULE MCAppServer ----------------------------
(* An application of the old interface, and two of the websocket one, of    *)
(* which one may hang, two clients and a POST.                              *)
EXTENDS AppServer
CONSTANTS old, new, hanging, client, other, post
MCApps == {old, new, hanging}
MCWsApps == {new, hanging}
MCHanging == {hanging}
MCClients == {client, other}
MCPosts == {post}
=============================================================================
