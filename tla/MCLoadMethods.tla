--------------------------- MODULE MCLoadMethods ---------------------------
(* Four images for checking LoadMethods. *)
EXTENDS LoadMethods, TLC

CONSTANTS app, lib, plug, ext,   \* images
          A, B, C, D, E,         \* classes
          Bx, Ax, Dx, Ex         \* categories

\* lib: A <- B and a category; app and plug: classes below B and A.  C has
\* no +load, ext has categories of the classes of plug and app only.
ImageOf == (A :> lib) @@ (B :> lib) @@ (Bx :> lib) @@ (C :> app) @@ (D :> app)
             @@ (Ax :> app) @@ (E :> plug) @@ (Ex :> plug) @@ (Dx :> ext)
SuperOf == (A :> Nil) @@ (B :> A) @@ (C :> B) @@ (D :> C) @@ (E :> A)
Extended == (Bx :> B) @@ (Ax :> A) @@ (Dx :> D) @@ (Ex :> E)
NonlazyClasses == (lib :> <<B, A>>) @@ (app :> <<D>>) @@ (plug :> <<E>>) @@ (ext :> <<>>)
NonlazyCategories == (lib :> <<Bx>>) @@ (app :> <<Ax>>) @@ (plug :> <<Ex>>) @@ (ext :> <<Dx>>)
Links == (lib :> {}) @@ (app :> {lib}) @@ (plug :> {lib}) @@ (ext :> {app, lib})
=============================================================================
