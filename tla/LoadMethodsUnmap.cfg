CONSTANTS
  app = app
  lib = lib
  plug = plug
  ext = ext
  A = A
  B = B
  C = C
  D = D
  E = E
  Ax = Ax
  Bx = Bx
  Dx = Dx
  Ex = Ex
  Images = {app, lib, plug, ext}
  Classes = {A, B, C, D, E}
  Categories = {Ax, Bx, Dx, Ex}
  imageOf <- ImageOf
  superclass <- SuperOf
  classOf <- Extended
  nonlazyClasses <- NonlazyClasses
  nonlazyCategories <- NonlazyCategories
  dependsOn <- Links
  Nil = Nil
  UnmapDetached = TRUE
  MaxUnmaps = 1
SPECIFICATION Spec
INVARIANTS
  NoStaleCall
CHECK_DEADLOCK FALSE
