\* Recipes: one session, three variants; groups: two sessions, three groups, two products.
SPECIFICATION Spec
CONSTANTS
  s1 = s1
  s2 = s2
  v1 = v1
  v2 = v2
  x1 = x1
  x2 = x2
  x3 = x3
  NoJob = NoJob
  Absent = Absent
  Root = Root
  Session = {s1, s2}
  Group = {x1, x2, x3}
  Sku = {v1, v2}
  Sorted = {x3}
SYMMETRY Symmetric
INVARIANTS RecipesSound RecipesCounted GroupsKept
CHECK_DEADLOCK FALSE
