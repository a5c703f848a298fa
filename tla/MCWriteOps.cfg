\* One update of each of some 800 bodies; two renders with up to two
\* directives each.
SPECIFICATION Spec
CONSTANTS
  Renders <- Both
  Scenarios <- AllScenarios
  Template <- TheTemplate
CHECK_DEADLOCK FALSE
INVARIANTS UpdatesAreExact FieldsSurvive
