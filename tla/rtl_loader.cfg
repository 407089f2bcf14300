SPECIFICATION Spec
CONSTANTS
  MEM_SIZE = 4
  NUM_PROGRAMS = 2
  SwSpan = 4
  Library <- MCLibrary
INVARIANT DataMatchesIndex
PROPERTY CoreStartsOnImage
