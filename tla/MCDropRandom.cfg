SPECIFICATION Spec
CONSTANT MaxCapacity = 5
INVARIANTS SameAsOneStep
