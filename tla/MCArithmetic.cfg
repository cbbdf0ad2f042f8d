SPECIFICATION Spec
CONSTANT Calls <- MCCalls
INVARIANT ComputesReference
