SPECIFICATION Spec
INVARIANTS MountsDeclared EnvNamesUnique ProxyAndCAUniform NetworkContainersPaired ConfigureAfterDownload
